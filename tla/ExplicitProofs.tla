---------------------------- MODULE ExplicitProofs -----------------------------
(***************************************************************************)
(* That the consumers of an explicit producer find their items, that no    *)
(* slot in use is overwritten and that its destructor destroys what is     *)
(* left, proved for every set of consumers and blocks, every size of a     *)
(* block and of the first index, and any number of items and calls.  The   *)
(* theorems assume ~KeepsBlocks: a call that fails after it added blocks   *)
(* breaks the invariant.                                                   *)
(*                                                                         *)
(* The invariant, IInv, numbers the blocks as their items are.  Those in   *)
(* the circle have consecutive numbers, First..Top, and the block number k *)
(* is at the slot k + a[j] of the ring j, for one offset a[j] per ring.  A *)
(* consumer may hold a ring that was replaced, or one whose entries were   *)
(* overwritten, but for the blocks it has still to read it agrees with the *)
(* current one: a block leaves the circle only when it is empty.           *)
(***************************************************************************)
EXTENDS ExplicitQueue, FiniteSetTheorems, SequenceTheorems, WellFoundedInduction, TLAPS

(***************************************************************************)
(* Blocks are numbered as their items are: block number k is for the items *)
(* k * BLOCK_SIZE and on.                                                  *)
(***************************************************************************)
Items(k) == k * BLOCK_SIZE .. k * BLOCK_SIZE + BLOCK_SIZE - 1

\* The numbers of the block with the last published item, of the tail block, and of the
\* block after it in the circle, the oldest.
Last == BlockOf(tailIndex - 1)
Added == IF step = "idle" THEN 0 ELSE Found
Top == Last + Added
First == Top - slotsUsed + 1
Circle == First..Top

\* The items a consumer has claimed and not yet marked.
At(c) == BlockOf(index[c])
Pending(c) == index[c]..(end[c] - 1)
Unread(i) == i >= headIndex \/ \E c \in Consumers : i \in Pending(c)

\* The items that are in their place.
Written == tailIndex + IF step = "publish" THEN count ELSE 0
Untaken(c) == {i \in Pending(c) : where[c] = "mark" => BlockOf(i) # At(c)}
Present(i) == i \in headIndex..(Written - 1) \/ \E c \in Consumers : i \in Untaken(c)

(***************************************************************************)
(* The rings.  In the ring j block number k has the slot k + a[j], the     *)
(* same however often the ring goes round.                                 *)
(***************************************************************************)
EntryIn(a, j, k) == indices[j].entries[(k + a[j]) % indices[j].size]
Entry(a, k) == EntryIn(a, Len(indices), k)
Home(a, k) == Entry(a, k).block

\* The counters and what is left of a call of the producer.
Numbers ==
    /\ tailIndex \in Nat /\ headIndex \in 0..tailIndex
    /\ count \in Nat /\ tailIndex + count <= MaxItems
    /\ needed \in Nat /\ base \in Int
    /\ step \in {"idle", "reuse", "alloc", "fill", "try", "publish"}
    /\ step = "idle" <=> count = 0
    /\ step # "idle" =>
          /\ Found \in Nat /\ base = (Last + Found) * BLOCK_SIZE
          /\ needed + Found = BlockOf(tailIndex + count - 1) - Last
    /\ step \in {"fill", "try", "publish"} => needed = 0
    /\ step \in {"alloc", "fill"} => needed + Added > 0

\* The circle: empty only before the first call, and with the blocks of the call under
\* way after those of the calls before.
Counted ==
    /\ slotsUsed \in Nat /\ First \in Nat
    /\ slotsUsed = 0 => Top = -1
    /\ Added > 0 => First <= Last + 1
    /\ step # "idle" =>
          /\ originalUsed \in 0..slotsUsed /\ (Last >= 0 => originalUsed > 0)
          /\ Added = 0 => originalFront = prFront /\ originalUsed = slotsUsed

\* The claims: within what was published and apart.
Places == {"none", "index", "front", "locate", "read", "mark"}
Claimed ==
    /\ where \in [Consumers -> Places]
    /\ index \in [Consumers -> Nat] /\ end \in [Consumers -> Nat]
    /\ \A c \in Consumers :
          IF where[c] = "none" THEN index[c] = 0 /\ end[c] = 0
          ELSE index[c] < end[c] /\ end[c] <= headIndex
    /\ \A c, d \in Consumers : c # d =>
          \/ where[c] = "none" \/ where[d] = "none"
          \/ end[c] <= index[d] \/ end[d] <= index[c]

\* The indices.  A slot that was ever written has the entry of a block number whose slot
\* it is; the current ring has those of the circle.
RingOf(n) == [size : {n}, front : -1..(n - 1),
              entries : [0..(n - 1) -> [base : Int, block : Blocks \union {Null}]]]
AnyRing == UNION {RingOf(n) : n \in Nat \ {0}}
IsEntry(j, p) == p \in 0..(indices[j].size - 1) /\ indices[j].entries[p].block # Null
Rings(a) ==
    /\ \A j \in DOMAIN indices : \A p \in 0..(indices[j].size - 1) :
          IsEntry(j, p) => (BlockOf(indices[j].entries[p].base) + a[j]) % indices[j].size = p
    /\ slotsUsed <= current.size
    /\ prFront = (Top + 1 + a[Len(indices)]) % current.size
    /\ \A k \in Circle : Entry(a, k).base = k * BLOCK_SIZE
    /\ Last >= 0 => IsEntry(Len(indices), current.front)

\* What a consumer has loaded leads it to the slots of its blocks, and its ring agrees
\* there with the current one.
ReadsOf(a, c) ==
    where[c] \notin {"none", "index"} =>
        LET j == local[c] IN
        /\ j \in DOMAIN indices
        /\ where[c] = "front" => IsEntry(j, indices[j].front)
        /\ where[c] = "locate" => IsEntry(j, front[c])
        /\ where[c] \in {"read", "mark"} => slot[c] = (At(c) + a[j]) % indices[j].size
        /\ where[c] = "mark" => block[c] = Home(a, At(c))
        /\ \A k \in At(c)..BlockOf(end[c] - 1) : EntryIn(a, j, k) = Entry(a, k)
Reads(a) ==
    /\ DOMAIN local = Consumers /\ DOMAIN front = Consumers /\ DOMAIN slot = Consumers
    /\ DOMAIN block = Consumers
    /\ \A c \in Consumers : ReadsOf(a, c)

(***************************************************************************)
(* The blocks.                                                             *)
(***************************************************************************)
\* The circle, from block to block, and the ends of the call's part of it.
Linked(a) ==
    /\ \A k \in Circle : Home(a, k) \in Blocks
    /\ \A k, l \in Circle : Home(a, k) = Home(a, l) => k = l
    /\ owned = {Home(a, k) : k \in Circle}
    /\ next \in [Blocks -> Blocks \union {Null}]
    /\ \A k \in First..(Top - 1) : next[Home(a, k)] = Home(a, k + 1)
    /\ slotsUsed > 0 => next[Home(a, Top)] = Home(a, First)
    /\ tailBlock = IF slotsUsed = 0 THEN Null ELSE Home(a, Top)
    /\ startBlock \in Blocks \union {Null}
    /\ firstAllocated = IF Added = 0 THEN Null ELSE Home(a, Last + 1)
    /\ step # "idle" /\ Last \in Circle => startBlock = Home(a, Last)
    /\ step # "idle" /\ Added = 0 => startBlock = tailBlock

\* The flags set in a block are those of the items read; a block of the call under way
\* is marked full when all of them are found.
ReadFrom(k) == {i % BLOCK_SIZE : i \in {i \in Items(k) : ~Unread(i)}}
Flagged(a) ==
    /\ \A k \in 0..(First - 1) : \A i \in Items(k) : ~Unread(i)
    /\ flags \in [Blocks -> SUBSET Offsets]
    /\ \A k \in Circle : flags[Home(a, k)] =
          IF k <= Last \/ step \in {"fill", "try", "publish"} THEN ReadFrom(k) ELSE Offsets

\* A block holds the items that are present, each in its slot, and nothing else.
Filled(a) ==
    /\ content \in [Blocks -> [Offsets -> Int]]
    /\ \A k \in Circle : \A i \in Items(k) :
          content[Home(a, k)][i % BLOCK_SIZE] = IF Present(i) THEN i ELSE Nothing
    /\ \A b \in Blocks \ owned : \A o \in Offsets : content[b][o] = Nothing

(***************************************************************************)
(* Numbers.                                                                *)
(***************************************************************************)
\* Multiples of c are at least c apart.
LEMMA Gap ==
    ASSUME NEW c \in Nat \ {0}, NEW x \in Int, NEW y \in Int, x < y
    PROVE  c * x + c <= c * y
<1>1. x + 1 <= y
  OBVIOUS
<1>2. c * (x + 1) <= c * y
  BY <1>1
<1> QED
  BY <1>2

\* What quotient and remainder are,
LEMMA Division ==
    ASSUME NEW c \in Nat \ {0}, NEW x \in Int
    PROVE  /\ x \div c \in Int /\ x % c \in 0..(c - 1)
           /\ x = c * (x \div c) + (x % c)
  OBVIOUS

\* and that nothing else is.
LEMMA DivisionUnique ==
    ASSUME NEW c \in Nat \ {0}, NEW x \in Int, NEW q \in Int, NEW r \in 0..(c - 1),
           x = c * q + r
    PROVE  q = x \div c /\ r = x % c
<1> DEFINE p == x \div c  s == x % c
<1>1. p \in Int /\ s \in 0..(c - 1) /\ x = c * p + s
  BY Division
<1> HIDE DEF p, s
<1>2. ~(p < q)
  BY <1>1, Gap
<1>3. ~(q < p)
  BY <1>1, Gap
<1>4. p = q
  BY <1>1, <1>2, <1>3
<1>5. r = s
  BY <1>1, <1>4
<1> QED
  BY <1>4, <1>5 DEF p, s

\* The remainder of a sum.
LEMMA ModSum ==
    ASSUME NEW c \in Nat \ {0}, NEW x \in Int, NEW y \in Int
    PROVE  ((x % c) + y) % c = (x + y) % c
<1> DEFINE q == x \div c  r == x % c  p == (r + y) \div c  s == (r + y) % c
<1>1. q \in Int /\ r \in 0..(c - 1) /\ x = c * q + r
  BY Division
<1> HIDE DEF q, r
<1>2. p \in Int /\ s \in 0..(c - 1) /\ r + y = c * p + s
  BY <1>1, Division
<1> HIDE DEF p, s
<1>3. x + y = c * (q + p) + s
  <2>1. c * (q + p) = c * q + c * p
    BY <1>1, <1>2
  <2> QED
    BY <2>1, <1>1, <1>2
<1>4. q + p \in Int /\ x + y \in Int
  BY <1>1, <1>2
<1> DEFINE o == q + p  z == x + y
<1>5. o \in Int /\ z \in Int /\ z = c * o + s
  BY <1>3, <1>4
<1> HIDE DEF o, z
<1>6. s = z % c
  BY <1>2, <1>5, DivisionUnique
<1> QED
  BY <1>6 DEF r, s, z

\* Numbers that are near each other have different remainders.
LEMMA ModNear ==
    ASSUME NEW c \in Nat \ {0}, NEW x \in Int, NEW y \in Int, x % c = y % c,
           x - y < c, y - x < c
    PROVE  x = y
<1> DEFINE q == x \div c  r == x % c  p == y \div c
<1>1. q \in Int /\ r \in 0..(c - 1) /\ x = c * q + r
  BY Division
<1>2. p \in Int /\ y = c * p + r
  BY Division
<1> HIDE DEF q, r, p
<1>3. ~(p < q) /\ ~(q < p)
  BY <1>1, <1>2, Gap
<1>4. p = q
  BY <1>1, <1>2, <1>3
<1> QED
  BY <1>1, <1>2, <1>4

\* The two forms in which the size of a block is needed.
LEMMA BlockSize == BLOCK_SIZE \in Nat \ {0, 1} /\ BLOCK_SIZE \in Nat \ {0}
  BY BlockAssumption

\* An item is at an offset of its block,
LEMMA BlockTyped ==
    ASSUME NEW i \in Int
    PROVE  /\ BlockOf(i) \in Int /\ i % BLOCK_SIZE \in Offsets
           /\ i = BlockOf(i) * BLOCK_SIZE + (i % BLOCK_SIZE)
<1>1. BlockOf(i) \in Int /\ i % BLOCK_SIZE \in Offsets
      /\ i = BLOCK_SIZE * BlockOf(i) + (i % BLOCK_SIZE)
  BY BlockSize, Division DEF BlockOf, Offsets
<1> QED
  BY <1>1, BlockSize

\* and in no other block.
LEMMA BlockIs ==
    ASSUME NEW k \in Int, NEW i \in Int
    PROVE  i \in Items(k) <=> BlockOf(i) = k
<1>1. k * BLOCK_SIZE \in Int /\ k * BLOCK_SIZE = BLOCK_SIZE * k
  BY BlockSize
<1>2. ASSUME i \in Items(k) PROVE BlockOf(i) = k
  <2>1. i - k * BLOCK_SIZE \in 0..(BLOCK_SIZE - 1) /\ i = BLOCK_SIZE * k + (i - k * BLOCK_SIZE)
    BY <1>1, <1>2, BlockSize DEF Items
  <2> QED
    BY <2>1, BlockSize, DivisionUnique DEF BlockOf
<1>3. ASSUME BlockOf(i) = k PROVE i \in Items(k)
  <2>1. i % BLOCK_SIZE \in 0..(BLOCK_SIZE - 1) /\ i = k * BLOCK_SIZE + (i % BLOCK_SIZE)
    BY <1>3, BlockTyped DEF Offsets
  <2> QED
    BY <1>1, <2>1, BlockSize DEF Items
<1> QED
  BY <1>2, <1>3

\* Later items are in the same block or a later one.
LEMMA BlockMono ==
    ASSUME NEW i \in Int, NEW j \in Int, i <= j
    PROVE  BlockOf(i) <= BlockOf(j)
<1>1. BlockOf(i) \in Int /\ i \in Items(BlockOf(i)) /\ BlockOf(j) \in Int /\ j \in Items(BlockOf(j))
  BY BlockTyped, BlockIs
<1>2. CASE BlockOf(j) < BlockOf(i)
  <2>1. BLOCK_SIZE * BlockOf(j) + BLOCK_SIZE <= BLOCK_SIZE * BlockOf(i)
    BY <1>1, <1>2, Gap, BlockSize
  <2> QED
    BY <1>1, <2>1, BlockSize DEF Items
<1> QED
  BY <1>1, <1>2

\* The first item of a block.
LEMMA BlockFirst ==
    ASSUME NEW k \in Int
    PROVE  /\ k * BLOCK_SIZE \in Int /\ BlockOf(k * BLOCK_SIZE) = k
           /\ (k + 1) * BLOCK_SIZE = k * BLOCK_SIZE + BLOCK_SIZE
           /\ (k \in Nat => k * BLOCK_SIZE \in Nat)
<1>1. k * BLOCK_SIZE \in Items(k)
  BY BlockSize DEF Items
<1> QED
  BY <1>1, BlockIs, BlockSize

\* The blocks of items, and of the item before the first.
LEMMA BlockNat ==
    /\ \A i \in Nat : BlockOf(i) \in Nat
    /\ BlockOf(-1) = -1
    /\ \A i \in Nat : BlockOf(i - 1) \in Int /\ -1 <= BlockOf(i - 1)
<1>1. 0 \in Items(0) /\ -1 \in Items(-1)
  BY BlockSize DEF Items
<1>2. BlockOf(0) = 0 /\ BlockOf(-1) = -1
  BY <1>1, BlockIs
<1> QED
  BY <1>2, BlockMono, BlockTyped

\* A set of numbers has a least one.
LEMMA LeastNat ==
    ASSUME NEW S \in SUBSET Nat, S # {}
    PROVE  \E n \in S : \A m \in S : n <= m
<1> DEFINE R == {ss \in Nat \X Nat : ss[1] < ss[2]}
<1>1. IsWellFoundedOn(R, Nat)
  BY NatLessThanWellFounded DEF OpToRel
<1> HIDE DEF R
<1>2. PICK n \in S : \A m \in S : ~(<<m, n>> \in R)
  BY <1>1, WFMin
<1>3. \A m \in S : m \in Nat /\ n \in Nat /\ ~(m < n)
  BY <1>2 DEF R
<1>4. \A m \in S : n <= m
  BY <1>3
<1> QED
  BY <1>4

\* f is a path of n blocks.
IsPath(first, following, n, f) ==
    /\ DOMAIN f = 1..n /\ f = [k \in DOMAIN f |-> f[k]]
    /\ n > 0 => f[1] = first
    /\ \A k \in 1..(n - 1) : f[k + 1] = following[f[k]]

\* The path that SubQueue defines by recursion is the one that goes from block to
\* block.
LEMMA PathIs ==
    ASSUME NEW n \in Nat, NEW first, NEW following, NEW f, IsPath(first, following, n, f)
    PROVE  Path(first, following, n) = f
<1> USE DEF IsPath
<1> DEFINE Rec(p) == [k \in 1..n |-> IF k = 1 THEN first ELSE following[p[k - 1]]]
<1>0. f = [k \in 1..n |-> f[k]]
  OBVIOUS
<1>1. f = Rec(f)
  <2>1. ASSUME NEW k \in 1..n PROVE f[k] = IF k = 1 THEN first ELSE following[f[k - 1]]
    <3>1. CASE k = 1
      BY <3>1
    <3>2. CASE k # 1
      <4>1. k - 1 \in 1..(n - 1) /\ (k - 1) + 1 = k
        BY <3>2
      <4>2. f[(k - 1) + 1] = following[f[k - 1]]
        BY <4>1
      <4> QED
        BY <3>2, <4>1, <4>2
    <3> QED
      BY <3>1, <3>2
  <2> QED
    BY <1>0, <2>1
<1> DEFINE p == Path(first, following, n)
<1>2. p = Rec(p)
  BY <1>1 DEF Path
<1> HIDE DEF p
<1>3. ASSUME NEW k \in 1..n, p[k] # f[k] PROVE FALSE
  <2> DEFINE S == {j \in 1..n : p[j] # f[j]}
  <2>0. S \in SUBSET Nat /\ S # {}
    BY <1>3
  <2> HIDE DEF S
  <2>1. PICK j \in S : \A m \in S : j <= m
    BY <2>0, LeastNat
  <2> USE DEF S
  <2>2. p[j] = IF j = 1 THEN first ELSE following[p[j - 1]]
    BY <1>2
  <2>3. f[j] = IF j = 1 THEN first ELSE following[f[j - 1]]
    BY <1>1
  <2>4. j # 1 => j - 1 \in 1..n /\ j - 1 \notin S
    BY <2>1
  <2> QED
    BY <2>1, <2>2, <2>3, <2>4
<1>4. DOMAIN p = 1..n /\ DOMAIN f = 1..n
  BY <1>1, <1>2
<1>5. p = [k \in 1..n |-> p[k]] /\ f = [k \in 1..n |-> f[k]]
  BY <1>1, <1>2
<1> QED
  BY <1>3, <1>5 DEF p

\* The items of a block, and where they are in it.
LEMMA ItemsTyped ==
    ASSUME NEW k \in Int
    PROVE  /\ Items(k) \subseteq Int /\ (k \in Nat => Items(k) \subseteq Nat)
           /\ \A i \in Items(k) : BlockOf(i) = k /\ i % BLOCK_SIZE \in Offsets
                                /\ i = k * BLOCK_SIZE + (i % BLOCK_SIZE)
<1>1. Items(k) \subseteq Int /\ (k \in Nat => Items(k) \subseteq Nat)
  BY BlockFirst, BlockSize DEF Items
<1>2. ASSUME NEW i \in Items(k)
      PROVE  BlockOf(i) = k /\ i % BLOCK_SIZE \in Offsets /\ i = k * BLOCK_SIZE + (i % BLOCK_SIZE)
  <2>1. i \in Int /\ BlockOf(i) = k
    BY <1>1, BlockIs
  <2> QED
    BY <2>1, BlockTyped
<1> QED
  BY <1>1, <1>2

(***************************************************************************)
(* What the invariant says.                                                *)
(***************************************************************************)
Typed == indices \in Seq(AnyRing) /\ indices # <<>>

IInv(a) ==
    /\ Numbers /\ Counted /\ Claimed /\ Typed /\ a \in [DOMAIN indices -> Int]
    /\ Rings(a) /\ Reads(a) /\ Linked(a) /\ Flagged(a) /\ Filled(a)

\* The rings are what their type says.
LEMMA RingFacts ==
    ASSUME Typed
    PROVE  /\ Len(indices) \in Nat \ {0} /\ DOMAIN indices = 1..Len(indices)
           /\ \A j \in DOMAIN indices :
                 /\ indices[j] \in AnyRing
                 /\ indices[j].size \in Nat \ {0}
                 /\ indices[j].front \in -1..(indices[j].size - 1)
                 /\ indices[j].entries \in
                       [0..(indices[j].size - 1) -> [base : Int, block : Blocks \union {Null}]]
           /\ current = indices[Len(indices)] /\ Len(indices) \in DOMAIN indices
<1>1. Len(indices) \in Nat \ {0} /\ DOMAIN indices = 1..Len(indices)
  BY DEF Typed
<1>2. ASSUME NEW j \in DOMAIN indices
      PROVE  /\ indices[j] \in AnyRing
             /\ indices[j].size \in Nat \ {0}
             /\ indices[j].front \in -1..(indices[j].size - 1)
             /\ indices[j].entries \in
                   [0..(indices[j].size - 1) -> [base : Int, block : Blocks \union {Null}]]
  <2>1. indices[j] \in AnyRing
    BY <1>1, <1>2 DEF Typed
  <2>2. PICK n \in Nat \ {0} : indices[j] \in RingOf(n)
    BY <2>1 DEF AnyRing
  <2> QED
    BY <2>1, <2>2 DEF RingOf
<1> QED
  BY <1>1, <1>2 DEF current

\* A block number has a slot and an entry in every ring; two that are near have
\* different slots.
LEMMA EntryFacts ==
    ASSUME Typed, NEW a \in [DOMAIN indices -> Int], NEW j \in DOMAIN indices, NEW k \in Int
    PROVE  /\ (k + a[j]) % indices[j].size \in 0..(indices[j].size - 1)
           /\ EntryIn(a, j, k) \in [base : Int, block : Blocks \union {Null}]
           /\ \A l \in Int : /\ (l + a[j]) % indices[j].size = (k + a[j]) % indices[j].size
                             /\ k - l < indices[j].size /\ l - k < indices[j].size
                             => k = l
<1> DEFINE n == indices[j].size
<1>1. n \in Nat \ {0} /\ a[j] \in Int /\ k + a[j] \in Int
      /\ indices[j].entries \in [0..(n - 1) -> [base : Int, block : Blocks \union {Null}]]
  BY RingFacts
<1> HIDE DEF n
<1>2. (k + a[j]) % n \in 0..(n - 1)
  BY <1>1, Division
<1>3. ASSUME NEW l \in Int, (l + a[j]) % n = (k + a[j]) % n, k - l < n, l - k < n PROVE k = l
  <2>1. PICK x, y, d : d = a[j] /\ x = k + d /\ y = l + d
    OBVIOUS
  <2>2. x \in Int /\ y \in Int /\ x - y < n /\ y - x < n
    <3>1. d \in Int /\ n \in Int /\ k - l < n /\ l - k < n
      BY <1>1, <1>3, <2>1
    <3> HIDE DEF n
    <3>2. x - y = k - l /\ y - x = l - k /\ x \in Int /\ y \in Int
      BY <2>1, <3>1
    <3> QED
      BY <3>1, <3>2
  <2>3. x % n = y % n
    BY <1>3, <2>1
  <2>4. x = y
    BY <1>1, <2>2, <2>3, ModNear
  <2> QED
    BY <1>1, <2>1, <2>4
<1>4. EntryIn(a, j, k) \in [base : Int, block : Blocks \union {Null}]
  BY <1>1, <1>2 DEF EntryIn, n
<1> QED
  BY <1>2, <1>3, <1>4 DEF n

\* The ends of the circle.
LEMMA NumberFacts ==
    ASSUME Numbers, Counted
    PROVE  /\ Last \in Int /\ -1 <= Last /\ Added \in Nat
           /\ Top = Last + Added /\ Top \in Int
           /\ First \in Nat /\ slotsUsed \in Nat /\ First = Top - slotsUsed + 1 /\ First <= Last + 1
           /\ Circle \subseteq Nat
           /\ (slotsUsed > 0 <=> Circle # {}) /\ (slotsUsed > 0 => Top \in Circle /\ First \in Circle)
           /\ (Last >= 0 => slotsUsed > 0)
           /\ step # "idle" => Added = Found /\ BlockOf(base) = Top /\ count \in Nat \ {0}
<1>1. Last \in Int /\ -1 <= Last
  BY BlockNat DEF Numbers, Last
<1>2. Added \in Nat
  BY DEF Numbers, Added
<1>3. step # "idle" => Added = Found /\ BlockOf(base) = Top /\ count \in Nat \ {0}
  <2>1. BlockOf(base) \in Int
    BY BlockTyped DEF Numbers
  <2> QED
    BY <1>1, <2>1 DEF Numbers, Added, Found, Last, Top
<1>4. First \in Nat /\ slotsUsed \in Nat /\ First = Top - slotsUsed + 1 /\ Top = Last + Added
  BY DEF Counted, First, Top
<1>5. First <= Last + 1
  <2>1. CASE Added > 0
    BY <2>1 DEF Counted
  <2>2. CASE Added = 0
    BY <1>1, <1>4, <2>2
  <2> QED
    BY <1>2, <2>1, <2>2
<1>6. (slotsUsed > 0 <=> Circle # {}) /\ (slotsUsed > 0 => Top \in Circle /\ First \in Circle)
  <2>1. Top \in Int /\ First <= Top + 1 /\ (slotsUsed > 0 <=> First <= Top)
    BY <1>1, <1>2, <1>4
  <2> QED
    BY <1>4, <2>1 DEF Circle
<1>7. Last >= 0 => slotsUsed > 0
  BY <1>1, <1>2, <1>4 DEF Counted
<1>8. Circle \subseteq Nat
  BY <1>1, <1>2, <1>4 DEF Circle
<1> QED
  BY <1>1, <1>2, <1>3, <1>4, <1>5, <1>6, <1>7, <1>8

\* The blocks of a claim come one after the other, up to the last one published.
LEMMA PendingFacts ==
    ASSUME Numbers, Claimed, NEW c \in Consumers, where[c] # "none"
    PROVE  /\ index[c] \in Nat /\ end[c] \in Nat /\ index[c] < end[c] /\ end[c] <= headIndex
           /\ At(c) \in Nat /\ At(c) <= BlockOf(end[c] - 1) /\ BlockOf(end[c] - 1) <= Last
           /\ At(c) <= Last /\ BlockOf(end[c] - 1) \in Int /\ Last \in Int
           /\ index[c] \in Pending(c) /\ end[c] - 1 \in Pending(c)
<1>1. index[c] \in Nat /\ end[c] \in Nat /\ index[c] < end[c] /\ end[c] <= headIndex
  BY DEF Claimed
<1>2. tailIndex \in Nat /\ headIndex \in Nat /\ headIndex <= tailIndex
  BY DEF Numbers
<1>3. At(c) \in Nat /\ BlockOf(end[c] - 1) \in Int /\ Last \in Int
  BY <1>1, <1>2, BlockNat DEF At, Last
<1>4. At(c) <= BlockOf(end[c] - 1) /\ BlockOf(end[c] - 1) <= Last
  BY <1>1, <1>2, BlockMono DEF At, Last
<1>5. index[c] \in Pending(c) /\ end[c] - 1 \in Pending(c)
  BY <1>1 DEF Pending
<1> QED
  BY <1>1, <1>3, <1>4, <1>5

\* An item that is not read yet lies in the circle or beyond it.
LEMMA UnreadAhead ==
    ASSUME Numbers, Counted, NEW a, Flagged(a), NEW i \in Nat, Unread(i)
    PROVE  BlockOf(i) \in Nat /\ First <= BlockOf(i)
<1>1. BlockOf(i) \in Nat /\ i \in Items(BlockOf(i)) /\ First \in Nat
  BY BlockNat, BlockIs, NumberFacts
<1> QED
  BY <1>1 DEF Flagged

\* The blocks of a claim are in the circle, and published.
LEMMA ClaimInCircle ==
    ASSUME Numbers, Counted, Claimed, NEW a, Flagged(a), NEW c \in Consumers, where[c] # "none"
    PROVE  At(c)..BlockOf(end[c] - 1) \subseteq First..Last /\ First..Last \subseteq Circle
<1>1. index[c] \in Nat /\ At(c) \in Nat /\ BlockOf(end[c] - 1) \in Int /\ BlockOf(end[c] - 1) <= Last
      /\ index[c] \in Pending(c) /\ Last \in Int
  BY PendingFacts
<1>2. First <= At(c)
  BY <1>1, UnreadAhead DEF Unread, At
<1>3. First \in Nat /\ Top = Last + Added /\ Added \in Nat
  BY NumberFacts
<1> QED
  BY <1>1, <1>2, <1>3 DEF Circle

\* What is in its place has not been read.
LEMMA PresentUnread ==
    ASSUME Numbers, NEW i, Present(i)
    PROVE  Unread(i)
  BY DEF Numbers, Present, Written, Unread, Untaken

(***************************************************************************)
(* What stays the same.                                                    *)
(***************************************************************************)
\* Without a claim or an advance of a consumer, the same items are unread;
LEMMA SameClaims ==
    ASSUME UNCHANGED <<headIndex, index, end>>
    PROVE  /\ \A c : Pending(c)' = Pending(c) /\ At(c)' = At(c)
           /\ \A i : Unread(i)' <=> Unread(i)
<1>1. \A c : Pending(c)' = Pending(c) /\ At(c)' = At(c)
  BY DEF Pending, At
<1> QED
  BY <1>1 DEF Unread

\* with the same circle the flags are still right,
LEMMA FlagsStill ==
    ASSUME NEW a, NEW b, Numbers, Counted, Flagged(a), flags' = flags,
           First' = First, Circle' = Circle,
           \A k \in Circle : Home(b, k)' = Home(a, k),
           \A i \in Int : Unread(i)' <=> Unread(i),
           \A k \in Circle : k <= Last' \/ step' \in {"fill", "try", "publish"}
                             <=> k <= Last \/ step \in {"fill", "try", "publish"}
    PROVE  Flagged(b)'
<1>1. \A k \in Int : Items(k)' = Items(k) /\ Items(k) \subseteq Int
  BY ItemsTyped DEF Items
<1>2. First \in Nat /\ Circle \subseteq Nat
  BY NumberFacts
<1>3. \A k \in Int : ReadFrom(k)' = ReadFrom(k)
  BY <1>1 DEF ReadFrom
<1>4. \A k \in 0..(First' - 1) : \A i \in Items(k)' : ~Unread(i)'
  <2>1. ASSUME NEW k \in 0..(First - 1) PROVE \A i \in Items(k)' : ~Unread(i)'
    <3>1. k \in Int
      BY <1>2
    <3>2. \A i \in Items(k) : i \in Int /\ ~Unread(i)
      BY <1>1, <3>1 DEF Flagged
    <3> QED
      BY <1>1, <3>1, <3>2
  <2> QED
    BY <2>1
<1>5. Offsets' = Offsets
  BY DEF Offsets
<1>6. \A k \in Circle : flags[Home(a, k)] =
          IF k <= Last \/ step \in {"fill", "try", "publish"} THEN ReadFrom(k) ELSE Offsets
  BY DEF Flagged
<1>7. \A k \in Circle : flags'[Home(b, k)'] =
          IF k <= Last' \/ step' \in {"fill", "try", "publish"} THEN ReadFrom(k)' ELSE Offsets
  BY <1>2, <1>3, <1>6
<1> QED
  BY <1>4, <1>7 DEF Flagged

\* and the contents;
LEMMA ContentStill ==
    ASSUME NEW a, NEW b, Numbers, Counted, Filled(a), UNCHANGED <<content, owned>>,
           Circle' = Circle, \A k \in Circle : Home(b, k)' = Home(a, k),
           \A i \in Int : Present(i)' <=> Present(i)
    PROVE  Filled(b)'
<1>1. \A k \in Circle : Items(k) \subseteq Int
  BY NumberFacts, ItemsTyped
<1>2. \A k \in Circle : \A i \in Items(k) :
          content'[Home(b, k)'][i % BLOCK_SIZE] = IF Present(i)' THEN i ELSE Nothing
  <2>1. ASSUME NEW k \in Circle, NEW i \in Items(k)
        PROVE  content'[Home(b, k)'][i % BLOCK_SIZE] = IF Present(i)' THEN i ELSE Nothing
    <3>1. content[Home(a, k)][i % BLOCK_SIZE] = IF Present(i) THEN i ELSE Nothing
      BY DEF Filled
    <3>2. i \in Int
      BY <1>1
    <3> QED
      BY <3>1, <3>2
  <2> QED
    BY <2>1
<1>3. \A k : Items(k)' = Items(k)
  BY DEF Items
<1> QED
  BY <1>2, <1>3 DEF Filled

\* a consumer that does not move, in rings that do not change, is where it was.
LEMMA ReadsOfStill ==
    ASSUME NEW a, NEW c, ReadsOf(a, c), indices' = indices,
           UNCHANGED <<local[c], front[c], slot[c], block[c], where[c], index[c], end[c]>>
    PROVE  ReadsOf(a, c)'
<1>1. At(c)' = At(c) /\ \A j, k : EntryIn(a, j, k)' = EntryIn(a, j, k) /\ Entry(a, k)' = Entry(a, k)
  BY DEF At, EntryIn, Entry
<1>2. Home(a, At(c))' = Home(a, At(c))
  BY <1>1 DEF Home
<1> QED
  BY <1>1, <1>2 DEF ReadsOf, IsEntry

(***************************************************************************)
(* The consumers.                                                          *)
(***************************************************************************)
\* What a consumer leaves alone.
LEMMA ConsumerKeeps ==
    ASSUME NEW a, IInv(a), headIndex' \in 0..tailIndex,
           UNCHANGED <<tailIndex, step, callVars, tailBlock, next, originalFront, originalUsed,
                       ringVars, owned>>
    PROVE  /\ Numbers' /\ Counted' /\ Typed' /\ a \in [DOMAIN indices' -> Int]
           /\ Rings(a)' /\ Linked(a)'
           /\ Last' = Last /\ First' = First /\ Circle' = Circle /\ Written' = Written
           /\ \A j, k : EntryIn(a, j, k)' = EntryIn(a, j, k)
           /\ \A k : Entry(a, k)' = Entry(a, k) /\ Home(a, k)' = Home(a, k)
<1> USE DEF IInv
<1>1. UNCHANGED <<tailIndex, step, count, needed, base, startBlock, firstAllocated, tailBlock,
                  next, originalFront, originalUsed, slotsUsed, prFront, indices, owned>>
  BY DEF callVars, ringVars
<1>2. Last' = Last /\ Found' = Found /\ Written' = Written
  BY <1>1 DEF Last, Found, Written
<1>3. Added' = Added /\ Top' = Top /\ First' = First /\ Circle' = Circle
  BY <1>1, <1>2 DEF Added, Top, First, Circle
<1>4. /\ \A j, k : EntryIn(a, j, k)' = EntryIn(a, j, k)
      /\ \A k : Entry(a, k)' = Entry(a, k) /\ Home(a, k)' = Home(a, k)
      /\ current' = current
  BY <1>1 DEF EntryIn, Entry, Home, current
<1>5. Numbers'
  BY <1>1, <1>2, <1>3 DEF Numbers
<1>6. Counted'
  BY <1>1, <1>2, <1>3 DEF Counted
<1>7. Typed'
  BY <1>1 DEF Typed
<1>8. Rings(a)'
  BY <1>1, <1>2, <1>3, <1>4 DEF Rings, IsEntry
<1>9. Linked(a)'
  BY <1>1, <1>2, <1>3, <1>4 DEF Linked
<1> QED
  BY <1>1, <1>2, <1>3, <1>4, <1>5, <1>6, <1>7, <1>8, <1>9

\* A consumer that only loads and computes.
LEMMA MoveStep ==
    ASSUME NEW a, IInv(a), NEW c \in Consumers, NEW from \in {"index", "front", "locate"},
           NEW to \in {"front", "locate", "read"}, Step(c, from, to),
           UNCHANGED <<content, index, end, flags, block>>, ConsumerOnly,
           DOMAIN local' = Consumers, DOMAIN front' = Consumers, DOMAIN slot' = Consumers,
           \A d \in Consumers : d # c => UNCHANGED <<local[d], front[d], slot[d]>>,
           ReadsOf(a, c)'
    PROVE  IInv(a)'
<1> USE DEF IInv
<1>1. /\ where[c] = from /\ where' = [where EXCEPT ![c] = to]
      /\ UNCHANGED <<tailIndex, headIndex, step, callVars, tailBlock, next, originalFront,
                     originalUsed, ringVars, indices, owned>>
  BY DEF Step, ConsumerOnly, claimVars, ringVars
<1>2. /\ where' \in [Consumers -> Places]
      /\ \A d \in Consumers : where'[d] = IF d = c THEN to ELSE where[d]
  BY <1>1 DEF Claimed, Places
<1>3. Claimed'
  BY <1>1, <1>2 DEF Claimed
<1>4. /\ \A d : Pending(d)' = Pending(d) /\ At(d)' = At(d)
      /\ \A i : Unread(i)' <=> Unread(i)
  BY <1>1, SameClaims
<1>5. \A d \in Consumers : Untaken(d)' = Untaken(d)
  BY <1>1, <1>2, <1>4 DEF Untaken
<1>6. /\ Numbers' /\ Counted' /\ Typed' /\ a \in [DOMAIN indices' -> Int]
      /\ Rings(a)' /\ Linked(a)'
      /\ Last' = Last /\ First' = First /\ Circle' = Circle /\ Written' = Written
      /\ \A k : Home(a, k)' = Home(a, k)
  <2>1. headIndex' \in 0..tailIndex
    BY <1>1 DEF Numbers
  <2> QED
    BY <1>1, <2>1, ConsumerKeeps
<1>7. Reads(a)'
  <2>1. ASSUME NEW d \in Consumers, d # c PROVE ReadsOf(a, d)'
    <3>1. UNCHANGED <<local[d], front[d], slot[d], block[d], where[d], index[d], end[d]>>
      BY <1>1, <1>2, <2>1
    <3>2. ReadsOf(a, d)
      BY DEF Reads
    <3> QED
      BY <1>1, <3>1, <3>2, ReadsOfStill
  <2>2. DOMAIN block' = Consumers
    BY DEF Reads
  <2> QED
    BY <2>1, <2>2 DEF Reads
<1>8. Flagged(a)'
  BY <1>1, <1>4, <1>6, FlagsStill
<1>9. Filled(a)'
  <2>1. \A i : Present(i)' <=> Present(i)
    BY <1>1, <1>5, <1>6 DEF Present
  <2> QED
    BY <1>1, <1>6, <2>1, ContentStill
<1> QED
  BY <1>3, <1>6, <1>7, <1>8, <1>9

\* A consumer loads the current index: it agrees with itself.
LEMMA LoadIndexStep ==
    ASSUME NEW a, IInv(a), NEW c \in Consumers, LoadIndex(c)
    PROVE  IInv(a)'
<1> USE DEF IInv
<1>1. /\ where[c] = "index" /\ where' = [where EXCEPT ![c] = "front"]
      /\ local' = [local EXCEPT ![c] = Len(indices)]
      /\ UNCHANGED <<content, index, end, flags, front, slot, block>> /\ ConsumerOnly
      /\ indices' = indices
  BY DEF LoadIndex, Step, ConsumerOnly, ringVars
<1>2. /\ DOMAIN local = Consumers /\ DOMAIN front = Consumers /\ DOMAIN slot = Consumers
      /\ where'[c] = "front"
  BY <1>1 DEF Reads, Claimed
<1>3. local'[c] = Len(indices) /\ \A d \in Consumers : d # c => local'[d] = local[d]
  BY <1>1, <1>2
<1>4. ReadsOf(a, c)'
  <2>1. Len(indices) \in DOMAIN indices /\ current = indices[Len(indices)]
    BY RingFacts
  <2>2. Last >= 0
    BY <1>1, PendingFacts
  <2>3. IsEntry(Len(indices), indices[Len(indices)].front)
    BY <2>1, <2>2 DEF Rings
  <2>4. IsEntry(local[c], indices[local[c]].front)'
    BY <1>1, <1>3, <2>3 DEF IsEntry
  <2>5. \A k : EntryIn(a, local[c], k)' = Entry(a, k)'
    BY <1>1, <1>3 DEF Entry
  <2> QED
    BY <1>1, <1>2, <1>3, <2>1, <2>4, <2>5 DEF ReadsOf
<1> QED
  BY <1>1, <1>2, <1>3, <1>4, MoveStep DEF LoadIndex

\* It loads a front that has an entry,
LEMMA LoadFrontStep ==
    ASSUME NEW a, IInv(a), NEW c \in Consumers, LoadFront(c)
    PROVE  IInv(a)'
<1> USE DEF IInv
<1>1. /\ where[c] = "front" /\ where' = [where EXCEPT ![c] = "locate"]
      /\ front' = [front EXCEPT ![c] = indices[local[c]].front]
      /\ UNCHANGED <<content, index, end, flags, local, slot, block>> /\ ConsumerOnly
      /\ indices' = indices
  BY DEF LoadFront, Step, ConsumerOnly, ringVars
<1>2. /\ DOMAIN local = Consumers /\ DOMAIN front = Consumers /\ DOMAIN slot = Consumers
      /\ where'[c] = "locate"
  BY <1>1 DEF Reads, Claimed
<1>3. front'[c] = indices[local[c]].front /\ \A d \in Consumers : d # c => front'[d] = front[d]
  BY <1>1, <1>2
<1>4. ReadsOf(a, c)'
  <2>1. /\ local[c] \in DOMAIN indices /\ IsEntry(local[c], indices[local[c]].front)
        /\ \A k \in At(c)..BlockOf(end[c] - 1) : EntryIn(a, local[c], k) = Entry(a, k)
    BY <1>1 DEF Reads, ReadsOf
  <2>2. At(c)' = At(c) /\ \A j, k : EntryIn(a, j, k)' = EntryIn(a, j, k) /\ Entry(a, k)' = Entry(a, k)
    BY <1>1 DEF At, EntryIn, Entry
  <2>3. IsEntry(local[c], front[c])'
    BY <1>1, <1>3, <2>1 DEF IsEntry
  <2> QED
    BY <1>1, <1>2, <2>1, <2>2, <2>3 DEF ReadsOf
<1> QED
  BY <1>1, <1>2, <1>3, <1>4, MoveStep DEF LoadFront

\* and counts from it to the slot of its block, round the ring or not.
LEMMA LocateStep ==
    ASSUME NEW a, IInv(a), NEW c \in Consumers, Locate(c)
    PROVE  IInv(a)'
<1> USE DEF IInv
<1>0. PICK j, n, p, q, r : j = local[c] /\ n = indices[j].size /\ p = front[c]
                          /\ q = BlockOf(indices[j].entries[p].base) /\ r = At(c)
  OBVIOUS
<1>1. /\ where[c] = "locate" /\ where' = [where EXCEPT ![c] = "read"]
      /\ slot' = [slot EXCEPT ![c] = (p + (r - q)) % n]
      /\ UNCHANGED <<content, index, end, flags, local, front, block>> /\ ConsumerOnly
      /\ indices' = indices
  BY <1>0 DEF Locate, Step, ConsumerOnly, ringVars, At
<1>2. /\ DOMAIN local = Consumers /\ DOMAIN front = Consumers /\ DOMAIN slot = Consumers
      /\ where'[c] = "read"
  BY <1>1 DEF Reads, Claimed
<1>3. slot'[c] = (p + (r - q)) % n /\ \A d \in Consumers : d # c => slot'[d] = slot[d]
  BY <1>1, <1>2
<1>4. /\ j \in DOMAIN indices /\ IsEntry(j, p)
      /\ \A k \in r..BlockOf(end[c] - 1) : EntryIn(a, j, k) = Entry(a, k)
  BY <1>0, <1>1 DEF Reads, ReadsOf
<1>5. n \in Nat \ {0} /\ a[j] \in Int /\ r \in Int /\ q \in Int /\ p \in 0..(n - 1)
  <2>1. n \in Nat \ {0} /\ a[j] \in Int /\ p \in 0..(n - 1) /\ indices[j].entries[p].base \in Int
    BY <1>0, <1>4, RingFacts DEF IsEntry
  <2>2. r \in Int
    BY <1>0, <1>1, PendingFacts
  <2> QED
    BY <1>0, <2>1, <2>2, BlockTyped
<1>6. (q + a[j]) % n = p
  BY <1>0, <1>4, <1>5 DEF Rings
<1>7. (p + (r - q)) % n = (r + a[j]) % n
  <2>1. PICK x, y : x = q + a[j] /\ y = r - q
    OBVIOUS
  <2>2. x \in Int /\ y \in Int /\ x + y = r + a[j]
    BY <1>5, <2>1
  <2>3. ((x % n) + y) % n = (x + y) % n
    BY <1>5, <2>2, ModSum
  <2> QED
    BY <1>6, <2>1, <2>2, <2>3
<1>8. ReadsOf(a, c)'
  <2>1. At(c)' = r /\ \A i, k : EntryIn(a, i, k)' = EntryIn(a, i, k) /\ Entry(a, k)' = Entry(a, k)
    BY <1>0, <1>1 DEF At, EntryIn, Entry
  <2>2. ReadsOf(a, c)
    BY DEF Reads
  <2>3. /\ where'[c] = "read" /\ local'[c] = j /\ indices' = indices /\ end' = end
        /\ front' = front
    BY <1>0, <1>1, <1>2
  <2>4. slot'[c] = (r + a[j]) % indices[j].size
    BY <1>0, <1>3, <1>7
  <2> QED
    BY <1>0, <1>1, <1>4, <2>1, <2>2, <2>3, <2>4 DEF ReadsOf
<1> QED
  BY <1>1, <1>2, <1>3, <1>8, MoveStep DEF Locate

\* A claimed item is claimed by one consumer.
LEMMA ClaimFacts ==
    ASSUME Numbers, Claimed, NEW c \in Consumers, NEW i \in Pending(c)
    PROVE  /\ i \in Nat /\ i < headIndex /\ where[c] # "none"
           /\ \A d \in Consumers : d # c => i \notin Pending(d) /\ i \notin Untaken(d)
<1>1. index[c] \in Nat /\ end[c] \in Nat /\ headIndex \in Nat
  BY DEF Numbers, Claimed
<1>2. i \in Nat /\ index[c] <= i /\ i < end[c]
  BY <1>1 DEF Pending
<1>3. where[c] # "none" /\ end[c] <= headIndex
  BY <1>1, <1>2 DEF Claimed
<1>4. ASSUME NEW d \in Consumers, d # c PROVE i \notin Pending(d)
  <2>1. index[d] \in Nat /\ end[d] \in Nat
    BY DEF Claimed
  <2>2. CASE where[d] = "none"
    <3>1. index[d] = 0 /\ end[d] = 0
      BY <2>2 DEF Claimed
    <3> QED
      BY <3>1 DEF Pending
  <2>3. CASE where[d] # "none"
    <3>1. end[c] <= index[d] \/ end[d] <= index[c]
      BY <1>3, <1>4, <2>3 DEF Claimed
    <3> QED
      BY <1>1, <1>2, <2>1, <3>1 DEF Pending
  <2> QED
    BY <2>2, <2>3
<1>5. \A d \in Consumers : d # c => i \notin Pending(d) /\ i \notin Untaken(d)
  BY <1>4 DEF Untaken
<1> QED
  BY <1>1, <1>2, <1>3, <1>5

\* The items claimed are the next unread ones: they stay unread, and present.
LEMMA DequeueStep ==
    ASSUME NEW a, IInv(a), NEW c \in Consumers, Dequeue(c)
    PROVE  IInv(a)'
<1> USE DEF IInv
<1>1. PICK n \in 1..MaxBulk :
        /\ headIndex + n <= tailIndex /\ headIndex' = headIndex + n
        /\ end' = [end EXCEPT ![c] = headIndex + n]
  BY DEF Dequeue, ClaimItems, Claims!Claim
<1>2. /\ where[c] = "none" /\ where' = [where EXCEPT ![c] = "index"]
      /\ index' = [index EXCEPT ![c] = headIndex]
      /\ UNCHANGED <<tailIndex, step, callVars, tailBlock, next, content, originalFront,
                     originalUsed, ringVars, flags, owned, local, front, slot, block>>
      /\ indices' = indices
  BY <1>1 DEF Dequeue, ClaimItems, Step, Claims!Claim, readVars, ringVars
<1>3. /\ tailIndex \in Nat /\ headIndex \in Nat /\ n \in Nat /\ 0 < n /\ headIndex' \in 0..tailIndex
      /\ headIndex + n \in Nat
  BY <1>1, BlockAssumption DEF Numbers
<1>4. /\ where \in [Consumers -> Places] /\ index \in [Consumers -> Nat] /\ end \in [Consumers -> Nat]
      /\ index[c] = 0 /\ end[c] = 0
  BY <1>2 DEF Claimed
<1>5. /\ where'[c] = "index" /\ index'[c] = headIndex /\ end'[c] = headIndex + n
      /\ \A d \in Consumers : d # c => where'[d] = where[d] /\ index'[d] = index[d] /\ end'[d] = end[d]
  BY <1>1, <1>2, <1>4
<1>6. /\ Pending(c) = {} /\ Untaken(c) = {}
      /\ Pending(c)' = headIndex..(headIndex + n - 1) /\ Untaken(c)' = headIndex..(headIndex + n - 1)
      /\ \A d \in Consumers : d # c => Pending(d)' = Pending(d) /\ Untaken(d)' = Untaken(d)
  <2>1. Pending(c) = {} /\ Untaken(c) = {}
    <3>1. 0..(0 - 1) = {}
      OBVIOUS
    <3> QED
      BY <1>4, <3>1 DEF Pending, Untaken
  <2>2. Pending(c)' = headIndex..(headIndex + n - 1)
    <3>1. PICK x : x = headIndex + n
      OBVIOUS
    <3>2. index'[c] = headIndex /\ end'[c] = x
      BY <1>5, <3>1
    <3>3. Pending(c)' = headIndex..(x - 1)
      BY <3>2 DEF Pending
    <3>4. x - 1 = headIndex + n - 1
      BY <1>3, <3>1
    <3> QED
      BY <3>3, <3>4
  <2>3. Untaken(c)' = Pending(c)'
    BY <1>5 DEF Untaken
  <2>4. \A d \in Consumers : d # c => Pending(d)' = Pending(d) /\ At(d)' = At(d)
    BY <1>5 DEF Pending, At
  <2>5. \A d \in Consumers : d # c => Untaken(d)' = Untaken(d)
    BY <1>5, <2>4 DEF Untaken
  <2> QED
    BY <2>1, <2>2, <2>3, <2>4, <2>5
<1>7. ASSUME NEW i \in Int PROVE Unread(i)' <=> Unread(i)
  <2>1. i >= headIndex <=> i >= headIndex' \/ i \in headIndex..(headIndex + n - 1)
    BY <1>1, <1>3
  <2>2. (\E d \in Consumers : i \in Pending(d))' <=>
        i \in headIndex..(headIndex + n - 1) \/ \E d \in Consumers : i \in Pending(d)
    BY <1>6
  <2> QED
    BY <2>1, <2>2 DEF Unread
<1>8. /\ Numbers' /\ Counted' /\ Typed' /\ a \in [DOMAIN indices' -> Int]
      /\ Rings(a)' /\ Linked(a)'
      /\ Last' = Last /\ First' = First /\ Circle' = Circle /\ Written' = Written
      /\ \A k : Home(a, k)' = Home(a, k)
  BY <1>2, <1>3, ConsumerKeeps
<1>9. ASSUME NEW i \in Int PROVE Present(i)' <=> Present(i)
  <2>0. Written \in Int /\ tailIndex <= Written
    BY <1>3 DEF Written, Numbers
  <2>1. i \in headIndex..(Written - 1)
        <=> i \in headIndex'..(Written - 1) \/ i \in headIndex..(headIndex + n - 1)
    BY <1>1, <1>3, <2>0
  <2>2. (\E d \in Consumers : i \in Untaken(d))' <=>
        i \in headIndex..(headIndex + n - 1) \/ \E d \in Consumers : i \in Untaken(d)
    BY <1>6
  <2> QED
    BY <1>8, <2>1, <2>2 DEF Present
<1>10. Claimed'
  <2>1. /\ where' \in [Consumers -> Places]
        /\ index' \in [Consumers -> Nat] /\ end' \in [Consumers -> Nat]
    BY <1>1, <1>2, <1>3, <1>4 DEF Places
  <2>2. ASSUME NEW d \in Consumers
        PROVE  IF where'[d] = "none" THEN index'[d] = 0 /\ end'[d] = 0
               ELSE index'[d] < end'[d] /\ end'[d] <= headIndex'
    <3>1. CASE d = c
      BY <1>1, <1>3, <1>5, <3>1
    <3>2. CASE d # c
      <4>1. IF where[d] = "none" THEN index[d] = 0 /\ end[d] = 0
            ELSE index[d] < end[d] /\ end[d] <= headIndex
        BY DEF Claimed
      <4>2. end[d] \in Nat
        BY <1>4
      <4> QED
        BY <1>1, <1>3, <1>5, <3>2, <4>1, <4>2
    <3> QED
      BY <3>1, <3>2
  <2>3. \A d, e \in Consumers : d # e =>
          \/ where'[d] = "none" \/ where'[e] = "none"
          \/ end'[d] <= index'[e] \/ end'[e] <= index'[d]
    <3>1. \A d \in Consumers : d # c => where'[d] = "none" \/ end'[d] <= index'[c]
      BY <1>5 DEF Claimed
    <3>2. \A d, e \in Consumers : d # e /\ d # c /\ e # c =>
          \/ where'[d] = "none" \/ where'[e] = "none"
          \/ end'[d] <= index'[e] \/ end'[e] <= index'[d]
      BY <1>5 DEF Claimed
    <3> QED
      BY <3>1, <3>2
  <2> QED
    BY <2>1, <2>2, <2>3 DEF Claimed
<1>11. Reads(a)'
  <2>1. ASSUME NEW d \in Consumers PROVE ReadsOf(a, d)'
    <3>1. CASE d = c
      BY <1>5, <3>1 DEF ReadsOf
    <3>2. CASE d # c
      <4>1. UNCHANGED <<local[d], front[d], slot[d], block[d], where[d], index[d], end[d]>>
        BY <1>2, <1>5, <3>2
      <4>2. ReadsOf(a, d)
        BY DEF Reads
      <4> QED
        BY <1>2, <4>1, <4>2, ReadsOfStill
    <3> QED
      BY <3>1, <3>2
  <2> QED
    BY <1>2, <2>1 DEF Reads
<1>12. Flagged(a)'
  BY <1>2, <1>7, <1>8, FlagsStill
<1>13. Filled(a)'
  BY <1>2, <1>8, <1>9, ContentStill
<1> QED
  BY <1>8, <1>10, <1>11, <1>12, <1>13

\* The block a consumer is about to read.
LEMMA BlockRead ==
    ASSUME NEW a, IInv(a), NEW c \in Consumers, where[c] = "read"
    PROVE  /\ At(c) \in Circle /\ At(c) \in Nat /\ At(c) <= Last
           /\ BlockToRead(c) = Home(a, At(c)) /\ BlockToRead(c) \in Blocks
<1> USE DEF IInv
<1>1. /\ At(c) \in Nat /\ BlockOf(end[c] - 1) \in Int
      /\ At(c) <= BlockOf(end[c] - 1) /\ At(c) <= Last
  BY PendingFacts
<1>2. At(c) \in At(c)..BlockOf(end[c] - 1)
  BY <1>1
<1>3. At(c) \in Circle
  BY <1>2, ClaimInCircle
<1>4. EntryIn(a, local[c], At(c)) = Entry(a, At(c))
      /\ slot[c] = (At(c) + a[local[c]]) % indices[local[c]].size
  BY <1>2 DEF Reads, ReadsOf
<1>5. BlockToRead(c) = Home(a, At(c))
  BY <1>4 DEF BlockToRead, Home, EntryIn
<1> QED
  BY <1>1, <1>3, <1>5 DEF Linked

\* The items taken out are those of the batch, and no longer present.
LEMMA ReadStep ==
    ASSUME NEW a, IInv(a), NEW c \in Consumers, Read(c)
    PROVE  IInv(a)'
<1> USE DEF IInv
<1>0. PICK r, b : r = At(c) /\ b = Home(a, r)
  OBVIOUS
<1>1. where[c] = "read" /\ where' = [where EXCEPT ![c] = "mark"]
  BY DEF Read, Step
<1>2. BlockToRead(c) = b /\ r \in Circle /\ b \in Blocks /\ r \in Nat
  BY <1>0, <1>1, BlockRead
<1>3. /\ block' = [block EXCEPT ![c] = b]
      /\ content' = [content EXCEPT ![b] =
             [o \in Offsets |-> IF o \in OffsetsOf(Batch(c)) THEN Nothing ELSE content[b][o]]]
      /\ UNCHANGED <<tailIndex, headIndex, step, callVars, tailBlock, next, originalFront,
                     originalUsed, ringVars, owned, index, end, flags, local, front, slot>>
      /\ indices' = indices
  BY <1>2 DEF Read, TakeOut, ConsumerOnly, claimVars, ringVars
<1>4. /\ where' \in [Consumers -> Places]
      /\ \A d \in Consumers : where'[d] = IF d = c THEN "mark" ELSE where[d]
  BY <1>1 DEF Claimed, Places
<1>5. Claimed'
  BY <1>1, <1>3, <1>4 DEF Claimed
<1>6. /\ \A d : Pending(d)' = Pending(d) /\ At(d)' = At(d)
      /\ \A i : Unread(i)' <=> Unread(i)
  BY <1>3, SameClaims
<1>7. /\ Numbers' /\ Counted' /\ Typed' /\ a \in [DOMAIN indices' -> Int]
      /\ Rings(a)' /\ Linked(a)'
      /\ Last' = Last /\ First' = First /\ Circle' = Circle /\ Written' = Written
      /\ \A j, k : EntryIn(a, j, k)' = EntryIn(a, j, k)
      /\ \A k : Entry(a, k)' = Entry(a, k) /\ Home(a, k)' = Home(a, k)
  <2>1. headIndex' \in 0..tailIndex
    BY <1>3 DEF Numbers
  <2> QED
    BY <1>3, <2>1, ConsumerKeeps
<1>8. /\ Batch(c) = {i \in Pending(c) : BlockOf(i) = r} /\ Untaken(c) = Pending(c)
      /\ Untaken(c)' = {i \in Pending(c) : BlockOf(i) # r}
      /\ \A d \in Consumers : d # c => Untaken(d)' = Untaken(d)
  <2>1. Batch(c) = {i \in Pending(c) : BlockOf(i) = r}
    BY <1>0 DEF Batch, At, Pending
  <2>2. Untaken(c) = Pending(c)
    BY <1>1 DEF Untaken
  <2>3. Untaken(c)' = {i \in Pending(c) : BlockOf(i) # r}
    BY <1>0, <1>4, <1>6 DEF Untaken
  <2>4. \A d \in Consumers : d # c => Untaken(d)' = Untaken(d)
    BY <1>4, <1>6 DEF Untaken
  <2> QED
    BY <2>1, <2>2, <2>3, <2>4
<1>9. \A i \in Batch(c) : i \in Pending(c) /\ i \in Int /\ i \in Items(r)
  BY <1>2, <1>8, ClaimFacts, BlockIs
<1>10. ASSUME NEW i \in Int PROVE Present(i)' <=> Present(i) /\ i \notin Batch(c)
  <2>1. (\E d \in Consumers : i \in Untaken(d))' <=>
        \/ i \in Pending(c) /\ i \notin Batch(c)
        \/ \E d \in Consumers : d # c /\ i \in Untaken(d)
    BY <1>8
  <2>2. (\E d \in Consumers : i \in Untaken(d)) <=>
        i \in Pending(c) \/ \E d \in Consumers : d # c /\ i \in Untaken(d)
    BY <1>8
  <2>3. ASSUME i \in Batch(c)
        PROVE  i \notin headIndex..(Written - 1) /\ ~\E d \in Consumers : d # c /\ i \in Untaken(d)
    <3>1. i < headIndex /\ headIndex \in Int /\ \A d \in Consumers : d # c => i \notin Untaken(d)
      BY <1>9, <2>3, ClaimFacts DEF Numbers
    <3> QED
      BY <3>1
  <2>4. headIndex'..(Written' - 1) = headIndex..(Written - 1)
    BY <1>3, <1>7
  <2> QED
    BY <2>1, <2>2, <2>3, <2>4 DEF Present
<1>11. Reads(a)'
  <2>0. DOMAIN block = Consumers
    BY DEF Reads
  <2>1. block'[c] = b /\ DOMAIN block' = Consumers /\ \A d \in Consumers : d # c => block'[d] = block[d]
    BY <1>3, <2>0
  <2>2. ReadsOf(a, c)'
    <3>1. ReadsOf(a, c)
      BY DEF Reads
    <3>2. where'[c] = "mark" /\ block'[c] = Home(a, At(c))'
      BY <1>0, <1>4, <1>6, <1>7, <2>1
    <3> QED
      BY <1>1, <1>3, <1>6, <1>7, <3>1, <3>2 DEF ReadsOf
  <2>3. ASSUME NEW d \in Consumers, d # c PROVE ReadsOf(a, d)'
    <3>1. UNCHANGED <<local[d], front[d], slot[d], block[d], where[d], index[d], end[d]>>
      BY <1>3, <1>4, <2>1, <2>3
    <3>2. ReadsOf(a, d)
      BY DEF Reads
    <3> QED
      BY <1>3, <3>1, <3>2, ReadsOfStill
  <2> QED
    BY <1>3, <2>1, <2>2, <2>3 DEF Reads
<1>12. Flagged(a)'
  BY <1>3, <1>6, <1>7, FlagsStill
<1>13. Filled(a)'
  <2>1. \A k \in Circle : k \in Int /\ Items(k) \subseteq Int /\ Home(a, k) \in Blocks
                          /\ (Home(a, k) = b => k = r)
    BY <1>0, <1>2, NumberFacts, ItemsTyped DEF Linked
  <2>2. content \in [Blocks -> [Offsets -> Int]]
    BY DEF Filled
  <2>3. \A d \in Blocks : d # b => content'[d] = content[d]
    BY <1>3, <2>2
  <2>4. \A o \in Offsets : content'[b][o] = IF o \in OffsetsOf(Batch(c)) THEN Nothing ELSE content[b][o]
    BY <1>2, <1>3, <2>2
  <2>5. content' \in [Blocks -> [Offsets -> Int]]
    <3>1. [o \in Offsets |-> IF o \in OffsetsOf(Batch(c)) THEN Nothing ELSE content[b][o]] \in [Offsets -> Int]
      BY <1>2, <2>2 DEF Nothing
    <3> QED
      BY <1>2, <1>3, <2>2, <3>1
  <2>6. ASSUME NEW i \in Items(r) PROVE i % BLOCK_SIZE \in OffsetsOf(Batch(c)) <=> i \in Batch(c)
    <3>1. ASSUME NEW j \in Batch(c), i % BLOCK_SIZE = j % BLOCK_SIZE PROVE i = j
      <4>1. i = r * BLOCK_SIZE + (i % BLOCK_SIZE) /\ j = r * BLOCK_SIZE + (j % BLOCK_SIZE)
        BY <1>2, <1>9, ItemsTyped
      <4> QED
        BY <3>1, <4>1
    <3> QED
      BY <3>1 DEF OffsetsOf
  <2>7. ASSUME NEW k \in Circle, NEW i \in Items(k)
        PROVE  content'[Home(a, k)][i % BLOCK_SIZE] = IF Present(i)' THEN i ELSE Nothing
    <3>1. i \in Int /\ i % BLOCK_SIZE \in Offsets /\ BlockOf(i) = k
          /\ content[Home(a, k)][i % BLOCK_SIZE] = IF Present(i) THEN i ELSE Nothing
      BY <2>1, ItemsTyped DEF Filled
    <3>2. CASE k = r
      BY <1>0, <1>10, <2>4, <2>6, <3>1, <3>2
    <3>3. CASE k # r
      <4>1. i \notin Batch(c)
        BY <1>8, <3>1, <3>3
      <4>2. content'[Home(a, k)] = content[Home(a, k)]
        BY <2>1, <2>3, <3>3
      <4> QED
        BY <1>10, <3>1, <4>1, <4>2
    <3> QED
      BY <3>2, <3>3
  <2>8. \A d \in Blocks \ owned : \A o \in Offsets : content'[d][o] = Nothing
    <3>1. b \in owned
      BY <1>0, <1>2 DEF Linked
    <3> QED
      BY <2>3, <3>1 DEF Filled
  <2>9. \A k : Items(k)' = Items(k)
    BY DEF Items
  <2>10. \A k \in Circle : \A i \in Items(k) :
           content'[Home(a, k)'][i % BLOCK_SIZE] = IF Present(i)' THEN i ELSE Nothing
    BY <1>7, <2>7
  <2> QED
    BY <1>3, <1>7, <2>5, <2>8, <2>9, <2>10 DEF Filled
<1> QED
  BY <1>5, <1>7, <1>11, <1>12, <1>13

\* What a consumer has claimed beyond the batch it is at.
Rest(c) == {i \in index[c]..(end[c] - 1) : BlockOf(i) # At(c)}

\* A batch reaches to the end of its block, or of the claim.
LEMMA BatchFacts ==
    ASSUME Numbers, Claimed, NEW c \in Consumers, where[c] # "none"
    PROVE  /\ IsFiniteSet(Batch(c)) /\ Cardinality(Batch(c)) \in Nat
           /\ Batch(c) \subseteq Items(At(c)) /\ index[c] \in Batch(c)
           /\ BatchEnd(c) \in Nat /\ index[c] < BatchEnd(c) /\ BatchEnd(c) <= end[c]
           /\ Rest(c) = BatchEnd(c)..(end[c] - 1)
           /\ LastBatch(c) => Rest(c) = {}
           /\ ~LastBatch(c) => BlockOf(BatchEnd(c)) = At(c) + 1
<1>1. PICK s, e, k : s = index[c] /\ e = end[c] /\ k = At(c)
  OBVIOUS
<1>2. s \in Nat /\ e \in Nat /\ s < e /\ k \in Nat /\ k = BlockOf(s) /\ s \in Items(k)
  <2>1. s \in Nat /\ e \in Nat /\ s < e /\ k \in Nat
    BY <1>1, PendingFacts
  <2>2. k = BlockOf(s) /\ s \in Int
    BY <1>1, <2>1 DEF At
  <2> QED
    BY <2>1, <2>2, BlockIs
<1>3. PICK f, t : f = k * BLOCK_SIZE /\ t = f + BLOCK_SIZE
  OBVIOUS
<1>4. f \in Nat /\ t \in Nat /\ f <= s /\ s < t /\ t = (k + 1) * BLOCK_SIZE
      /\ Items(k) = f..(t - 1)
  <2>1. f \in Nat /\ t \in Nat /\ t = (k + 1) * BLOCK_SIZE
    BY <1>2, <1>3, BlockFirst, BlockSize
  <2>2. Items(k) = f..(t - 1)
    <3>1. Items(k) = f..(f + BLOCK_SIZE - 1)
      BY <1>3 DEF Items
    <3>2. f + BLOCK_SIZE - 1 = t - 1
      BY <1>3, <2>1, BlockSize
    <3> QED
      BY <3>1, <3>2
  <2> QED
    BY <1>2, <2>1, <2>2
<1>5. PICK z \in Nat : s < z /\ z <= e /\ z <= t /\ (z < e => z = t)
  <2>1. CASE e <= t
    BY <1>2, <2>1
  <2>2. CASE t < e
    BY <1>2, <1>4, <2>2
  <2> QED
    BY <1>2, <1>4, <2>1, <2>2
<1>6. ASSUME NEW i \in s..(e - 1) PROVE i \in Int /\ (BlockOf(i) = k <=> i < z)
  <2>1. i \in Int /\ s <= i /\ i <= e - 1
    BY <1>2
  <2>2. BlockOf(i) = k <=> i \in f..(t - 1)
    BY <1>2, <1>4, <2>1, BlockIs
  <2>3. i \in f..(t - 1) <=> i < z
    BY <1>2, <1>4, <1>5, <2>1
  <2> QED
    BY <2>1, <2>2, <2>3
<1>7. Batch(c) = s..(z - 1)
  <2>1. Batch(c) = {i \in s..(e - 1) : BlockOf(i) = k}
    BY <1>1 DEF Batch, At
  <2>2. \A i : i \in s..(z - 1) <=> i \in s..(e - 1) /\ i < z
    BY <1>2, <1>5
  <2> QED
    BY <1>6, <2>1, <2>2
<1>8. Rest(c) = z..(e - 1)
  <2>1. Rest(c) = {i \in s..(e - 1) : BlockOf(i) # k}
    BY <1>1 DEF Rest
  <2>2. \A i : i \in z..(e - 1) <=> i \in s..(e - 1) /\ ~(i < z)
    BY <1>2, <1>5
  <2> QED
    BY <1>6, <2>1, <2>2
<1>9. IsFiniteSet(Batch(c)) /\ Cardinality(Batch(c)) = z - s
  <2>1. s \in Int /\ z - 1 \in Int /\ ~(s > z - 1) /\ (z - 1) - s + 1 = z - s
    BY <1>2, <1>5
  <2> QED
    BY <1>7, <2>1, FS_Interval
<1>10. BatchEnd(c) = z /\ Cardinality(Batch(c)) \in Nat
  BY <1>1, <1>2, <1>5, <1>9 DEF BatchEnd
<1>11. LastBatch(c) <=> z = e
  BY <1>1, <1>10 DEF LastBatch
<1>12. e..(e - 1) = {}
  BY <1>2
<1>13. z # e => BlockOf(z) = k + 1
  BY <1>2, <1>4, <1>5, BlockFirst
<1>14. Batch(c) \subseteq Items(k) /\ s \in Batch(c)
  BY <1>2, <1>4, <1>5, <1>7
<1> QED
  BY <1>1, <1>2, <1>5, <1>8, <1>9, <1>10, <1>11, <1>12, <1>13, <1>14


\* The flags set are those of the batch, which is then read.
LEMMA MarkStep ==
    ASSUME NEW a, IInv(a), NEW c \in Consumers, Mark(c)
    PROVE  IInv(a)'
<1> USE DEF IInv
<1>0. PICK r, b, s, e, z, j : /\ r = At(c) /\ b = block[c] /\ s = index[c] /\ e = end[c]
                              /\ z = BatchEnd(c) /\ j = local[c]
  OBVIOUS
<1>1. /\ where[c] = "mark"
      /\ where' = [where EXCEPT ![c] = IF LastBatch(c) THEN "none" ELSE "read"]
      /\ flags' = [flags EXCEPT ![b] = flags[b] \union OffsetsOf(Batch(c))]
      /\ index' = [index EXCEPT ![c] = IF LastBatch(c) THEN 0 ELSE z]
      /\ end' = [end EXCEPT ![c] = IF LastBatch(c) THEN 0 ELSE e]
      /\ slot' = [slot EXCEPT ![c] = IF LastBatch(c) THEN 0 ELSE (slot[c] + 1) % indices[j].size]
      /\ local' = [local EXCEPT ![c] = IF LastBatch(c) THEN 0 ELSE j]
      /\ front' = [front EXCEPT ![c] = IF LastBatch(c) THEN 0 ELSE front[c]]
      /\ block' = [block EXCEPT ![c] = Null]
      /\ UNCHANGED <<tailIndex, headIndex, step, callVars, tailBlock, next, originalFront,
                     originalUsed, ringVars, owned, content>>
      /\ indices' = indices
  BY <1>0 DEF Mark, Step, NextBatch, set_empty, ConsumerOnly, claimVars, ringVars
<1>2. /\ where \in [Consumers -> Places] /\ index \in [Consumers -> Nat] /\ end \in [Consumers -> Nat]
      /\ DOMAIN local = Consumers /\ DOMAIN front = Consumers /\ DOMAIN slot = Consumers
      /\ DOMAIN block = Consumers
  BY DEF Claimed, Reads
<1>3. /\ s \in Nat /\ e \in Nat /\ r \in Nat /\ z \in Nat /\ s < z /\ z <= e /\ e <= headIndex
      /\ Rest(c) = z..(e - 1)
      /\ LastBatch(c) => Rest(c) = {}
      /\ LastBatch(c) <=> z = e
      /\ ~LastBatch(c) => BlockOf(z) = r + 1
      /\ BlockOf(e - 1) \in Int
  BY <1>0, <1>1, BatchFacts, PendingFacts DEF LastBatch
<1>4. /\ r \in Circle /\ r <= Last /\ b = Home(a, r) /\ b \in Blocks
  <2>1. r \in r..BlockOf(e - 1) /\ r <= Last
    BY <1>0, <1>1, PendingFacts
  <2>2. r \in Circle
    BY <1>0, <1>1, <2>1, ClaimInCircle
  <2>3. b = Home(a, r)
    BY <1>0, <1>1 DEF Reads, ReadsOf
  <2> QED
    BY <2>1, <2>2, <2>3 DEF Linked
<1>5. /\ Batch(c) = {i \in Pending(c) : BlockOf(i) = r} /\ Untaken(c) = Rest(c)
      /\ Rest(c) = Pending(c) \ Batch(c) /\ Batch(c) \subseteq Pending(c)
      /\ Batch(c) \subseteq Items(r)
  <2>1. Batch(c) = {i \in Pending(c) : BlockOf(i) = r}
    BY <1>0 DEF Batch, At, Pending
  <2>2. Untaken(c) = Rest(c) /\ Rest(c) = {i \in Pending(c) : BlockOf(i) # r}
    BY <1>0, <1>1 DEF Untaken, Rest, Pending
  <2>3. Batch(c) \subseteq Items(r)
    BY <1>0, <1>1, BatchFacts
  <2> QED
    BY <2>1, <2>2, <2>3
\* The consumer, after it.
<1>6. /\ where' \in [Consumers -> Places] /\ index' \in [Consumers -> Nat] /\ end' \in [Consumers -> Nat]
      /\ DOMAIN local' = Consumers /\ DOMAIN front' = Consumers /\ DOMAIN slot' = Consumers
      /\ DOMAIN block' = Consumers
      /\ \A d \in Consumers : d # c =>
            UNCHANGED <<where[d], index[d], end[d], local[d], front[d], slot[d], block[d]>>
  <2>1. where' \in [Consumers -> Places] /\ index' \in [Consumers -> Nat] /\ end' \in [Consumers -> Nat]
    BY <1>1, <1>2, <1>3 DEF Places
  <2> QED
    BY <1>1, <1>2, <2>1
<1>7. IF LastBatch(c) THEN where'[c] = "none" /\ index'[c] = 0 /\ end'[c] = 0
      ELSE where'[c] = "read" /\ index'[c] = z /\ end'[c] = e /\ local'[c] = j
           /\ slot'[c] = (slot[c] + 1) % indices[j].size
  BY <1>1, <1>2
<1>8. Pending(c)' = Rest(c) /\ Untaken(c)' = Rest(c)
  <2>1. where'[c] # "mark"
    BY <1>7
  <2>2. CASE LastBatch(c)
    <3>1. 0..(0 - 1) = {}
      OBVIOUS
    <3>2. Pending(c)' = {}
      BY <1>7, <2>2, <3>1 DEF Pending
    <3> QED
      BY <1>3, <2>1, <2>2, <3>2 DEF Untaken
  <2>3. CASE ~LastBatch(c)
    <3>1. Pending(c)' = Rest(c)
      BY <1>3, <1>7, <2>3 DEF Pending
    <3> QED
      BY <2>1, <3>1 DEF Untaken
  <2> QED
    BY <2>2, <2>3
<1>9. ASSUME NEW d \in Consumers, d # c
      PROVE  Pending(d)' = Pending(d) /\ Untaken(d)' = Untaken(d)
  <2>1. UNCHANGED <<where[d], index[d], end[d]>>
    BY <1>6, <1>9
  <2>2. Pending(d)' = Pending(d) /\ At(d)' = At(d)
    BY <2>1 DEF Pending, At
  <2> QED
    BY <2>1, <2>2 DEF Untaken
<1>10. ASSUME NEW i \in Int PROVE Unread(i)' <=> Unread(i) /\ i \notin Batch(c)
  <2>1. (\E d \in Consumers : i \in Pending(d))' <=>
        \/ i \in Pending(c) /\ i \notin Batch(c)
        \/ \E d \in Consumers : d # c /\ i \in Pending(d)
    BY <1>5, <1>8, <1>9
  <2>2. ASSUME i \in Batch(c)
        PROVE  ~(i >= headIndex) /\ ~\E d \in Consumers : d # c /\ i \in Pending(d)
    <3>1. i < headIndex /\ headIndex \in Int /\ \A d \in Consumers : d # c => i \notin Pending(d)
      BY <1>5, <2>2, ClaimFacts DEF Numbers
    <3> QED
      BY <3>1
  <2>3. headIndex' = headIndex
    BY <1>1
  <2> QED
    BY <2>1, <2>2, <2>3 DEF Unread
<1>11. /\ Numbers' /\ Counted' /\ Typed' /\ a \in [DOMAIN indices' -> Int]
       /\ Rings(a)' /\ Linked(a)'
       /\ Last' = Last /\ First' = First /\ Circle' = Circle /\ Written' = Written
       /\ \A i, k : EntryIn(a, i, k)' = EntryIn(a, i, k)
       /\ \A k : Entry(a, k)' = Entry(a, k) /\ Home(a, k)' = Home(a, k)
  <2>1. headIndex' \in 0..tailIndex
    BY <1>1 DEF Numbers
  <2> QED
    BY <1>1, <2>1, ConsumerKeeps
<1>12. \A i \in Int : Present(i)' <=> Present(i)
  <2>1. \A d \in Consumers : Untaken(d)' = Untaken(d)
    BY <1>5, <1>8, <1>9
  <2> QED
    BY <1>1, <1>11, <2>1 DEF Present
<1>13. Claimed'
  <2>1. ASSUME NEW d \in Consumers
        PROVE  IF where'[d] = "none" THEN index'[d] = 0 /\ end'[d] = 0
               ELSE index'[d] < end'[d] /\ end'[d] <= headIndex'
    <3>1. CASE d = c
      BY <1>1, <1>3, <1>7, <3>1
    <3>2. CASE d # c
      BY <1>1, <1>6, <3>2 DEF Claimed
    <3> QED
      BY <3>1, <3>2
  <2>2. ASSUME NEW d \in Consumers, d # c
        PROVE  \/ where'[d] = "none" \/ where'[c] = "none"
               \/ end'[d] <= index'[c] \/ end'[c] <= index'[d]
    <3>1. where[d] = "none" \/ end[d] <= s \/ e <= index[d]
      BY <1>0, <1>1, <2>2 DEF Claimed
    <3>2. end[d] \in Nat /\ index[d] \in Nat
      BY <1>2
    <3>3. where'[c] = "none" \/ (index'[c] = z /\ end'[c] = e)
      BY <1>7
    <3> QED
      BY <1>3, <1>6, <2>2, <3>1, <3>2, <3>3
  <2>3. ASSUME NEW d \in Consumers, NEW f \in Consumers, d # f, d # c, f # c
        PROVE  \/ where'[d] = "none" \/ where'[f] = "none"
               \/ end'[d] <= index'[f] \/ end'[f] <= index'[d]
    BY <1>6, <2>3 DEF Claimed
  <2>4. \A d, f \in Consumers : d # f =>
          \/ where'[d] = "none" \/ where'[f] = "none"
          \/ end'[d] <= index'[f] \/ end'[f] <= index'[d]
    BY <2>2, <2>3
  <2> QED
    BY <1>6, <2>1, <2>4 DEF Claimed
<1>14. Reads(a)'
  <2>1. ReadsOf(a, c)'
    <3>1. CASE LastBatch(c)
      BY <1>7, <3>1 DEF ReadsOf
    <3>2. CASE ~LastBatch(c)
      <4>1. /\ j \in DOMAIN indices /\ slot[c] = (r + a[j]) % indices[j].size
            /\ \A k \in r..BlockOf(e - 1) : EntryIn(a, j, k) = Entry(a, k)
        BY <1>0, <1>1 DEF Reads, ReadsOf
      <4>2. At(c)' = r + 1
        BY <1>3, <1>7, <3>2 DEF At
      <4>3. (slot[c] + 1) % indices[j].size = ((r + 1) + a[j]) % indices[j].size
        <5>1. PICK n, x, d : n = indices[j].size /\ x = r + a[j] /\ d = 1
          OBVIOUS
        <5>2. n \in Nat \ {0} /\ a[j] \in Int
          BY <4>1, <5>1, RingFacts
        <5>3. x \in Int /\ d \in Int /\ x + d = (r + 1) + a[j]
          BY <1>3, <5>1, <5>2
        <5>4. ((x % n) + d) % n = (x + d) % n
          BY <5>2, <5>3, ModSum
        <5> QED
          BY <4>1, <5>1, <5>3, <5>4
      <4>4. \A k \in (r + 1)..BlockOf(e - 1) : EntryIn(a, j, k) = Entry(a, k)
        BY <1>3, <4>1
      <4>5. where'[c] = "read" /\ end'[c] = e /\ local'[c] = j
            /\ slot'[c] = (At(c)' + a[j]) % indices'[j].size
        BY <1>1, <1>7, <3>2, <4>2, <4>3
      <4>6. \A k \in At(c)'..BlockOf(end'[c] - 1) : EntryIn(a, j, k)' = Entry(a, k)'
        BY <1>11, <4>2, <4>4, <4>5
      <4> QED
        BY <1>1, <4>1, <4>5, <4>6 DEF ReadsOf, BlockOf
    <3> QED
      BY <3>1, <3>2
  <2>2. ASSUME NEW d \in Consumers, d # c PROVE ReadsOf(a, d)'
    <3>1. UNCHANGED <<local[d], front[d], slot[d], block[d], where[d], index[d], end[d]>>
      BY <1>6, <2>2
    <3>2. ReadsOf(a, d)
      BY DEF Reads
    <3> QED
      BY <1>1, <3>1, <3>2, ReadsOfStill
  <2> QED
    BY <1>6, <2>1, <2>2 DEF Reads
<1>15. Filled(a)'
  BY <1>1, <1>11, <1>12, ContentStill
<1>16. Flagged(a)'
  <2>1. \A k \in Circle : k \in Int /\ Home(a, k) \in Blocks /\ (Home(a, k) = b => k = r)
    BY <1>4, NumberFacts DEF Linked
  <2>2. flags \in [Blocks -> SUBSET Offsets] /\ OffsetsOf(Batch(c)) \subseteq Offsets
    <3>1. \A i \in Batch(c) : i % BLOCK_SIZE \in Offsets
      BY <1>3, <1>5, ItemsTyped
    <3> QED
      BY <3>1 DEF Flagged, OffsetsOf
  <2>3. /\ flags' \in [Blocks -> SUBSET Offsets]
        /\ flags'[b] = flags[b] \union OffsetsOf(Batch(c))
        /\ \A d \in Blocks : d # b => flags'[d] = flags[d]
    BY <1>1, <1>4, <2>2
  <2>4. \A k \in Int : Items(k)' = Items(k) /\ Items(k) \subseteq Int
    BY ItemsTyped DEF Items
  <2>5. \A k \in Int : \A i \in Items(k) : Unread(i)' <=> Unread(i) /\ i \notin Batch(c)
    BY <1>10, <2>4
  <2>6. ReadFrom(r)' = ReadFrom(r) \union OffsetsOf(Batch(c))
    <3>1. ReadFrom(r)' = {i % BLOCK_SIZE : i \in {i \in Items(r) : ~Unread(i) \/ i \in Batch(c)}}
      <4>1. {i \in Items(r)' : ~Unread(i)'} = {i \in Items(r) : ~Unread(i) \/ i \in Batch(c)}
        BY <1>3, <2>4, <2>5
      <4> QED
        BY <4>1 DEF ReadFrom
    <3> QED
      BY <1>5, <3>1 DEF ReadFrom, OffsetsOf
  <2>7. ASSUME NEW k \in Int, k # r PROVE ReadFrom(k)' = ReadFrom(k)
    <3>1. \A i \in Items(k) : i \notin Batch(c)
      BY <1>3, <1>5, <2>7, ItemsTyped
    <3>2. {i \in Items(k)' : ~Unread(i)'} = {i \in Items(k) : ~Unread(i)}
      BY <2>4, <2>5, <3>1
    <3> QED
      BY <3>2 DEF ReadFrom
  <2>8. \A k \in 0..(First - 1) : \A i \in Items(k)' : ~Unread(i)'
    <3>1. \A k \in 0..(First - 1) : k \in Int
      BY NumberFacts
    <3> QED
      BY <2>4, <2>5, <3>1 DEF Flagged
  <2>9. ASSUME NEW k \in Circle
        PROVE  flags'[Home(a, k)'] =
                  IF k <= Last' \/ step' \in {"fill", "try", "publish"} THEN ReadFrom(k)' ELSE Offsets
    <3>1. flags[Home(a, k)] =
             IF k <= Last \/ step \in {"fill", "try", "publish"} THEN ReadFrom(k) ELSE Offsets
      BY DEF Flagged
    <3>2. Home(a, k)' = Home(a, k) /\ Last' = Last /\ step' = step
      BY <1>1, <1>11
    <3>3. CASE k = r
      BY <1>4, <2>3, <2>6, <3>1, <3>2, <3>3
    <3>4. CASE k # r
      BY <2>1, <2>3, <2>7, <3>1, <3>2, <3>4
    <3> QED
      BY <3>3, <3>4
  <2>10. Offsets' = Offsets
    BY DEF Offsets
  <2> QED
    BY <1>11, <2>3, <2>8, <2>9, <2>10 DEF Flagged
<1> QED
  BY <1>6, <1>11, <1>13, <1>14, <1>15, <1>16

(***************************************************************************)
(* The producer, where it leaves the entries alone.                        *)
(***************************************************************************)
SameRings ==
    /\ Typed' /\ Len(indices') = Len(indices) /\ DOMAIN indices' = DOMAIN indices
    /\ \A j \in DOMAIN indices :
          /\ indices'[j].size = indices[j].size /\ indices'[j].entries = indices[j].entries
          /\ IsEntry(j, indices[j].front) => IsEntry(j, indices[j].front)'

\* The front that is stored has an entry, that of the last block number.
LEMMA FrontStored ==
    ASSUME NEW a, IInv(a), StoreFront, Top >= 0
    PROVE  SameRings /\ IsEntry(Len(indices), indices[Len(indices)].front)'
<1> USE DEF IInv
<1>0. PICK J, n, p, h : /\ J = Len(indices) /\ n = current.size /\ p = (prFront - 1) % n
                        /\ h = [current EXCEPT !.front = p]
  OBVIOUS
<1>1. /\ J \in Nat \ {0} /\ DOMAIN indices = 1..J /\ J \in 1..J /\ current = indices[J]
      /\ n \in Nat \ {0} /\ a[J] \in Int /\ current \in AnyRing
  BY <1>0, RingFacts
<1>2. /\ Top \in Int /\ Top \in Circle
      /\ slotsUsed \in Nat
  BY NumberFacts DEF Counted
<1>3. p = (Top + a[J]) % n
  <2>1. PICK x, y, d : d = a[J] /\ x = Top + 1 + d /\ y = -1
    OBVIOUS
  <2>2. x \in Int /\ y \in Int /\ x + y = Top + d
    BY <1>1, <1>2, <2>1
  <2>3. ((x % n) + y) % n = (x + y) % n
    BY <1>1, <2>2, ModSum
  <2>4. prFront = x % n /\ prFront \in Int
    BY <1>0, <1>1, <2>1, <2>2, Division DEF Rings
  <2>5. prFront - 1 = (x % n) + y
    BY <2>1, <2>4
  <2> QED
    BY <1>0, <2>1, <2>2, <2>3, <2>5
<1>4. /\ p \in 0..(n - 1) /\ current.entries[p].block # Null
  <2>1. p \in 0..(n - 1) /\ current.entries[p] = Entry(a, Top)
    BY <1>0, <1>1, <1>2, <1>3, EntryFacts DEF Entry, EntryIn
  <2>2. Home(a, Top) \in Blocks
    BY <1>2 DEF Linked
  <2> QED
    BY <2>1, <2>2 DEF Home, Blocks, Null
<1>5. PICK m \in Nat \ {0} : current \in RingOf(m)
  BY <1>1 DEF AnyRing
<1>6. /\ h \in RingOf(m) /\ h.front = p /\ h.size = current.size /\ h.entries = current.entries
  <2>1. current = [size |-> current.size, front |-> current.front, entries |-> current.entries]
    BY <1>5 DEF RingOf
  <2>2. /\ current.size = m /\ n = m
        /\ current.entries \in [0..(m - 1) -> [base : Int, block : Blocks \union {Null}]]
    BY <1>0, <1>5 DEF RingOf
  <2>3. h = [size |-> current.size, front |-> p, entries |-> current.entries]
    BY <1>0, <2>1
  <2>4. p \in -1..(m - 1)
    BY <1>4, <1>5, <2>2
  <2> QED
    BY <2>2, <2>3, <2>4 DEF RingOf
<1>7. h \in AnyRing
  BY <1>6 DEF AnyRing
<1>8. indices' = [indices EXCEPT ![J] = h]
  BY <1>0, <1>1 DEF StoreFront
<1>9. indices' \in Seq(AnyRing) /\ Len(indices') = J
  BY <1>1, <1>7, <1>8 DEF Typed
<1>10. \A j \in 1..J : indices'[j] = IF j = J THEN h ELSE indices[j]
  BY <1>1, <1>8
<1>11. IsEntry(J, indices[J].front)'
  <2>1. indices'[J] = h
    BY <1>1, <1>10
  <2> QED
    BY <1>0, <1>1, <1>4, <1>6, <2>1 DEF IsEntry
<1>12. ASSUME NEW j \in 1..J
       PROVE  /\ indices'[j].size = indices[j].size /\ indices'[j].entries = indices[j].entries
              /\ IsEntry(j, indices[j].front) => IsEntry(j, indices[j].front)'
  <2>1. CASE j = J
    BY <1>1, <1>6, <1>10, <1>11, <2>1
  <2>2. CASE j # J
    BY <1>10, <2>2 DEF IsEntry
  <2> QED
    BY <2>1, <2>2
<1>13. Typed' /\ DOMAIN indices' = 1..J
  BY <1>1, <1>9 DEF Typed
<1> QED
  BY <1>0, <1>1, <1>9, <1>11, <1>12, <1>13 DEF SameRings

\* Nothing is stored.
LEMMA IndexStill ==
    ASSUME Typed, indices' = indices
    PROVE  SameRings /\ IsEntry(Len(indices), current.front)' = IsEntry(Len(indices), current.front)
  BY DEF SameRings, Typed, IsEntry, current

\* A step of the producer that writes no entry leaves the rings and their readers
\* alone.
LEMMA ProducerKeeps ==
    ASSUME NEW a, IInv(a), SameRings, Top' = Top, Last' \in Int, Last <= Last',
           UNCHANGED <<headIndex, where, index, end, readVars, slotsUsed, prFront>>,
           Last' >= 0 => Last >= 0 \/ IsEntry(Len(indices), indices[Len(indices)].front)'
    PROVE  /\ Claimed' /\ Typed' /\ a \in [DOMAIN indices' -> Int]
           /\ Rings(a)' /\ Reads(a)'
           /\ First' = First /\ Circle' = Circle
           /\ \A k : Home(a, k)' = Home(a, k)
           /\ \A i : Unread(i)' <=> Unread(i)
           /\ \A c \in Consumers : Untaken(c)' = Untaken(c)
<1> USE DEF IInv
<1>1. /\ First' = First /\ Circle' = Circle /\ Claimed' /\ Typed' /\ a \in [DOMAIN indices' -> Int]
      /\ UNCHANGED <<local, front, slot, block>>
  BY DEF First, Circle, Claimed, SameRings, readVars
<1>2. Len(indices) \in DOMAIN indices /\ current = indices[Len(indices)]
  BY RingFacts
<1>3. /\ \A j \in DOMAIN indices : \A k : EntryIn(a, j, k)' = EntryIn(a, j, k)
      /\ \A k : Entry(a, k)' = Entry(a, k) /\ Home(a, k)' = Home(a, k)
      /\ current' = indices'[Len(indices)] /\ current'.size = current.size
  <2>1. \A j \in DOMAIN indices : \A k : EntryIn(a, j, k)' = EntryIn(a, j, k)
    BY DEF EntryIn, SameRings
  <2>2. \A k : Entry(a, k)' = Entry(a, k)
    BY <1>2, <2>1 DEF Entry, SameRings
  <2> QED
    BY <1>2, <2>1, <2>2 DEF Home, SameRings, current
<1>4. Rings(a)'
  <2>1. \A j \in DOMAIN indices : \A p : IsEntry(j, p)' <=> IsEntry(j, p)
    BY DEF IsEntry, SameRings
  <2>2. \A j \in DOMAIN indices' : \A p \in 0..(indices'[j].size - 1) :
          IsEntry(j, p)' => (BlockOf(indices'[j].entries[p].base) + a[j]) % indices'[j].size = p
    BY <2>1 DEF Rings, SameRings
  <2>3. Last' >= 0 => /\ current'.front \in 0..(indices'[Len(indices')].size - 1)
                      /\ indices'[Len(indices')].entries[current'.front].block # Null
    <3>1. Last >= 0 => IsEntry(Len(indices), indices[Len(indices)].front)'
      BY <1>2 DEF Rings, SameRings
    <3>2. Last' >= 0 => IsEntry(Len(indices), indices[Len(indices)].front)'
      BY <3>1
    <3>3. Len(indices') = Len(indices)
      BY DEF SameRings
    <3> QED
      BY <1>3, <3>2, <3>3 DEF IsEntry
  <2>4. slotsUsed' <= current'.size /\ prFront' = (Top' + 1 + a[Len(indices')]) % current'.size
    BY <1>3 DEF Rings, SameRings
  <2>5. \A k \in Circle' : Entry(a, k)'.base = k * BLOCK_SIZE
    BY <1>1, <1>3 DEF Rings
  <2> QED
    <3>1. Len(indices') = Len(indices)
      BY DEF SameRings
    <3>2. Last' >= 0 => IsEntry(Len(indices), current.front)'
      BY <2>3 DEF IsEntry
    <3> QED
      BY <2>2, <2>4, <2>5, <3>1, <3>2 DEF Rings, BlockOf
<1>5. /\ \A c : Pending(c)' = Pending(c) /\ At(c)' = At(c)
      /\ \A i : Unread(i)' <=> Unread(i)
  BY SameClaims
<1>6. \A c \in Consumers : Untaken(c)' = Untaken(c)
  BY <1>5 DEF Untaken
<1>7. Reads(a)'
  <2>1. ASSUME NEW c \in Consumers PROVE ReadsOf(a, c)'
    <3>0. ReadsOf(a, c)
      BY DEF Reads
    <3>1. CASE where[c] \notin {"none", "index"}
      <4>1. PICK j : j = local[c]
        OBVIOUS
      <4>2. /\ j \in DOMAIN indices
            /\ where[c] = "front" => IsEntry(j, indices[j].front)
            /\ where[c] = "locate" => IsEntry(j, front[c])
            /\ where[c] \in {"read", "mark"} => slot[c] = (At(c) + a[j]) % indices[j].size
            /\ where[c] = "mark" => block[c] = Home(a, At(c))
            /\ \A k \in At(c)..BlockOf(end[c] - 1) : EntryIn(a, j, k) = Entry(a, k)
        BY <3>0, <3>1, <4>1 DEF ReadsOf
      <4>3. /\ where[c] = "front" => IsEntry(j, indices[j].front)'
            /\ where[c] = "locate" => IsEntry(j, front[c])'
        BY <1>1, <4>2 DEF SameRings, IsEntry
      <4>4. /\ where[c] \in {"read", "mark"} => slot[c] = (At(c) + a[j]) % indices'[j].size
            /\ where[c] = "mark" => block[c] = Home(a, At(c))'
        BY <1>3, <1>5, <4>2 DEF SameRings
      <4>5. \A k \in At(c)..BlockOf(end[c] - 1) : EntryIn(a, j, k)' = Entry(a, k)'
        BY <1>3, <4>2
      <4> QED
        BY <1>1, <1>5, <4>1, <4>2, <4>3, <4>4, <4>5 DEF ReadsOf, SameRings
    <3>2. CASE where[c] \in {"none", "index"}
      BY <3>2 DEF ReadsOf
    <3> QED
      BY <3>1, <3>2
  <2> QED
    BY <1>1, <2>1 DEF Reads
<1> QED
  BY <1>1, <1>3, <1>4, <1>5, <1>6, <1>7

\* A call begins with no block found.
LEMMA EnqueueStep ==
    ASSUME NEW a, IInv(a), NEW n \in 1..MaxBulk, Enqueue(n)
    PROVE  IInv(a)'
<1> USE DEF IInv
<1>1. /\ step = "idle" /\ step' = "reuse"
      /\ UNCHANGED <<tailIndex, headIndex, tailBlock, next, content, where, index, end,
                     readVars, slotsUsed, prFront, flags, owned>>
      /\ indices' = indices
      /\ count' = n /\ base' = Last * BLOCK_SIZE
      /\ needed' = BlockOf(tailIndex + n - 1) - Last
      /\ startBlock' = tailBlock /\ firstAllocated' = Null
      /\ originalFront' = prFront /\ originalUsed' = slotsUsed
      /\ tailIndex + n <= MaxItems
  BY DEF Enqueue, BeginCall, claimVars, ringVars, Last
<1>2. Last' = Last /\ Last \in Int /\ tailIndex \in Nat /\ n \in Nat \ {0} /\ -1 <= Last
  BY <1>1, NumberFacts, BlockAssumption DEF Last, Numbers
<1>3. BlockOf(base') = Last /\ base' \in Int
  BY <1>1, <1>2, BlockFirst
<1>4. Found' = 0
  BY <1>1, <1>2, <1>3 DEF Found, Last
<1>5. Added = 0 /\ Added' = 0 /\ Top = Last /\ Top' = Top
  BY <1>1, <1>2, <1>4, NumberFacts DEF Added, Top
<1>6. BlockOf(tailIndex + n - 1) \in Int /\ Last <= BlockOf(tailIndex + n - 1)
  BY <1>2, BlockMono, BlockTyped DEF Last
<1>7. Numbers'
  BY <1>1, <1>2, <1>3, <1>4, <1>5, <1>6 DEF Numbers
<1>8. /\ Claimed' /\ Typed' /\ a \in [DOMAIN indices' -> Int]
      /\ Rings(a)' /\ Reads(a)'
      /\ First' = First /\ Circle' = Circle
      /\ \A k : Home(a, k)' = Home(a, k)
      /\ \A i : Unread(i)' <=> Unread(i)
      /\ \A c \in Consumers : Untaken(c)' = Untaken(c)
  BY <1>1, <1>2, <1>5, IndexStill, ProducerKeeps
<1>9. Counted'
  <2>1. slotsUsed \in Nat /\ (Last >= 0 => slotsUsed > 0)
    BY NumberFacts
  <2> QED
    BY <1>1, <1>2, <1>5, <1>8, <2>1 DEF Counted
<1>10. Linked(a)'
  <2>1. slotsUsed \in Nat /\ (slotsUsed > 0 <=> Circle # {})
    BY NumberFacts
  <2>2. Last' \in Circle' => startBlock' = Home(a, Last)'
    BY <1>1, <1>2, <1>5, <1>8, <2>1 DEF Linked
  <2>3. startBlock' \in Blocks \union {Null}
    BY <1>1, <1>5, NumberFacts DEF Linked
  <2> QED
    BY <1>1, <1>5, <1>8, <2>2, <2>3 DEF Linked
<1>11. Flagged(a)'
  BY <1>1, <1>2, <1>8, FlagsStill
<1>12. Filled(a)'
  <2>1. Written' = Written
    BY <1>1 DEF Written
  <2>2. \A i : Present(i)' <=> Present(i)
    BY <1>1, <1>8, <2>1 DEF Present
  <2> QED
    BY <1>1, <1>8, <2>2, ContentStill
<1> QED
  BY <1>7, <1>8, <1>9, <1>10, <1>11, <1>12

\* It goes on without reusing a block.
LEMMA NoReuseStep ==
    ASSUME NEW a, IInv(a), NoReuse
    PROVE  IInv(a)'
<1> USE DEF IInv
<1>1. /\ step = "reuse" /\ step' = IF needed = 0 /\ firstAllocated = Null THEN "try" ELSE "alloc"
      /\ UNCHANGED <<tailIndex, headIndex, count, needed, base, startBlock, firstAllocated,
                     tailBlock, next, content, where, index, end, originalFront, originalUsed,
                     readVars, slotsUsed, prFront, flags, owned>>
      /\ indices' = indices
  BY DEF NoReuse, claimVars, callVars, ringVars
<1>2. /\ Last' = Last /\ Last \in Int /\ Found' = Found /\ Added' = Added /\ Top' = Top
      /\ Written' = Written /\ Added \in Nat
  <2>1. Last' = Last /\ Found' = Found /\ Written' = Written /\ Last \in Int /\ Added \in Nat
    BY <1>1, NumberFacts DEF Last, Found, Written
  <2> QED
    BY <1>1, <2>1 DEF Added, Top
<1>3. /\ Claimed' /\ Typed' /\ a \in [DOMAIN indices' -> Int]
      /\ Rings(a)' /\ Reads(a)'
      /\ First' = First /\ Circle' = Circle
      /\ \A k : Home(a, k)' = Home(a, k)
      /\ \A i : Unread(i)' <=> Unread(i)
      /\ \A c \in Consumers : Untaken(c)' = Untaken(c)
  BY <1>1, <1>2, IndexStill, ProducerKeeps
<1>4. Numbers'
  <2>1. step' = "alloc" => needed' + Added' > 0
    <3>1. CASE needed = 0 /\ firstAllocated # Null
      <4>1. Added > 0
        BY <1>2, <3>1 DEF Linked
      <4> QED
        BY <1>1, <1>2, <3>1, <4>1
    <3>2. CASE needed # 0
      BY <1>1, <1>2, <3>2 DEF Numbers
    <3> QED
      BY <1>1, <3>1, <3>2
  <2> QED
    BY <1>1, <1>2, <2>1 DEF Numbers
<1>5. Counted'
  BY <1>1, <1>2, <1>3 DEF Counted
<1>6. Linked(a)'
  BY <1>1, <1>2, <1>3 DEF Linked
<1>7. Flagged(a)'
  <2>1. step' \in {"try", "alloc"}
    BY <1>1
  <2>2. CASE step' = "alloc"
    BY <1>1, <1>2, <1>3, <2>2, FlagsStill
  <2>3. CASE step' = "try"
    <3>1. firstAllocated = Null
      BY <1>1, <2>3
    <3>2. Added = 0
      <4>1. ASSUME Added > 0 PROVE FALSE
        <5>1. Last + 1 \in Circle
          BY <1>2, <4>1, NumberFacts DEF Circle
        <5> QED
          BY <3>1, <4>1, <5>1 DEF Linked, Blocks, Null
      <4> QED
        BY <1>2, <4>1
    <3>3. \A k \in Circle : k <= Last
      BY <1>2, <3>2, NumberFacts DEF Circle
    <3> QED
      BY <1>1, <1>2, <1>3, <3>3, FlagsStill
  <2> QED
    BY <2>1, <2>2, <2>3
<1>8. Filled(a)'
  <2>1. \A i : Present(i)' <=> Present(i)
    BY <1>1, <1>2, <1>3 DEF Present
  <2> QED
    BY <1>1, <1>3, <2>1, ContentStill
<1> QED
  BY <1>3, <1>4, <1>5, <1>6, <1>7, <1>8

\* A call that has added no block has nothing of its own in the circle.
LEMMA NoneFound ==
    ASSUME NEW a, IInv(a), firstAllocated = Null
    PROVE  Added = 0 /\ Top = Last /\ \A k \in Circle : k <= Last
<1> USE DEF IInv
<1>1. ASSUME Added > 0 PROVE FALSE
  <2>1. Last + 1 \in Circle
    BY <1>1, NumberFacts DEF Circle
  <2> QED
    BY <1>1, <2>1 DEF Linked, Blocks, Null
<1>2. Added = 0 /\ Last \in Int
  BY <1>1, NumberFacts
<1> QED
  BY <1>2, NumberFacts DEF Circle

\* Such a call is undone without a trace.
LEMMA UndoStep ==
    ASSUME NEW a, IInv(a), ~KeepsBlocks, step \in {"alloc", "try"}, Undo
    PROVE  IInv(a)'
<1> USE DEF IInv
<1>1. /\ firstAllocated = Null /\ step \in {"alloc", "try"}
      /\ prFront' = originalFront /\ slotsUsed' = originalUsed
      /\ step' = "idle" /\ count' = 0 /\ needed' = 0 /\ base' = 0
      /\ startBlock' = Null /\ firstAllocated' = Null
      /\ originalFront' = 0 /\ originalUsed' = 0
      /\ UNCHANGED <<tailIndex, headIndex, next, content, where, index, end, readVars, flags, owned>>
      /\ indices' = indices
  BY DEF Undo, EndCall, claimVars
<1>2. /\ Added = 0 /\ Top = Last /\ \A k \in Circle : k <= Last
      /\ Last \in Int /\ Last' = Last /\ Added' = 0 /\ Top' = Top
      /\ slotsUsed \in Nat
  <2>1. Added = 0 /\ Top = Last /\ \A k \in Circle : k <= Last
    BY <1>1, NoneFound
  <2>2. Last \in Int /\ slotsUsed \in Nat /\ Last' = Last /\ Added' = 0
    BY <1>1, NumberFacts DEF Last, Added
  <2> QED
    BY <2>1, <2>2 DEF Top
<1>3. UNCHANGED <<slotsUsed, prFront>>
  BY <1>1, <1>2 DEF Counted
<1>4. tailBlock' = tailBlock
  <2>1. startBlock = tailBlock
    BY <1>1, <1>2 DEF Linked
  <2>2. tailBlock' = IF startBlock = Null THEN firstAllocated ELSE startBlock
    BY DEF Undo
  <2> QED
    BY <1>1, <2>1, <2>2
<1>5. /\ Claimed' /\ Typed' /\ a \in [DOMAIN indices' -> Int]
      /\ Rings(a)' /\ Reads(a)'
      /\ First' = First /\ Circle' = Circle
      /\ \A k : Home(a, k)' = Home(a, k)
      /\ \A i : Unread(i)' <=> Unread(i)
      /\ \A c \in Consumers : Untaken(c)' = Untaken(c)
  BY <1>1, <1>2, <1>3, IndexStill, ProducerKeeps
<1>6. Numbers'
  <2>1. tailIndex \in Nat /\ headIndex \in 0..tailIndex /\ tailIndex + 0 <= MaxItems
    BY BlockAssumption DEF Numbers
  <2> QED
    BY <1>1, <1>2, <2>1 DEF Numbers
<1>7. Counted'
  BY <1>1, <1>2, <1>3, <1>5 DEF Counted
<1>8. Linked(a)'
  BY <1>1, <1>2, <1>3, <1>4, <1>5 DEF Linked
<1>9. Flagged(a)'
  BY <1>1, <1>2, <1>5, FlagsStill
<1>10. Filled(a)'
  <2>1. Written' = Written
    BY <1>1 DEF Written
  <2>2. \A i : Present(i)' <=> Present(i)
    BY <1>1, <1>5, <2>1 DEF Present
  <2> QED
    BY <1>1, <1>5, <2>2, ContentStill
<1> QED
  BY <1>5, <1>6, <1>7, <1>8, <1>9, <1>10

\* The blocks a call has found are those after the block of the last item.
LEMMA CallIs ==
    ASSUME NEW a, IInv(a), step # "idle"
    PROVE  /\ DOMAIN CallBlocks = 1..Added
           /\ \A k \in 1..Added : CallBlocks[k] = Home(a, Last + k)
<1> USE DEF IInv
<1>1. /\ Added = Found /\ Added \in Nat /\ Last \in Int /\ First \in Nat /\ First <= Last + 1
      /\ Top = Last + Added
  BY NumberFacts
<1> DEFINE f == [k \in 1..Added |-> Home(a, Last + k)]
<1>2. Added > 0 => f[1] = firstAllocated
  BY <1>1 DEF Linked
<1>3. \A k \in 1..(Added - 1) : f[k + 1] = next[f[k]]
  <2>1. ASSUME NEW k \in 1..(Added - 1) PROVE f[k + 1] = next[f[k]]
    <3>1. PICK l : l = Last + k
      OBVIOUS
    <3>2. l \in First..(Top - 1) /\ Last + (k + 1) = l + 1 /\ k \in 1..Added /\ k + 1 \in 1..Added
      BY <1>1, <3>1
    <3>3. next[Home(a, l)] = Home(a, l + 1)
      BY <3>2 DEF Linked
    <3>4. f[k] = Home(a, l) /\ f[k + 1] = Home(a, l + 1)
      BY <3>1, <3>2
    <3> QED
      BY <3>3, <3>4
  <2> QED
    BY <2>1
<1>4. IsPath(firstAllocated, next, Added, f)
  <2>1. DOMAIN f = 1..Added /\ f = [k \in DOMAIN f |-> f[k]]
    OBVIOUS
  <2> HIDE DEF f
  <2> QED
    BY <1>2, <1>3, <2>1 DEF IsPath
<1>5. CallBlocks = f
  <2> HIDE DEF f
  <2> QED
    BY <1>1, <1>4, PathIs DEF CallBlocks
<1> QED
  BY <1>5

\* The items of a call under way are unread.
LEMMA FutureUnread ==
    ASSUME Numbers, Counted, NEW k \in Int, Last < k
    PROVE  /\ \A i \in Items(k) : i \in Nat /\ tailIndex <= i /\ Unread(i)
           /\ ReadFrom(k) = {}
<1>1. tailIndex \in Nat /\ headIndex \in Nat /\ headIndex <= tailIndex /\ Last \in Int
  BY NumberFacts DEF Numbers
<1>2. ASSUME NEW i \in Items(k) PROVE i \in Nat /\ tailIndex <= i /\ Unread(i)
  <2>1. i \in Int /\ BlockOf(i) = k
    BY ItemsTyped
  <2>2. i <= tailIndex - 1 => k <= Last
    BY <1>1, <2>1, BlockMono DEF Last
  <2>3. tailIndex <= i
    BY <1>1, <2>1, <2>2
  <2> QED
    BY <1>1, <2>1, <2>3 DEF Unread
<1> QED
  BY <1>2 DEF ReadFrom

\* The blocks found are marked full: none of their items is read.
LEMMA ExposeStep ==
    ASSUME NEW a, IInv(a), Expose
    PROVE  IInv(a)'
<1> USE DEF IInv
<1>1. /\ step = "alloc" /\ needed = 0
      /\ (step' = "fill" /\ StoreFront) \/ (step' = "try" /\ indices' = indices)
      /\ flags' = reset_empty({CallBlocks[k] : k \in DOMAIN CallBlocks})
      /\ UNCHANGED <<tailIndex, headIndex, count, needed, base, startBlock, firstAllocated,
                     tailBlock, next, content, where, index, end, originalFront, originalUsed,
                     readVars, slotsUsed, prFront, owned>>
  BY DEF Expose, claimVars, callVars
<1>2. /\ Last' = Last /\ Last \in Int /\ Found' = Found /\ Added' = Added /\ Top' = Top
      /\ Written' = Written /\ Added \in Nat /\ Added > 0 /\ Top = Last + Added /\ Top >= 0
  <2>1. Last' = Last /\ Found' = Found /\ Written' = Written
    BY <1>1 DEF Last, Found, Written
  <2>2. Added > 0 /\ Added \in Nat /\ Last \in Int /\ -1 <= Last /\ Top = Last + Added
    BY <1>1, NumberFacts DEF Numbers
  <2> QED
    BY <1>1, <2>1, <2>2 DEF Added, Top
<1>3. SameRings
  BY <1>1, <1>2, FrontStored, IndexStill
<1>4. Last' >= 0 => Last >= 0 \/ IsEntry(Len(indices), indices[Len(indices)].front)'
  BY <1>2
<1>5. /\ Claimed' /\ Typed' /\ a \in [DOMAIN indices' -> Int]
      /\ Rings(a)' /\ Reads(a)'
      /\ First' = First /\ Circle' = Circle
      /\ \A k : Home(a, k)' = Home(a, k)
      /\ \A i : Unread(i)' <=> Unread(i)
      /\ \A c \in Consumers : Untaken(c)' = Untaken(c)
  BY <1>1, <1>2, <1>3, <1>4, ProducerKeeps
<1>6. Numbers'
  BY <1>1, <1>2 DEF Numbers
<1>7. Counted'
  BY <1>1, <1>2, <1>5 DEF Counted
<1>8. Linked(a)'
  BY <1>1, <1>2, <1>5 DEF Linked
<1>9. Flagged(a)'
  <2> DEFINE S == {CallBlocks[k] : k \in DOMAIN CallBlocks}
  <2>1. \A k \in Circle : Home(a, k) \in S <=> Last < k
    <3>1. S = {Home(a, Last + k) : k \in 1..Added}
      BY <1>1, CallIs
    <3>2. ASSUME NEW k \in Circle, Last < k PROVE Home(a, k) \in S
      <4>1. k - Last \in 1..Added /\ Last + (k - Last) = k
        BY <1>2, <3>2 DEF Circle
      <4> QED
        BY <3>1, <4>1
    <3>3. ASSUME NEW k \in Circle, NEW l \in 1..Added, Home(a, k) = Home(a, Last + l) PROVE Last < k
      <4>1. Last + l \in Circle /\ Last < Last + l
        BY <1>2, NumberFacts DEF Circle
      <4>2. k = Last + l
        BY <3>3, <4>1 DEF Linked
      <4> QED
        BY <4>1, <4>2
    <3> QED
      BY <3>1, <3>2, <3>3
  <2> HIDE DEF S
  <2>2. /\ flags' = [b \in Blocks |-> IF b \in S THEN {} ELSE flags[b]]
        /\ flags \in [Blocks -> SUBSET Offsets]
    BY <1>1 DEF reset_empty, S, Flagged
  <2>3. flags' \in [Blocks -> SUBSET Offsets]
    BY <2>2
  <2>4. \A k \in Int : Items(k)' = Items(k) /\ ReadFrom(k)' = ReadFrom(k)
    <3>1. \A k : Items(k)' = Items(k)
      BY DEF Items
    <3> QED
      BY <1>5, <3>1 DEF ReadFrom
  <2>5. ASSUME NEW k \in Circle PROVE flags'[Home(a, k)'] = ReadFrom(k)'
    <3>1. Home(a, k) \in Blocks /\ k \in Int /\ Home(a, k)' = Home(a, k)
      BY <1>5, NumberFacts DEF Linked
    <3>2. CASE Last < k
      BY <2>1, <2>2, <2>4, <3>1, <3>2, FutureUnread
    <3>3. CASE ~(Last < k)
      <4>1. flags[Home(a, k)] = ReadFrom(k)
        BY <1>2, <3>1, <3>3 DEF Flagged
      <4> QED
        BY <2>1, <2>2, <2>4, <3>1, <3>3, <4>1
    <3> QED
      BY <3>2, <3>3
  <2>6. \A k \in 0..(First - 1) : \A i \in Items(k)' : ~Unread(i)'
    <3>1. \A k \in 0..(First - 1) : k \in Int
      BY NumberFacts
    <3> QED
      BY <1>5, <2>4, <3>1 DEF Flagged
  <2>7. Offsets' = Offsets /\ step' \in {"fill", "try", "publish"}
    BY <1>1 DEF Offsets
  <2> QED
    BY <1>5, <2>3, <2>5, <2>6, <2>7 DEF Flagged
<1>10. Filled(a)'
  <2>1. \A i : Present(i)' <=> Present(i)
    BY <1>1, <1>2, <1>5 DEF Present
  <2> QED
    BY <1>1, <1>5, <2>1, ContentStill
<1> QED
  BY <1>5, <1>6, <1>7, <1>8, <1>9, <1>10

\* A call puts its items in blocks of the circle, where no item is.
LEMMA TargetIs ==
    ASSUME NEW a, IInv(a), step \in {"fill", "try"}, NEW i \in NewItems
    PROVE  /\ i \in Nat /\ BlockOf(i) \in Circle /\ BlockOf(i) \in Nat
           /\ Target(i) = Home(a, BlockOf(i)) /\ Target(i) \in Blocks
           /\ ~Present(i) /\ i < MaxItems /\ Unread(i)
<1> USE DEF IInv
<1>1. PICK k : k = BlockOf(i)
  OBVIOUS
<1>2. /\ tailIndex \in Nat /\ count \in Nat /\ headIndex \in 0..tailIndex
      /\ tailIndex + count <= MaxItems /\ MaxItems \in Nat
      /\ i \in Nat /\ tailIndex <= i /\ i <= tailIndex + count - 1 /\ i < MaxItems
  <2>1. tailIndex \in Nat /\ count \in Nat /\ headIndex \in 0..tailIndex
        /\ tailIndex + count <= MaxItems /\ MaxItems \in Nat
    BY BlockAssumption DEF Numbers
  <2>2. i \in tailIndex..(tailIndex + count - 1)
    BY DEF NewItems
  <2> QED
    BY <2>1, <2>2
<1>3. /\ Last \in Int /\ Added \in Nat /\ Top = Last + Added
      /\ Top = BlockOf(tailIndex + count - 1)
  <2>1. needed = 0 /\ Added = Found /\ Added \in Nat /\ needed + Found = BlockOf(tailIndex + count - 1) - Last
    BY NumberFacts DEF Numbers
  <2>2. BlockOf(tailIndex + count - 1) \in Int
    BY <1>2, BlockTyped
  <2> QED
    BY <2>1, <2>2, NumberFacts
<1>4. k \in Nat /\ Last <= k /\ k <= Top
  <2>1. k \in Nat /\ tailIndex - 1 \in Int /\ tailIndex - 1 <= i /\ tailIndex + count - 1 \in Int
    BY <1>1, <1>2, BlockNat
  <2> QED
    BY <1>1, <1>2, <1>3, <2>1, BlockMono DEF Last
<1>5. Unread(i) /\ k \in Circle
  <2>1. Unread(i)
    BY <1>2 DEF Unread
  <2>2. First <= k /\ First \in Nat
    BY <1>1, <1>2, <2>1, UnreadAhead, NumberFacts
  <2> QED
    BY <1>3, <1>4, <2>1, <2>2 DEF Circle
<1>6. Target(i) = Home(a, k)
  <2>1. CASE k = Last
    <3>1. Target(i) = startBlock
      BY <1>1, <1>3, <2>1 DEF Target, Last
    <3> QED
      BY <1>5, <2>1, <3>1 DEF Linked
  <2>2. CASE k # Last
    <3>1. PICK l : l = k - Last
      OBVIOUS
    <3>2. l \in 1..Added /\ l # 0 /\ k = Last + l
      BY <1>3, <1>4, <2>2, <3>1
    <3>3. Target(i) = CallBlocks[l]
      BY <1>1, <3>1, <3>2 DEF Target, Last
    <3> QED
      BY <3>2, <3>3, CallIs
  <2> QED
    BY <2>1, <2>2
<1>7. ~Present(i)
  <2>1. Written = tailIndex
    BY <1>2 DEF Written
  <2>2. \A c \in Consumers : i \notin Untaken(c)
    <3>1. \A c \in Consumers : i \in Pending(c) => i < headIndex
      BY ClaimFacts
    <3> QED
      BY <1>2, <3>1 DEF Untaken
  <2> QED
    BY <1>2, <2>1, <2>2 DEF Present
<1> QED
  BY <1>1, <1>2, <1>4, <1>5, <1>6, <1>7 DEF Linked

\* The items constructed are present from then on.
LEMMA FillStep ==
    ASSUME NEW a, IInv(a), Fill
    PROVE  IInv(a)'
<1> USE DEF IInv
<1>1. /\ step \in {"fill", "try"} /\ step' = "publish"
      /\ content' = [b \in Blocks |-> [o \in Offsets |->
             IF \E i \in NewItems : Target(i) = b /\ i % BLOCK_SIZE = o
             THEN CHOOSE i \in NewItems : Target(i) = b /\ i % BLOCK_SIZE = o
             ELSE content[b][o]]]
      /\ UNCHANGED <<tailIndex, headIndex, count, needed, base, startBlock, firstAllocated,
                     tailBlock, next, where, index, end, originalFront, originalUsed,
                     readVars, slotsUsed, prFront, flags, owned>>
      /\ indices' = indices
  BY DEF Fill, ConstructItems, claimVars, ringVars, callVars
<1>2. /\ Last' = Last /\ Last \in Int /\ Found' = Found /\ Added' = Added /\ Top' = Top
  <2>1. Last' = Last /\ Found' = Found /\ Last \in Int
    BY <1>1, NumberFacts DEF Last, Found
  <2> QED
    BY <1>1, <2>1 DEF Added, Top
<1>3. /\ Claimed' /\ Typed' /\ a \in [DOMAIN indices' -> Int]
      /\ Rings(a)' /\ Reads(a)'
      /\ First' = First /\ Circle' = Circle
      /\ \A k : Home(a, k)' = Home(a, k)
      /\ \A i : Unread(i)' <=> Unread(i)
      /\ \A c \in Consumers : Untaken(c)' = Untaken(c)
  BY <1>1, <1>2, IndexStill, ProducerKeeps
<1>4. Numbers'
  BY <1>1, <1>2 DEF Numbers
<1>5. Counted'
  BY <1>1, <1>2, <1>3 DEF Counted
<1>6. Linked(a)'
  BY <1>1, <1>2, <1>3 DEF Linked
<1>7. Flagged(a)'
  BY <1>1, <1>2, <1>3, FlagsStill
<1>11. \A i \in Int : Present(i)' <=> Present(i) \/ i \in NewItems
  <2>1. tailIndex \in Nat /\ count \in Nat /\ headIndex \in 0..tailIndex
    BY DEF Numbers
  <2>2. Written = tailIndex /\ Written' = tailIndex + count
    BY <1>1, <2>1 DEF Written
  <2>3. \A i \in Int : i \in headIndex..(tailIndex + count - 1)
                       <=> i \in headIndex..(tailIndex - 1) \/ i \in tailIndex..(tailIndex + count - 1)
    BY <2>1
  <2>4. ASSUME NEW i \in Int PROVE Present(i)' <=> Present(i) \/ i \in NewItems
    <3>1. Present(i) <=> i \in headIndex..(tailIndex - 1) \/ \E c \in Consumers : i \in Untaken(c)
      BY <2>2 DEF Present
    <3>2. Present(i)' <=> i \in headIndex..(tailIndex + count - 1) \/ \E c \in Consumers : i \in Untaken(c)
      <4>1. (\E c \in Consumers : i \in Untaken(c))' <=> \E c \in Consumers : i \in Untaken(c)
        BY <1>3
      <4>2. headIndex'..(Written' - 1) = headIndex..(tailIndex + count - 1)
        <5>1. headIndex' = headIndex
          BY <1>1
        <5>2. Written' - 1 = tailIndex + count - 1
          BY <2>1, <2>2
        <5> QED
          BY <5>1, <5>2
      <4> QED
        BY <4>1, <4>2 DEF Present
    <3> QED
      BY <2>3, <3>1, <3>2 DEF NewItems
  <2> QED
    BY <2>4
<1>12. ASSUME NEW i \in NewItems, NEW k \in Circle, NEW j \in Items(k),
              Target(i) = Home(a, k), i % BLOCK_SIZE = j % BLOCK_SIZE
       PROVE  i = j
  <2>1. i \in Int /\ BlockOf(i) \in Circle /\ Target(i) = Home(a, BlockOf(i))
    BY <1>1, TargetIs
  <2>2. BlockOf(i) = k /\ k \in Int
    <3>1. \A l \in Circle : Home(a, l) = Home(a, k) => l = k
      BY DEF Linked
    <3>2. k \in Int
      BY NumberFacts
    <3> QED
      BY <1>12, <2>1, <3>1, <3>2
  <2>3. i = k * BLOCK_SIZE + (i % BLOCK_SIZE) /\ j = k * BLOCK_SIZE + (j % BLOCK_SIZE)
    BY <2>1, <2>2, BlockTyped, ItemsTyped
  <2> QED
    BY <1>12, <2>3
<1>13. ASSUME NEW b \in Blocks, NEW o \in Offsets
       PROVE  content'[b][o] = IF \E i \in NewItems : Target(i) = b /\ i % BLOCK_SIZE = o
                               THEN CHOOSE i \in NewItems : Target(i) = b /\ i % BLOCK_SIZE = o
                               ELSE content[b][o]
  BY <1>1
<1>14. ASSUME NEW k \in Circle, NEW j \in Items(k)
       PROVE  content'[Home(a, k)][j % BLOCK_SIZE] = IF Present(j)' THEN j ELSE Nothing
  <2>1. Home(a, k) \in Blocks /\ j % BLOCK_SIZE \in Offsets /\ j \in Int /\ k \in Int /\ BlockOf(j) = k
    <3>1. k \in Int
      BY NumberFacts
    <3> QED
      BY <3>1, ItemsTyped DEF Linked
  <2>2. content[Home(a, k)][j % BLOCK_SIZE] = IF Present(j) THEN j ELSE Nothing
    BY DEF Filled
  <2>3. CASE j \in NewItems
    <3>1. Target(j) = Home(a, k) /\ Present(j)'
      BY <1>1, <1>11, <2>1, <2>3, TargetIs
    <3>2. \A i \in NewItems : Target(i) = Home(a, k) /\ i % BLOCK_SIZE = j % BLOCK_SIZE => i = j
      BY <1>12
    <3>3. (CHOOSE i \in NewItems : Target(i) = Home(a, k) /\ i % BLOCK_SIZE = j % BLOCK_SIZE) = j
      BY <2>3, <3>1, <3>2
    <3> QED
      BY <1>13, <2>1, <2>3, <3>1, <3>3
  <2>4. CASE j \notin NewItems
    <3>1. ~\E i \in NewItems : Target(i) = Home(a, k) /\ i % BLOCK_SIZE = j % BLOCK_SIZE
      BY <1>12, <2>4
    <3>2. content'[Home(a, k)][j % BLOCK_SIZE] = content[Home(a, k)][j % BLOCK_SIZE]
      BY <1>13, <2>1, <3>1
    <3> QED
      BY <1>11, <2>1, <2>2, <2>4, <3>2
  <2> QED
    BY <2>3, <2>4
<1>15. Filled(a)'
  <2>2. content' \in [Blocks -> [Offsets -> Int]]
    <3>1. ASSUME NEW b \in Blocks, NEW o \in Offsets PROVE content'[b][o] \in Int
      <4>1. CASE \E i \in NewItems : Target(i) = b /\ i % BLOCK_SIZE = o
        <5>1. (CHOOSE i \in NewItems : Target(i) = b /\ i % BLOCK_SIZE = o) \in NewItems
          BY <4>1
        <5> QED
          BY <1>1, <1>13, <4>1, <5>1, TargetIs
      <4>2. CASE ~\E i \in NewItems : Target(i) = b /\ i % BLOCK_SIZE = o
        BY <1>13, <4>2 DEF Filled
      <4> QED
        BY <4>1, <4>2
    <3> QED
      BY <1>1, <3>1
  <2>3. ASSUME NEW b \in Blocks \ owned, NEW o \in Offsets PROVE content'[b][o] = Nothing
    <3>1. ASSUME NEW i \in NewItems, Target(i) = b PROVE FALSE
      BY <1>1, <3>1, TargetIs DEF Linked
    <3> QED
      BY <1>13, <3>1 DEF Filled
  <2>4. \A k : Items(k)' = Items(k)
    BY DEF Items
  <2>6. \A k \in Circle : \A j \in Items(k) :
           content'[Home(a, k)'][j % BLOCK_SIZE] = IF Present(j)' THEN j ELSE Nothing
    BY <1>3, <1>14
  <2> QED
    BY <1>1, <1>3, <2>2, <2>3, <2>4, <2>6 DEF Filled
<1> QED
  BY <1>3, <1>4, <1>5, <1>6, <1>7, <1>15

\* With the tail, the call's blocks join those of the calls before.
LEMMA PublishStep ==
    ASSUME NEW a, IInv(a), Publish
    PROVE  IInv(a)'
<1> USE DEF IInv
<1>1. /\ step = "publish" /\ tailIndex' = tailIndex + count
      /\ step' = "idle" /\ count' = 0 /\ needed' = 0 /\ base' = 0
      /\ startBlock' = Null /\ firstAllocated' = Null
      /\ originalFront' = 0 /\ originalUsed' = 0
      /\ UNCHANGED <<headIndex, tailBlock, next, content, where, index, end, readVars,
                     slotsUsed, prFront, flags, owned>>
      /\ IF firstAllocated = Null THEN indices' = indices ELSE StoreFront
  BY DEF Publish, PublishItems, Claims!Publish, EndCall
<1>2. /\ Last \in Int /\ -1 <= Last /\ Added \in Nat /\ Top = Last + Added /\ Top \in Int
      /\ Top = BlockOf(tailIndex + count - 1)
      /\ tailIndex \in Nat /\ count \in Nat /\ headIndex \in 0..tailIndex
      /\ tailIndex + count <= MaxItems
  <2>1. needed = 0 /\ Added = Found /\ Added \in Nat /\ needed + Found = BlockOf(tailIndex + count - 1) - Last
    BY <1>1, NumberFacts DEF Numbers
  <2>2. BlockOf(tailIndex + count - 1) \in Int
    BY BlockTyped DEF Numbers
  <2> QED
    BY <1>1, <2>1, <2>2, NumberFacts DEF Numbers
<1>3. /\ Last' = Top /\ Added' = 0 /\ Top' = Top /\ Written' = Written
      /\ Last' \in Int /\ Last <= Last'
  <2>1. Last' = Top
    BY <1>1, <1>2 DEF Last
  <2>2. Added' = 0
    BY <1>1 DEF Added
  <2>3. Written' = Written
    BY <1>1, <1>2 DEF Written
  <2>4. Top' = Last' + Added'
    BY DEF Top
  <2> QED
    BY <1>2, <2>1, <2>2, <2>3, <2>4
<1>4. /\ SameRings
      /\ Last' >= 0 => Last >= 0 \/ IsEntry(Len(indices), indices[Len(indices)].front)'
  <2>1. CASE firstAllocated = Null
    <3>1. Top = Last /\ indices' = indices
      BY <1>1, <2>1, NoneFound
    <3> QED
      BY <1>3, <3>1, IndexStill
  <2>2. CASE firstAllocated # Null
    <3>1. Top >= 0 /\ StoreFront
      BY <1>1, <1>2, <2>2 DEF Linked
    <3> QED
      BY <3>1, FrontStored
  <2> QED
    BY <2>1, <2>2
<1>5. /\ Claimed' /\ Typed' /\ a \in [DOMAIN indices' -> Int]
      /\ Rings(a)' /\ Reads(a)'
      /\ First' = First /\ Circle' = Circle
      /\ \A k : Home(a, k)' = Home(a, k)
      /\ \A i : Unread(i)' <=> Unread(i)
      /\ \A c \in Consumers : Untaken(c)' = Untaken(c)
  BY <1>1, <1>3, <1>4, ProducerKeeps
<1>6. Numbers'
  <2>1. tailIndex' \in Nat /\ headIndex' \in 0..tailIndex' /\ tailIndex' + count' <= MaxItems
    BY <1>1, <1>2
  <2> QED
    BY <1>1, <1>3, <2>1 DEF Numbers
<1>7. Counted'
  BY <1>1, <1>3, <1>5 DEF Counted
<1>8. Linked(a)'
  BY <1>1, <1>3, <1>5 DEF Linked
<1>9. Flagged(a)'
  <2>1. \A k \in Circle : k <= Last'
    BY <1>2, <1>3, NumberFacts DEF Circle
  <2> QED
    BY <1>1, <1>5, <2>1, FlagsStill
<1>10. Filled(a)'
  <2>1. \A i : Present(i)' <=> Present(i)
    BY <1>1, <1>3, <1>5 DEF Present
  <2> QED
    BY <1>1, <1>5, <2>1, ContentStill
<1> QED
  BY <1>5, <1>6, <1>7, <1>8, <1>9, <1>10

(***************************************************************************)
(* The producer, where it writes an entry.                                 *)
(***************************************************************************)
\* The next slot becomes that of the next number; those of the numbers before it are as
\* they were, as far back as the ring reaches.
LEMMA EntryWritten ==
    ASSUME NEW a, IInv(a), NEW b \in Blocks, step \in {"reuse", "alloc"}, WriteEntry(b)
    PROVE  /\ Typed' /\ Len(indices') = Len(indices) /\ DOMAIN indices' = DOMAIN indices
           /\ \A j \in DOMAIN indices :
                 indices'[j].size = indices[j].size /\ indices'[j].front = indices[j].front
           /\ \A j \in DOMAIN indices : \A p : IsEntry(j, p) => IsEntry(j, p)'
           /\ \A j \in DOMAIN indices : j # Len(indices) =>
                 \A k : EntryIn(a, j, k)' = EntryIn(a, j, k)
           /\ \A k \in Int : Top + 1 - current.size < k /\ k <= Top => Entry(a, k)' = Entry(a, k)
           /\ \A k \in Int : k = Top + 1 => Entry(a, k)' = [base |-> k * BLOCK_SIZE, block |-> b]
           /\ \A j \in DOMAIN indices : \A p \in 0..(indices[j].size - 1) : IsEntry(j, p)' =>
                 (BlockOf(indices'[j].entries[p].base) + a[j]) % indices[j].size = p
           /\ prFront' = (Top + 2 + a[Len(indices)]) % current.size
<1> USE DEF IInv
<1>0. PICK J, n, N, d, new, ents, h :
        /\ J = Len(indices) /\ n = current.size /\ N = Top + 1 /\ d = a[J]
        /\ new = [base |-> N * BLOCK_SIZE, block |-> b]
        /\ ents = [current.entries EXCEPT ![prFront] = new]
        /\ h = [current EXCEPT !.entries = ents]
  OBVIOUS
<1>1. /\ J \in Nat \ {0} /\ DOMAIN indices = 1..J /\ J \in 1..J /\ current = indices[J]
      /\ n \in Nat \ {0} /\ d \in Int /\ current \in AnyRing
      /\ current.entries \in [0..(n - 1) -> [base : Int, block : Blocks \union {Null}]]
  BY <1>0, RingFacts
<1>2. /\ Top \in Int /\ N \in Int /\ N * BLOCK_SIZE \in Int /\ BlockOf(N * BLOCK_SIZE) = N
      /\ base + BLOCK_SIZE = N * BLOCK_SIZE
  <2>0. step # "idle"
    OBVIOUS
  <2>1. Top \in Int /\ N \in Int /\ Last \in Int /\ Top = Last + Added /\ Added = Found
        /\ base = (Last + Found) * BLOCK_SIZE
    <3>1. Top \in Int /\ Last \in Int /\ Top = Last + Added /\ Added = Found
      BY <2>0, NumberFacts
    <3>2. base = (Last + Found) * BLOCK_SIZE
      BY <2>0 DEF Numbers
    <3> QED
      BY <1>0, <3>1, <3>2
  <2>2. base = Top * BLOCK_SIZE
    BY <2>1
  <2>3. (Top + 1) * BLOCK_SIZE = Top * BLOCK_SIZE + BLOCK_SIZE
    BY <2>1, BlockFirst
  <2> QED
    BY <1>0, <2>1, <2>2, <2>3, BlockFirst
<1>3. prFront = (N + d) % n /\ prFront \in 0..(n - 1)
  <2>1. PICK x : x = N + d
    OBVIOUS
  <2>2. x \in Int
    BY <1>1, <1>2, <2>1
  <2>3. x % n \in 0..(n - 1)
    BY <1>1, <2>2, Division
  <2>4. prFront = x % n
    BY <1>0, <2>1 DEF Rings
  <2> QED
    BY <2>1, <2>3, <2>4
<1>4. new \in [base : Int, block : Blocks \union {Null}] /\ new.block = b /\ new.base = N * BLOCK_SIZE
  BY <1>0, <1>2
<1>5. /\ ents \in [0..(n - 1) -> [base : Int, block : Blocks \union {Null}]]
      /\ ents[prFront] = new
      /\ \A p \in 0..(n - 1) : p # prFront => ents[p] = current.entries[p]
  BY <1>0, <1>1, <1>3, <1>4
<1>6. PICK s \in Nat \ {0} : current \in RingOf(s)
  BY <1>1 DEF AnyRing
<1>7. /\ s = n /\ h \in RingOf(n) /\ h.size = n /\ h.front = current.front /\ h.entries = ents
  <2>1. s = n
    BY <1>0, <1>6 DEF RingOf
  <2> QED
    BY <1>0, <1>5, <1>6, <2>1 DEF RingOf
<1>8. h \in AnyRing
  BY <1>1, <1>7 DEF AnyRing
<1>9. indices' = [indices EXCEPT ![J] = h]
  <2>1. indices' = [indices EXCEPT ![J].entries[prFront] = new]
    BY <1>0, <1>2 DEF WriteEntry
  <2> QED
    BY <1>0, <1>1, <2>1
<1>10. indices' \in Seq(AnyRing) /\ Len(indices') = J /\ DOMAIN indices' = 1..J
  BY <1>1, <1>8, <1>9 DEF Typed
<1>11. indices'[J] = h /\ \A j \in 1..J : j # J => indices'[j] = indices[j]
  BY <1>1, <1>9
<1>12. Typed'
  BY <1>1, <1>10 DEF Typed
<1>13. \A j \in 1..J : indices'[j].size = indices[j].size /\ indices'[j].front = indices[j].front
  BY <1>0, <1>1, <1>7, <1>11
<1>14. ASSUME NEW j \in 1..J, NEW p, IsEntry(j, p) PROVE IsEntry(j, p)'
  <2>1. CASE j # J
    BY <1>11, <1>14, <2>1 DEF IsEntry
  <2>2. CASE j = J
    <3>1. p \in 0..(n - 1) /\ current.entries[p].block # Null
      BY <1>0, <1>1, <1>14, <2>2 DEF IsEntry
    <3>2. ents[p].block # Null
      BY <1>4, <1>5, <3>1 DEF Blocks, Null
    <3> QED
      BY <1>7, <1>11, <2>2, <3>1, <3>2 DEF IsEntry
  <2> QED
    BY <2>1, <2>2
<1>15. \A j \in 1..J : j # J => \A k : EntryIn(a, j, k)' = EntryIn(a, j, k)
  BY <1>11 DEF EntryIn
<1>16. ASSUME NEW k \in Int
       PROVE  Entry(a, k)' = IF (k + d) % n = (N + d) % n THEN new ELSE Entry(a, k)
  <2>1. (k + d) % n \in 0..(n - 1)
    <3>1. k + d \in Int
      BY <1>1
    <3> QED
      BY <1>1, <3>1, Division
  <2>2. Entry(a, k)' = ents[(k + d) % n]
    BY <1>0, <1>7, <1>10, <1>11 DEF Entry, EntryIn
  <2>3. Entry(a, k) = current.entries[(k + d) % n]
    BY <1>0, <1>1 DEF Entry, EntryIn
  <2> QED
    BY <1>3, <1>5, <2>1, <2>2, <2>3
<1>17. ASSUME NEW k \in Int, Top + 1 - n < k, k <= Top PROVE Entry(a, k)' = Entry(a, k)
  <2>1. k # N /\ k - N < n /\ N - k < n
    BY <1>0, <1>1, <1>2, <1>17
  <2>2. (k + d) % n # (N + d) % n
    BY <1>0, <1>1, <1>2, <2>1, EntryFacts
  <2> QED
    BY <1>16, <2>2
<1>18. Entry(a, N)' = new
  BY <1>2, <1>16
<1>19. ASSUME NEW j \in 1..J, NEW p \in 0..(indices[j].size - 1), IsEntry(j, p)'
       PROVE  (BlockOf(indices'[j].entries[p].base) + a[j]) % indices[j].size = p
  <2>1. CASE j # J
    <3>1. IsEntry(j, p) /\ indices'[j] = indices[j]
      BY <1>11, <1>19, <2>1 DEF IsEntry
    <3> QED
      BY <1>1, <3>1 DEF Rings
  <2>2. CASE j = J /\ p = prFront
    <3>1. indices'[j].entries[p].base = N * BLOCK_SIZE
      BY <1>4, <1>5, <1>7, <1>11, <2>2
    <3> QED
      BY <1>0, <1>1, <1>2, <1>3, <2>2, <3>1
  <2>3. CASE j = J /\ p # prFront
    <3>0. p \in 0..(n - 1) /\ indices[j] = current /\ indices'[j] = h
      BY <1>0, <1>1, <1>11, <2>3
    <3>1. p \in 0..(n - 1) /\ indices'[j].entries[p] = indices[j].entries[p]
      BY <1>5, <1>7, <2>3, <3>0
    <3>2. IsEntry(j, p)
      BY <1>0, <1>1, <1>19, <2>3, <3>1 DEF IsEntry
    <3> QED
      BY <1>1, <3>1, <3>2 DEF Rings
  <2> QED
    BY <2>1, <2>2, <2>3
<1>20. prFront' = (Top + 2 + d) % n
  <2>1. PICK x, y : x = N + d /\ y = 1
    OBVIOUS
  <2>2. x \in Int /\ y \in Int /\ x + y = Top + 2 + d
    BY <1>0, <1>1, <1>2, <2>1
  <2>3. ((x % n) + y) % n = (x + y) % n
    BY <1>1, <2>2, ModSum
  <2>4. prFront' = ((x % n) + y) % n
    BY <1>0, <1>3, <2>1 DEF WriteEntry
  <2> QED
    BY <2>2, <2>3, <2>4
<1> QED
  BY <1>0, <1>1, <1>10, <1>12, <1>13, <1>14, <1>15, <1>17, <1>18, <1>19, <1>20

\* An entry for one more number, with the numbers from f on kept in the circle.
Extended(f) ==
    /\ slotsUsed' \in Nat \ {0} /\ slotsUsed' <= current.size /\ originalUsed <= slotsUsed'
    /\ f \in Nat /\ f = Top + 2 - slotsUsed' /\ First <= f /\ f <= Last + 1
    /\ \A k \in 0..(f - 1) : \A i \in Items(k) : ~Unread(i)

\* What the entry changes for the circle, the rings and their readers: the slot it
\* takes is one that nobody will read.
LEMMA WriteStep ==
    ASSUME NEW a, IInv(a), NEW b \in Blocks, step \in {"reuse", "alloc"}, needed > 0, WriteEntry(b),
           NEW f, Extended(f)
    PROVE  /\ Numbers' /\ Counted' /\ Claimed' /\ Typed' /\ a \in [DOMAIN indices' -> Int]
           /\ Rings(a)' /\ Reads(a)'
           /\ Last' = Last /\ Top' = Top + 1 /\ First' = f /\ Circle' = f..(Top + 1)
           /\ Added' = Added + 1 /\ (Added = 0 <=> firstAllocated = Null)
           /\ \A k \in f..Top : Home(a, k)' = Home(a, k)
           /\ \A k \in Int : k = Top + 1 => Home(a, k)' = b
           /\ \A i : Unread(i)' <=> Unread(i)
           /\ \A i : Present(i)' <=> Present(i)
<1>i. /\ Numbers /\ Counted /\ Claimed /\ Typed /\ a \in [DOMAIN indices -> Int]
      /\ Rings(a) /\ Reads(a) /\ Linked(a) /\ Flagged(a) /\ Filled(a)
  BY DEF IInv
<1>0. PICK J, n, N : J = Len(indices) /\ n = current.size /\ N = Top + 1
  OBVIOUS
<1>1. /\ base' = base + BLOCK_SIZE /\ needed' = needed - 1 /\ tailBlock' = b
      /\ firstAllocated' = IF firstAllocated = Null THEN b ELSE firstAllocated
      /\ UNCHANGED <<tailIndex, headIndex, step, count, startBlock, content, where, index, end,
                     originalFront, originalUsed, local, front, slot, block>>
  BY <1>i DEF WriteEntry, FoundBlock, claimVars, readVars
<1>2. /\ Last \in Int /\ -1 <= Last /\ Added \in Nat /\ Added = Found /\ Top = Last + Added
      /\ Top \in Int /\ N \in Int /\ First \in Nat /\ slotsUsed \in Nat /\ step # "idle"
  <2>1. step # "idle"
    OBVIOUS
  <2>2. /\ Last \in Int /\ -1 <= Last /\ Added \in Nat /\ Added = Found /\ Top = Last + Added
        /\ Top \in Int /\ First \in Nat /\ slotsUsed \in Nat
    BY <1>i, <2>1, NumberFacts
  <2>3. N \in Int
    BY <1>0, <2>2
  <2> QED
    BY <2>1, <2>2, <2>3
<1>r. J \in DOMAIN indices /\ n \in Nat \ {0} /\ a[J] \in Int /\ current = indices[J]
  BY <1>i, <1>0, RingFacts
<1>e. /\ slotsUsed' \in Nat \ {0} /\ slotsUsed' <= n /\ originalUsed <= slotsUsed'
      /\ f \in Nat /\ f = Top + 2 - slotsUsed' /\ First <= f /\ f <= Last + 1
  BY <1>i, <1>0 DEF Extended
<1>3. /\ base' = N * BLOCK_SIZE /\ base' \in Int /\ BlockOf(base') = N
  <2>1. base = Top * BLOCK_SIZE
    BY <1>i, <1>2 DEF Numbers
  <2>2. (Top + 1) * BLOCK_SIZE = Top * BLOCK_SIZE + BLOCK_SIZE
    BY <1>2, BlockFirst
  <2> QED
    BY <1>0, <1>1, <1>2, <2>1, <2>2, BlockFirst
<1>4. /\ Last' = Last /\ Found' = Added + 1 /\ Added' = Added + 1 /\ Top' = N
      /\ First' = f /\ Circle' = f..N /\ Written' = Written
  <2>1. Last' = Last /\ Written' = Written
    BY <1>i, <1>1 DEF Last, Written
  <2>2. Found' = Added + 1
    <3>1. Found' = N - Last
      BY <1>i, <1>1, <1>3, <2>1 DEF Found, Last
    <3> QED
      BY <1>0, <1>2, <3>1
  <2>3. Added' = Added + 1
    BY <1>i, <1>1, <1>2, <2>2 DEF Added
  <2>4. Top' = N
    BY <1>i, <1>0, <1>2, <2>1, <2>3 DEF Top
  <2>5. First' = f
    BY <1>i, <1>0, <1>2, <1>e, <2>4 DEF First
  <2> QED
    BY <1>i, <2>1, <2>2, <2>3, <2>4, <2>5 DEF Circle
<1>5. Numbers'
  <2>1. needed' \in Nat /\ needed' + (Added + 1) = needed + Added /\ needed \in Nat
    BY <1>i, <1>1, <1>2 DEF Numbers
  <2>2. base' = (Last + (Added + 1)) * BLOCK_SIZE
    BY <1>0, <1>2, <1>3
  <2>3. needed + Added = BlockOf(tailIndex + count - 1) - Last
    BY <1>i, <1>2 DEF Numbers
  <2>4. needed' + Added' > 0 /\ Added + 1 \in Nat
    <3>1. PICK x, y : x = needed' /\ y = Added'
      OBVIOUS
    <3>2. Added \in Nat /\ y = Added + 1 /\ x \in Nat
      BY <1>2, <1>4, <2>1, <3>1
    <3>3. x + y > 0 /\ Added + 1 \in Nat
      BY <3>2
    <3> QED
      BY <3>1, <3>3
  <2> QED
    BY <1>i, <1>1, <1>2, <1>3, <1>4, <2>1, <2>2, <2>3, <2>4 DEF Numbers
<1>6. Counted'
  <2>1. originalUsed \in 0..slotsUsed' /\ (Last >= 0 => originalUsed > 0)
    BY <1>i, <1>2, <1>e DEF Counted
  <2>2. Added' # 0
    BY <1>2, <1>4
  <2> QED
    BY <1>i, <1>1, <1>2, <1>e, <1>4, <2>1, <2>2 DEF Counted
<1>7. /\ Claimed' /\ \A c : Pending(c)' = Pending(c) /\ At(c)' = At(c)
      /\ \A i : Unread(i)' <=> Unread(i)
      /\ \A c \in Consumers : Untaken(c)' = Untaken(c)
  <2>1. \A c : Pending(c)' = Pending(c) /\ At(c)' = At(c)
    BY <1>i, <1>1, SameClaims
  <2>2. \A i : Unread(i)' <=> Unread(i)
    BY <1>i, <1>1, SameClaims
  <2>3. \A c \in Consumers : Untaken(c)' = Untaken(c)
    BY <1>i, <1>1, <2>1 DEF Untaken
  <2> QED
    BY <1>i, <1>1, <2>1, <2>2, <2>3 DEF Claimed
<1>8. \A i : Present(i)' <=> Present(i)
  BY <1>i, <1>1, <1>4, <1>7 DEF Present
<1>9. /\ Typed' /\ Len(indices') = J /\ DOMAIN indices' = DOMAIN indices
      /\ \A j \in DOMAIN indices :
            indices'[j].size = indices[j].size /\ indices'[j].front = indices[j].front
      /\ \A j \in DOMAIN indices : \A p : IsEntry(j, p) => IsEntry(j, p)'
      /\ \A j \in DOMAIN indices : j # J => \A k : EntryIn(a, j, k)' = EntryIn(a, j, k)
      /\ \A k \in Int : N - n < k /\ k <= Top => Entry(a, k)' = Entry(a, k)
      /\ \A k \in Int : k = N => Entry(a, k)' = [base |-> k * BLOCK_SIZE, block |-> b]
      /\ \A j \in DOMAIN indices : \A p \in 0..(indices[j].size - 1) : IsEntry(j, p)' =>
            (BlockOf(indices'[j].entries[p].base) + a[j]) % indices[j].size = p
      /\ prFront' = (Top + 2 + a[J]) % n
  <2>1. /\ Typed' /\ Len(indices') = Len(indices) /\ DOMAIN indices' = DOMAIN indices
        /\ \A j \in DOMAIN indices :
              indices'[j].size = indices[j].size /\ indices'[j].front = indices[j].front
        /\ \A j \in DOMAIN indices : \A p : IsEntry(j, p) => IsEntry(j, p)'
        /\ \A j \in DOMAIN indices : j # Len(indices) =>
              \A k : EntryIn(a, j, k)' = EntryIn(a, j, k)
        /\ \A j \in DOMAIN indices : \A p \in 0..(indices[j].size - 1) : IsEntry(j, p)' =>
              (BlockOf(indices'[j].entries[p].base) + a[j]) % indices[j].size = p
        /\ prFront' = (Top + 2 + a[Len(indices)]) % current.size
    BY EntryWritten
  <2>2. /\ \A k \in Int : Top + 1 - current.size < k /\ k <= Top => Entry(a, k)' = Entry(a, k)
        /\ \A k \in Int : k = Top + 1 => Entry(a, k)' = [base |-> k * BLOCK_SIZE, block |-> b]
    BY EntryWritten
  <2>3. /\ \A k \in Int : N - n < k /\ k <= Top => Entry(a, k)' = Entry(a, k)
        /\ \A k \in Int : k = N => Entry(a, k)' = [base |-> k * BLOCK_SIZE, block |-> b]
    <3>1. N - n = Top + 1 - current.size /\ N = Top + 1
      BY <1>0, <1>2, <1>r
    <3> QED
      BY <2>2, <3>1
  <2> QED
    BY <1>0, <2>1, <2>3
<1>10. \A k \in f..Top : k \in Int /\ k \in Circle /\ Entry(a, k)' = Entry(a, k)
  <2>0. PICK u, w : u = slotsUsed' /\ w = First
    OBVIOUS
  <2>1. ASSUME NEW k \in f..Top
        PROVE  k \in Int /\ First <= k /\ N - n < k /\ k <= Top
    <3>1. Top \in Int /\ n \in Int /\ w \in Int /\ u \in Int /\ u <= n /\ w <= f /\ f = Top + 2 - u
      <4>1. Top \in Int /\ w \in Int
        BY <1>2, <2>0
      <4>2. n \in Int /\ u \in Int /\ u <= n /\ w <= f /\ f = Top + 2 - u
        BY <1>r, <1>e, <2>0
      <4> QED
        BY <4>1, <4>2
    <3>0. N \in Int /\ N - n = Top + 1 - n
      BY <1>0, <3>1
    <3>2. k \in Int /\ w <= k /\ Top + 1 - n < k /\ k <= Top
      BY <3>1
    <3> QED
      BY <2>0, <3>0, <3>2
  <2>2. \A k \in f..Top : k \in Circle
    BY <1>i, <1>2, <2>1 DEF Circle
  <2> QED
    BY <1>9, <2>1, <2>2
<1>11. \A k \in f..N : k \in f..Top \/ k = N
  <2>1. Top \in Int /\ N = Top + 1
    BY <1>0, <1>2
  <2> QED
    BY <2>1
<1>12. Rings(a)'
  <2>1. current'.size = n /\ current'.front = current.front /\ Len(indices') = J
        /\ current' = indices'[J]
    BY <1>0, <1>r, <1>9 DEF current
  <2>2. \A j \in DOMAIN indices' : \A p \in 0..(indices'[j].size - 1) :
          IsEntry(j, p)' => (BlockOf(indices'[j].entries[p].base) + a[j]) % indices'[j].size = p
    BY <1>9
  <2>3. prFront' = (Top' + 1 + a[Len(indices')]) % current'.size
    <3>1. Top' + 1 = Top + 2
      BY <1>0, <1>2, <1>4
    <3> QED
      BY <1>9, <2>1, <3>1
  <2>4. \A k \in f..N : Entry(a, k)'.base = k * BLOCK_SIZE
    <3>1. \A k \in f..Top : Entry(a, k)'.base = k * BLOCK_SIZE
      BY <1>i, <1>10 DEF Rings
    <3>2. \A k \in Int : k = N => Entry(a, k)'.base = k * BLOCK_SIZE
      BY <1>9
    <3> QED
      BY <1>2, <1>11, <3>1, <3>2
  <2>5. Last' >= 0 => IsEntry(Len(indices), current.front)'
    <3>1. Last >= 0 => IsEntry(J, current.front)
      BY <1>i, <1>0 DEF Rings
    <3>2. PICK p : p = current.front
      OBVIOUS
    <3>3. Last >= 0 => IsEntry(J, p)'
      BY <1>r, <1>9, <3>1, <3>2
    <3> QED
      BY <1>i, <1>4, <2>1, <3>2, <3>3 DEF IsEntry
  <2> QED
    BY <1>i, <1>2, <1>e, <1>4, <2>1, <2>2, <2>3, <2>4, <2>5 DEF Rings, BlockOf
<1>13. Reads(a)'
  <2>1. ASSUME NEW c \in Consumers PROVE ReadsOf(a, c)'
    <3>0. ReadsOf(a, c)
      BY <1>i DEF Reads
    <3>1. CASE where[c] \notin {"none", "index"}
      <4>1. PICK j, q, p, t : j = local[c] /\ q = At(c) /\ p = front[c] /\ t = indices[j].front
        OBVIOUS
      <4>2. /\ j \in DOMAIN indices
            /\ where[c] = "front" => IsEntry(j, t)
            /\ where[c] = "locate" => IsEntry(j, p)
            /\ where[c] \in {"read", "mark"} => slot[c] = (q + a[j]) % indices[j].size
            /\ where[c] = "mark" => block[c] = Home(a, q)
            /\ \A k \in q..BlockOf(end[c] - 1) : EntryIn(a, j, k) = Entry(a, k)
        BY <1>i, <3>0, <3>1, <4>1 DEF ReadsOf
      <4>3. q \in q..BlockOf(end[c] - 1) /\ q..BlockOf(end[c] - 1) \subseteq f..Top
        <5>1. /\ index[c] \in Nat /\ q \in Nat /\ q <= BlockOf(end[c] - 1) /\ BlockOf(end[c] - 1) <= Last
              /\ BlockOf(end[c] - 1) \in Int /\ index[c] \in Pending(c) /\ q = BlockOf(index[c])
          BY <1>i, <3>1, <4>1, PendingFacts DEF At
        <5>2. Unread(index[c]) /\ index[c] \in Items(q)
          BY <1>i, <5>1, BlockIs DEF Unread
        <5>3. f <= q
          BY <1>i, <1>e, <5>1, <5>2 DEF Extended
        <5> QED
          BY <1>2, <1>e, <5>1, <5>3
      <4>4. (where[c] = "front" => IsEntry(j, t)') /\ (where[c] = "locate" => IsEntry(j, p)')
        BY <1>9, <4>2
      <4>5. where[c] = "mark" => block[c] = Home(a, q)'
        BY <1>i, <1>10, <4>2, <4>3 DEF Home
      <4>6. \A k \in q..BlockOf(end[c] - 1) : EntryIn(a, j, k)' = Entry(a, k)'
        <5>1. CASE j # J
          BY <1>9, <1>10, <4>2, <4>3, <5>1
        <5>2. CASE j = J
          BY <1>i, <1>9, <5>2 DEF Entry
        <5> QED
          BY <5>1, <5>2
      <4>7. indices'[j].size = indices[j].size /\ indices'[j].front = t
        BY <1>9, <4>1, <4>2
      <4>8. UNCHANGED <<where[c], local[c], front[c], slot[c], block[c], end[c], At(c)>>
        BY <1>1, <1>7
      <4>9. /\ where[c] = "front" => t \in 0..(indices'[j].size - 1) /\ indices'[j].entries[t].block # Null
            /\ where[c] = "locate" => p \in 0..(indices'[j].size - 1) /\ indices'[j].entries[p].block # Null
        BY <1>i, <4>4 DEF IsEntry
      <4>10. /\ where'[c] = where[c] /\ local'[c] = j /\ front'[c] = p /\ slot'[c] = slot[c]
             /\ block'[c] = block[c] /\ At(c)' = q /\ end'[c] = end[c]
        BY <4>1, <4>8
      <4>11. j \in DOMAIN indices'
        BY <1>9, <4>2
      <4> QED
        BY <4>2, <4>5, <4>6, <4>7, <4>9, <4>10, <4>11 DEF ReadsOf, IsEntry
    <3>2. CASE where[c] \in {"none", "index"}
      BY <1>i, <1>1, <3>2 DEF ReadsOf
    <3> QED
      BY <3>1, <3>2
  <2> QED
    BY <1>i, <1>1, <2>1 DEF Reads
<1>14. \A k \in f..Top : Home(a, k)' = Home(a, k)
  BY <1>i, <1>10 DEF Home
<1>15. \A k \in Int : k = N => Home(a, k)' = b
  BY <1>i, <1>9 DEF Home
<1>16. Added = 0 <=> firstAllocated = Null
  <2>1. Added = 0 => firstAllocated = Null
    BY <1>i DEF Linked
  <2>2. ASSUME firstAllocated = Null PROVE Added = 0
    BY <2>2, NoneFound
  <2> QED
    BY <2>1, <2>2
<1>17. a \in [DOMAIN indices' -> Int]
  BY <1>i, <1>9
<1> QED
  BY <1>0, <1>4, <1>5, <1>6, <1>7, <1>8, <1>9, <1>12, <1>13, <1>14, <1>15, <1>16, <1>17

\* A block has an item for each of its offsets.
LEMMA ItemAt ==
    ASSUME NEW k \in Int, NEW o \in Offsets
    PROVE  \E i \in Items(k) : i % BLOCK_SIZE = o
<1>1. PICK f : f = k * BLOCK_SIZE
  OBVIOUS
<1>2. f \in Int /\ f = BLOCK_SIZE * k /\ o \in Int /\ 0 <= o /\ o <= BLOCK_SIZE - 1
  BY <1>1, BlockSize DEF Offsets
<1>3. f + o \in Items(k)
  <2>1. f + o \in f..(f + BLOCK_SIZE - 1)
    BY <1>2, BlockSize
  <2> QED
    BY <1>1, <2>1 DEF Items
<1>4. f + o = BLOCK_SIZE * k + o /\ f + o \in Int /\ o \in 0..(BLOCK_SIZE - 1)
  BY <1>2, BlockSize DEF Offsets
<1>5. (f + o) % BLOCK_SIZE = o
  BY <1>4, BlockSize, DivisionUnique
<1> QED
  BY <1>3, <1>5

\* The block of the new number: marked empty, and without items.
LEMMA WriteBlocks ==
    ASSUME NEW a, IInv(a), NEW b \in Blocks, step \in {"reuse", "alloc"}, needed > 0, WriteEntry(b),
           NEW f, Extended(f), flags' \in [Blocks -> SUBSET Offsets], flags'[b] = Offsets,
           \A k \in f..Top : flags'[Home(a, k)] = flags[Home(a, k)],
           owned \subseteq owned', \A o \in Offsets : content[b][o] = Nothing
    PROVE  Flagged(a)' /\ Filled(a)'
<1>i. /\ Numbers /\ Counted /\ Claimed /\ Linked(a) /\ Flagged(a) /\ Filled(a)
  BY DEF IInv
<1>0. PICK N : N = Top + 1
  OBVIOUS
<1>1. /\ Last' = Last /\ First' = f /\ Circle' = f..N
      /\ \A k \in f..Top : Home(a, k)' = Home(a, k)
      /\ \A k \in Int : k = N => Home(a, k)' = b
      /\ \A i : Unread(i)' <=> Unread(i)
      /\ \A i : Present(i)' <=> Present(i)
  BY <1>0, WriteStep
<1>2. content' = content /\ tailIndex' = tailIndex /\ step' = step
  BY DEF WriteEntry, claimVars
<1>3. f \in Nat /\ First <= f /\ \A k \in 0..(f - 1) : \A i \in Items(k) : ~Unread(i)
  BY DEF Extended
<1>4. Top \in Int /\ N \in Int /\ Last \in Int /\ Last < N /\ First \in Nat
  <2>1. Top \in Int /\ Last \in Int /\ Top = Last + Added /\ Added \in Nat /\ First \in Nat
    BY <1>i, NumberFacts
  <2> QED
    BY <1>0, <2>1
<1>5. \A k \in f..N : k \in Nat /\ (k \in f..Top \/ k = N)
  BY <1>0, <1>3, <1>4
<1>6. \A k \in f..Top : k \in Circle
  BY <1>3, <1>4 DEF Circle
<1>7. \A k \in Int : Items(k)' = Items(k) /\ ReadFrom(k)' = ReadFrom(k)
  <2>1. \A k : Items(k)' = Items(k)
    BY DEF Items
  <2> QED
    BY <1>1, <2>1 DEF ReadFrom
<1>8. Flagged(a)'
  <2>1. ASSUME NEW k \in f..N
        PROVE  flags'[Home(a, k)'] =
                  IF k <= Last' \/ step' \in {"fill", "try", "publish"} THEN ReadFrom(k)' ELSE Offsets
    <3>0. k \in Int /\ step' \notin {"fill", "try", "publish"}
      BY <1>2, <1>5
    <3>1. CASE k \in f..Top
      <4>1. flags[Home(a, k)] = IF k <= Last \/ step \in {"fill", "try", "publish"} THEN ReadFrom(k) ELSE Offsets
        BY <1>i, <1>6, <3>1 DEF Flagged
      <4> QED
        BY <1>1, <1>2, <1>7, <3>0, <3>1, <4>1
    <3>2. CASE k = N
      <4>1. ~(k <= Last')
        BY <1>1, <1>4, <3>2
      <4>2. flags'[Home(a, k)'] = Offsets
        BY <1>1, <3>0, <3>2
      <4> QED
        BY <3>0, <4>1, <4>2
    <3> QED
      BY <1>5, <3>1, <3>2
  <2>2. \A k \in 0..(f - 1) : \A i \in Items(k)' : ~Unread(i)'
    <3>1. \A k \in 0..(f - 1) : k \in Int
      BY <1>3
    <3> QED
      BY <1>1, <1>3, <1>7, <3>1
  <2>3. Offsets' = Offsets
    BY DEF Offsets
  <2> QED
    BY <1>1, <2>1, <2>2, <2>3 DEF Flagged
<1>9. Filled(a)'
  <2>1. ASSUME NEW k \in f..N, NEW i \in Items(k)
        PROVE  content[Home(a, k)'][i % BLOCK_SIZE] = IF Present(i)' THEN i ELSE Nothing
    <3>0. k \in Int /\ i \in Int /\ i % BLOCK_SIZE \in Offsets
      BY <1>5, ItemsTyped
    <3>1. CASE k \in f..Top
      <4>1. content[Home(a, k)][i % BLOCK_SIZE] = IF Present(i) THEN i ELSE Nothing
        BY <1>i, <1>6, <3>1 DEF Filled
      <4> QED
        BY <1>1, <3>1, <4>1
    <3>2. CASE k = N
      <4>1. tailIndex <= i
        BY <1>i, <1>4, <3>2, FutureUnread
      <4>2. tailIndex \in Nat /\ headIndex \in Nat /\ headIndex <= tailIndex
        BY <1>i DEF Numbers
      <4>3. Written = tailIndex
        BY <4>2 DEF Written
      <4>4. i \notin headIndex..(Written - 1)
        BY <3>0, <4>1, <4>2, <4>3
      <4>5. \A c \in Consumers : i \notin Untaken(c)
        <5>1. \A c \in Consumers : i \in Pending(c) => i < headIndex
          BY <1>i, ClaimFacts
        <5>2. ~(i < headIndex)
          BY <3>0, <4>1, <4>2
        <5> QED
          BY <5>1, <5>2 DEF Untaken
      <4>6. ~Present(i)
        BY <4>4, <4>5 DEF Present
      <4>7. Home(a, k)' = b
        BY <1>1, <3>0, <3>2
      <4> QED
        BY <1>1, <3>0, <4>6, <4>7
    <3> QED
      BY <1>5, <3>1, <3>2
  <2>2. \A k \in f..N : k \in Int
    BY <1>5
  <2>3. \A d \in Blocks \ owned' : \A o \in Offsets : content[d][o] = Nothing
    BY <1>i DEF Filled
  <2>4. content \in [Blocks -> [Offsets -> Int]]
    BY <1>i DEF Filled
  <2> QED
    BY <1>1, <1>2, <1>7, <2>1, <2>2, <2>3, <2>4 DEF Filled, Blocks, Offsets
<1> QED
  BY <1>8, <1>9

\* The oldest block, when it is empty, becomes the newest: its number goes up by as
\* many as are in the circle.
LEMMA ReuseStep ==
    ASSUME NEW a, IInv(a), ReuseBlock
    PROVE  IInv(a)'
<1>i. /\ Numbers /\ Counted /\ Claimed /\ Rings(a) /\ Linked(a) /\ Flagged(a) /\ Filled(a)
  BY DEF IInv
<1>0. PICK b, N, f : b = next[tailBlock] /\ N = Top + 1 /\ f = First + 1
  OBVIOUS
<1>1. /\ step = "reuse" /\ needed > 0 /\ tailBlock # Null /\ b # firstAllocated
      /\ flags[b] = Offsets /\ WriteEntry(b)
      /\ UNCHANGED <<next, slotsUsed, flags, owned>>
  BY <1>0 DEF ReuseBlock, Reuse, BlockAhead, is_empty
<1>2. /\ Last \in Int /\ -1 <= Last /\ Added \in Nat /\ Top = Last + Added
      /\ Top \in Int /\ N \in Int /\ First \in Nat /\ slotsUsed \in Nat
      /\ First = Top - slotsUsed + 1 /\ First <= Last + 1
      /\ Circle \subseteq Nat
  <2>1. /\ Last \in Int /\ -1 <= Last /\ Added \in Nat /\ Top = Last + Added
        /\ Top \in Int /\ First \in Nat /\ slotsUsed \in Nat
        /\ First = Top - slotsUsed + 1 /\ First <= Last + 1
        /\ Circle \subseteq Nat
    BY <1>i, NumberFacts
  <2> QED
    BY <1>0, <2>1
<1>3. slotsUsed > 0 /\ First <= Top /\ First \in Circle
  <2>1. slotsUsed # 0
    BY <1>i, <1>1 DEF Linked
  <2> QED
    BY <1>2, <2>1 DEF Circle
<1>4. b = Home(a, First) /\ b \in Blocks /\ tailBlock = Home(a, Top)
  BY <1>i, <1>0, <1>2, <1>3 DEF Linked
<1>5. First <= Last
  <2>1. ASSUME First = Last + 1 PROVE FALSE
    <3>1. Added # 0
      BY <1>2, <1>3, <2>1
    <3> QED
      BY <1>i, <1>1, <1>4, <2>1, <3>1 DEF Linked
  <2> QED
    BY <1>2, <2>1
<1>6. \A i \in Items(First) : ~Unread(i)
  <2>1. ReadFrom(First) = Offsets
    BY <1>i, <1>1, <1>3, <1>4, <1>5 DEF Flagged
  <2>2. ASSUME NEW i \in Items(First), Unread(i) PROVE FALSE
    <3>1. First \in Int
      BY <1>2
    <3>2. i % BLOCK_SIZE \in Offsets
      BY <3>1, ItemsTyped
    <3>3. PICK j \in Items(First) : ~Unread(j) /\ j % BLOCK_SIZE = i % BLOCK_SIZE
      BY <2>1, <3>2 DEF ReadFrom
    <3>4. i = First * BLOCK_SIZE + (i % BLOCK_SIZE) /\ j = First * BLOCK_SIZE + (j % BLOCK_SIZE)
      BY <3>1, ItemsTyped
    <3> QED
      BY <2>2, <3>3, <3>4
  <2> QED
    BY <2>2
<1>7. Extended(f)
  <2>1. slotsUsed' \in Nat \ {0} /\ slotsUsed' <= current.size /\ originalUsed <= slotsUsed'
    BY <1>i, <1>1, <1>2, <1>3 DEF Rings, Counted
  <2>2. f \in Nat /\ f = Top + 2 - slotsUsed' /\ First <= f /\ f <= Last + 1
    BY <1>0, <1>1, <1>2, <1>5
  <2>3. ASSUME NEW k \in 0..(f - 1), NEW i \in Items(k) PROVE ~Unread(i)
    <3>1. k = First \/ k \in 0..(First - 1)
      BY <1>0, <1>2
    <3> QED
      BY <1>i, <1>6, <3>1 DEF Flagged
  <2> QED
    BY <2>1, <2>2, <2>3 DEF Extended
<1>8. /\ Numbers' /\ Counted' /\ Claimed' /\ Typed' /\ a \in [DOMAIN indices' -> Int]
      /\ Rings(a)' /\ Reads(a)'
      /\ Last' = Last /\ Top' = N /\ First' = f /\ Circle' = f..N
      /\ Added' = Added + 1 /\ (Added = 0 <=> firstAllocated = Null)
      /\ \A k \in f..Top : Home(a, k)' = Home(a, k)
      /\ \A k \in Int : k = N => Home(a, k)' = b
  BY <1>0, <1>1, <1>4, <1>7, WriteStep
<1>9. Flagged(a)' /\ Filled(a)'
  <2>1. ASSUME NEW o \in Offsets PROVE content[b][o] = Nothing
    <3>1. PICK i \in Items(First) : i % BLOCK_SIZE = o
      BY <1>2, ItemAt
    <3>2. ~Present(i)
      BY <1>i, <1>6, PresentUnread
    <3> QED
      BY <1>i, <1>3, <1>4, <3>1, <3>2 DEF Filled
  <2>2. flags' \in [Blocks -> SUBSET Offsets] /\ flags'[b] = Offsets
        /\ \A k \in f..Top : flags'[Home(a, k)] = flags[Home(a, k)]
    BY <1>i, <1>1 DEF Flagged
  <2>3. owned \subseteq owned'
    BY <1>1
  <2> QED
    BY <1>1, <1>4, <1>7, <2>1, <2>2, <2>3, WriteBlocks
<1>10. \A k \in f..N : k \in Int /\ (k \in f..Top \/ k = N)
  BY <1>0, <1>2
<1>11. \A k \in f..Top : k \in Circle /\ k # First
  BY <1>0, <1>2 DEF Circle
<1>12. \A k \in Circle : k \in f..Top \/ k = First
  BY <1>0, <1>2 DEF Circle
<1>13. N \in f..N
  BY <1>0, <1>2, <1>3
<1>14. /\ \A k \in f..Top : Home(a, k)' \in Blocks /\ Home(a, k)' = Home(a, k) /\ Home(a, k)' # b
       /\ Home(a, N)' = b
  BY <1>i, <1>2, <1>3, <1>4, <1>8, <1>11 DEF Linked
<1>l. /\ firstAllocated = IF Added = 0 THEN Null ELSE Home(a, Last + 1)
      /\ Last \in Circle => startBlock = Home(a, Last)
      /\ next \in [Blocks -> Blocks \union {Null}] /\ startBlock \in Blocks \union {Null}
  <2>1. step # "idle"
    BY <1>1
  <2> QED
    BY <1>i, <2>1 DEF Linked
<1>15. Linked(a)'
  <2>1. \A k \in f..N : Home(a, k)' \in Blocks
    BY <1>4, <1>10, <1>14
  <2>2. \A k, l \in f..N : Home(a, k)' = Home(a, l)' => k = l
    <3>1. \A k, l \in f..Top : Home(a, k) = Home(a, l) => k = l
      BY <1>i, <1>11 DEF Linked
    <3> QED
      BY <1>10, <1>14, <3>1
  <2>3. owned' = {Home(a, k)' : k \in f..N}
    <3>1. owned = {Home(a, k) : k \in Circle}
      BY <1>i DEF Linked
    <3>2. ASSUME NEW d \in owned PROVE \E k \in f..N : d = Home(a, k)'
      <4>1. PICK k \in Circle : d = Home(a, k)
        BY <3>1
      <4>2. CASE k \in f..Top
        <5>1. k \in f..N
          BY <1>0, <1>2, <4>2
        <5> QED
          BY <1>14, <4>1, <4>2, <5>1
      <4>3. CASE k = First
        BY <1>4, <1>13, <1>14, <4>1, <4>3
      <4> QED
        BY <1>12, <4>2, <4>3
    <3>3. ASSUME NEW k \in f..N PROVE Home(a, k)' \in owned
      <4>1. b \in owned
        BY <1>3, <1>4, <3>1
      <4>2. k \in f..Top => Home(a, k) \in owned
        BY <1>11, <3>1
      <4> QED
        BY <1>10, <1>14, <4>1, <4>2
    <3> QED
      BY <1>1, <3>2, <3>3
  <2>4. \A k \in f..(N - 1) : next'[Home(a, k)'] = Home(a, k + 1)'
    <3>1. ASSUME NEW k \in f..(N - 1) PROVE next'[Home(a, k)'] = Home(a, k + 1)'
      <4>1. k \in f..Top /\ k \in Int
        BY <1>0, <1>2
      <4>2. CASE k = Top
        <5>1. next[Home(a, Top)] = b
          BY <1>i, <1>3, <1>4 DEF Linked
        <5>2. PICK l : l = k + 1
          OBVIOUS
        <5>3. l = N
          BY <1>0, <4>2, <5>2
        <5>4. Home(a, l)' = b
          BY <1>14, <5>3
        <5> QED
          BY <1>1, <1>14, <4>1, <4>2, <5>1, <5>2, <5>4
      <4>3. CASE k # Top
        <5>1. k \in First..(Top - 1) /\ k + 1 \in f..Top
          BY <1>0, <1>2, <4>1, <4>3
        <5>2. next[Home(a, k)] = Home(a, k + 1)
          BY <1>i, <5>1 DEF Linked
        <5>3. Home(a, k + 1)' = Home(a, k + 1)
          BY <1>14, <5>1
        <5> QED
          BY <1>1, <1>14, <4>1, <5>2, <5>3
      <4> QED
        BY <4>2, <4>3
    <3> QED
      BY <3>1
  <2>5. \A k \in Int : k = f => next'[b] = Home(a, k)'
    <3>1. CASE First = Top
      <4>1. f = N
        BY <1>0, <3>1
      <4>2. next[b] = b
        BY <1>i, <1>3, <1>4, <3>1 DEF Linked
      <4> QED
        BY <1>1, <1>14, <4>1, <4>2
    <3>2. CASE First # Top
      <4>1. First \in First..(Top - 1) /\ f \in f..Top
        BY <1>0, <1>2, <1>3, <3>2
      <4>2. next[b] = Home(a, f)
        BY <1>i, <1>0, <1>4, <4>1 DEF Linked
      <4>3. \A k \in Int : k = f => Home(a, k)' = Home(a, f)
        BY <1>14, <4>1
      <4> QED
        BY <1>1, <4>2, <4>3
    <3> QED
      BY <3>1, <3>2
  <2>6. /\ tailBlock' = b /\ startBlock' = startBlock /\ step' = step
        /\ firstAllocated' = IF firstAllocated = Null THEN b ELSE firstAllocated
    BY <1>1 DEF WriteEntry, FoundBlock, claimVars, readVars
  <2>7. \A k \in Int : k = Last + 1 => firstAllocated' = Home(a, k)'
    <3>1. CASE Added = 0
      <4>1. Last + 1 = N
        BY <1>0, <1>2, <3>1
      <4> QED
        BY <1>8, <1>14, <2>6, <3>1, <4>1
    <3>2. CASE Added # 0
      <4>1. Last + 1 \in f..Top
        BY <1>0, <1>2, <1>5, <3>2
      <4>2. firstAllocated' = Home(a, Last + 1)
        BY <1>l, <1>8, <2>6, <3>2
      <4>3. \A k \in Int : k = Last + 1 => Home(a, k)' = Home(a, Last + 1)
        BY <1>14, <4>1
      <4> QED
        BY <4>2, <4>3
    <3> QED
      BY <3>1, <3>2
  <2>8. Last \in f..N => startBlock' = Home(a, Last) /\ Last \in f..Top
    <3>1. Last \in f..N => Last \in f..Top
      BY <1>0, <1>2
    <3> QED
      BY <1>l, <1>11, <2>6, <3>1
  <2>9. \A k \in f..N : k = Last => startBlock' = Home(a, k)'
    BY <1>14, <2>8
  <2>10. next' \in [Blocks -> Blocks \union {Null}] /\ startBlock' \in Blocks \union {Null}
    BY <1>l, <1>1, <2>6
  <2>11. f \in Int /\ Last + 1 \in Int /\ slotsUsed' > 0 /\ Added' # 0
    <3>1. f \in Int /\ Last + 1 \in Int /\ slotsUsed' > 0 /\ Added + 1 # 0
      BY <1>0, <1>1, <1>2, <1>3
    <3> QED
      BY <1>8, <3>1
  <2> QED
    BY <1>8, <1>13, <1>14, <2>1, <2>2, <2>3, <2>4, <2>5, <2>6, <2>7, <2>9, <2>10, <2>11 DEF Linked, Blocks
<1> QED
  BY <1>8, <1>9, <1>15 DEF IInv

\* A new block is put between the newest and the oldest.
LEMMA AllocStep ==
    ASSUME NEW a, IInv(a), AllocBlock
    PROVE  IInv(a)'
<1>i. /\ Numbers /\ Counted /\ Claimed /\ Rings(a) /\ Linked(a) /\ Flagged(a) /\ Filled(a)
  BY DEF IInv
<1>0. PICK b, N, t, f : /\ b = (CHOOSE d \in Blocks \ owned : TRUE)
                        /\ N = Top + 1 /\ t = tailBlock /\ f = First
  OBVIOUS
<1>1. /\ step = "alloc" /\ needed > 0 /\ Blocks \ owned # {} /\ slotsUsed < current.size
      /\ WriteEntry(b)
      /\ next' = IF t = Null THEN [next EXCEPT ![b] = b]
                 ELSE [next EXCEPT ![b] = next[t], ![t] = b]
      /\ flags' = [flags EXCEPT ![b] = Offsets]
      /\ owned' = owned \union {b} /\ slotsUsed' = slotsUsed + 1
  BY <1>0 DEF AllocBlock, AddBlock, set_all_empty
<1>b. b \in Blocks /\ b \notin owned
  BY <1>0, <1>1
<1>2. /\ Last \in Int /\ -1 <= Last /\ Added \in Nat /\ Top = Last + Added
      /\ Top \in Int /\ N \in Int /\ First \in Nat /\ slotsUsed \in Nat
      /\ f \in Nat /\ f = First /\ f = Top - slotsUsed + 1 /\ f <= Last + 1
  <2>1. /\ Last \in Int /\ -1 <= Last /\ Added \in Nat /\ Top = Last + Added
        /\ Top \in Int /\ First \in Nat /\ slotsUsed \in Nat
        /\ First = Top - slotsUsed + 1 /\ First <= Last + 1
    BY <1>i, NumberFacts
  <2> QED
    BY <1>0, <2>1
<1>l. /\ firstAllocated = IF Added = 0 THEN Null ELSE Home(a, Last + 1)
      /\ Last \in Circle => startBlock = Home(a, Last)
      /\ next \in [Blocks -> Blocks \union {Null}] /\ startBlock \in Blocks \union {Null}
      /\ t = IF slotsUsed = 0 THEN Null ELSE Home(a, Top)
      /\ slotsUsed > 0 => next[t] = Home(a, f)
      /\ owned = {Home(a, k) : k \in Circle}
  <2>1. step # "idle"
    BY <1>1
  <2>2. slotsUsed > 0 => slotsUsed # 0
    BY <1>2
  <2> QED
    BY <1>i, <1>0, <2>1, <2>2 DEF Linked
<1>3. \A k \in Circle : Home(a, k) \in Blocks /\ Home(a, k) # b
  BY <1>i, <1>b, <1>l DEF Linked
<1>7. Extended(f)
  <2>1. slotsUsed + 1 <= current.size
    <3>1. current.size \in Int
      BY RingFacts DEF IInv
    <3> QED
      BY <1>1, <1>2, <3>1
  <2>2. originalUsed <= slotsUsed + 1
    <3>1. originalUsed \in 0..slotsUsed
      BY <1>i, <1>1 DEF Counted
    <3> QED
      BY <1>2, <3>1
  <2>3. First = Top + 2 - (slotsUsed + 1) /\ slotsUsed + 1 \in Nat \ {0}
    BY <1>2
  <2>4. \A k \in 0..(First - 1) : \A i \in Items(k) : ~Unread(i)
    BY <1>i DEF Flagged
  <2> QED
    BY <1>0, <1>1, <1>2, <2>1, <2>2, <2>3, <2>4 DEF Extended
<1>8. /\ Numbers' /\ Counted' /\ Claimed' /\ Typed' /\ a \in [DOMAIN indices' -> Int]
      /\ Rings(a)' /\ Reads(a)'
      /\ Last' = Last /\ Top' = N /\ First' = f /\ Circle' = f..N
      /\ Added' = Added + 1 /\ (Added = 0 <=> firstAllocated = Null)
      /\ \A k \in f..Top : Home(a, k)' = Home(a, k)
      /\ \A k \in Int : k = N => Home(a, k)' = b
  BY <1>0, <1>1, <1>b, <1>7, WriteStep
<1>9. Flagged(a)' /\ Filled(a)'
  <2>1. \A o \in Offsets : content[b][o] = Nothing
    BY <1>i, <1>b DEF Filled
  <2>2. flags' \in [Blocks -> SUBSET Offsets] /\ flags'[b] = Offsets
    BY <1>i, <1>1, <1>b DEF Flagged
  <2>3. \A k \in f..Top : flags'[Home(a, k)] = flags[Home(a, k)]
    <3>1. flags \in [Blocks -> SUBSET Offsets]
      BY <1>i DEF Flagged
    <3> QED
      BY <1>0, <1>1, <1>3, <3>1 DEF Circle
  <2>4. owned \subseteq owned'
    BY <1>1
  <2>5. step \in {"reuse", "alloc"}
    BY <1>1
  <2> QED
    BY <1>0, <1>1, <1>b, <1>7, <2>1, <2>2, <2>3, <2>4, <2>5, WriteBlocks
<1>10. \A k \in f..N : k \in Int /\ (k \in f..Top \/ k = N)
  BY <1>0, <1>2
<1>11. \A k : k \in f..Top <=> k \in Circle
  BY <1>0 DEF Circle
<1>13. N \in f..N /\ \A k \in f..Top : k \in f..N
  BY <1>0, <1>2
<1>14. /\ \A k \in f..Top : Home(a, k)' \in Blocks /\ Home(a, k)' = Home(a, k) /\ Home(a, k)' # b
       /\ Home(a, N)' = b
  BY <1>2, <1>3, <1>8, <1>11
<1>n. /\ next' \in [Blocks -> Blocks \union {Null}]
      /\ t = Null => next'[b] = b
      /\ t # Null => next'[b] = next[t] /\ next'[t] = b
      /\ \A d \in Blocks : d # b /\ d # t => next'[d] = next[d]
  <2>1. CASE t = Null
    <3>1. next' = [next EXCEPT ![b] = b]
      BY <1>1, <2>1
    <3> QED
      BY <1>b, <1>l, <2>1, <3>1
  <2>2. CASE t # Null
    <3>1. next' = [next EXCEPT ![b] = next[t], ![t] = b]
      BY <1>1, <2>2
    <3>2. slotsUsed > 0 /\ Top \in Circle
      BY <1>2, <1>l, <2>2 DEF Circle
    <3>3. t \in Blocks /\ t # b
      BY <1>2, <1>l, <1>3, <3>2
    <3>4. next[t] \in Blocks \union {Null}
      BY <1>l, <3>3
    <3> QED
      BY <1>b, <1>l, <2>2, <3>1, <3>3, <3>4
  <2> QED
    BY <2>1, <2>2
<1>15. Linked(a)'
  <2>1. \A k \in f..N : Home(a, k)' \in Blocks
    BY <1>b, <1>10, <1>14
  <2>2. \A k, l \in f..N : Home(a, k)' = Home(a, l)' => k = l
    <3>1. \A k, l \in f..Top : Home(a, k) = Home(a, l) => k = l
      BY <1>i, <1>11 DEF Linked
    <3> QED
      BY <1>10, <1>14, <3>1
  <2>3. owned' = {Home(a, k)' : k \in f..N}
    <3>1. \A d \in owned : \E k \in f..N : d = Home(a, k)'
      <4>1. ASSUME NEW d \in owned PROVE \E k \in f..N : d = Home(a, k)'
        <5>1. PICK k \in f..Top : d = Home(a, k)
          BY <1>l, <1>11
        <5> QED
          BY <1>13, <1>14, <5>1
      <4> QED
        BY <4>1
    <3>2. \A k \in f..Top : Home(a, k)' \in owned
      BY <1>l, <1>11, <1>14
    <3> QED
      BY <1>1, <1>10, <1>13, <1>14, <3>1, <3>2
  <2>4. \A k \in f..(N - 1) : next'[Home(a, k)'] = Home(a, k + 1)'
    <3>1. ASSUME NEW k \in f..(N - 1) PROVE next'[Home(a, k)'] = Home(a, k + 1)'
      <4>1. k \in f..Top /\ k \in Int
        BY <1>0, <1>2
      <4>0. slotsUsed > 0 /\ slotsUsed # 0
        BY <1>2, <4>1
      <4>2. CASE k = Top
        <5>1. t = Home(a, Top) /\ t # Null
          <6>1. Home(a, Top) \in Blocks
            BY <1>3, <1>11, <4>1, <4>2
          <6> QED
            BY <1>l, <4>0, <6>1 DEF Blocks, Null
        <5>2. PICK l : l = k + 1
          OBVIOUS
        <5>3. l = N
          BY <1>0, <4>2, <5>2
        <5>4. Home(a, l)' = b
          BY <1>14, <5>3
        <5>5. next'[Home(a, k)'] = b
          BY <1>n, <1>14, <4>1, <4>2, <5>1
        <5> QED
          BY <5>2, <5>4, <5>5
      <4>3. CASE k # Top
        <5>1. k \in f..(Top - 1) /\ k + 1 \in f..Top
          BY <1>0, <1>2, <4>1, <4>3
        <5>2. next[Home(a, k)] = Home(a, k + 1)
          BY <1>i, <1>0, <5>1 DEF Linked
        <5>3. Home(a, k + 1)' = Home(a, k + 1)
          BY <1>14, <5>1
        <5>4. Home(a, k) # t
          <6>1. Top \in Circle /\ k \in Circle /\ t = Home(a, Top)
            BY <1>l, <1>11, <1>2, <4>0, <4>1
          <6> QED
            BY <1>i, <4>3, <6>1 DEF Linked
        <5>5. Home(a, k) \in Blocks /\ Home(a, k) # b /\ Home(a, k)' = Home(a, k)
          BY <1>14, <4>1
        <5> QED
          BY <1>n, <5>2, <5>3, <5>4, <5>5
      <4> QED
        BY <4>2, <4>3
    <3> QED
      BY <3>1
  <2>5. \A k \in Int : k = f => next'[b] = Home(a, k)'
    <3>1. CASE slotsUsed = 0
      <4>1. f = N /\ t = Null
        BY <1>0, <1>2, <1>l, <3>1
      <4> QED
        BY <1>n, <1>14, <4>1
    <3>2. CASE slotsUsed # 0
      <4>1. f \in f..Top /\ Top \in f..Top /\ slotsUsed > 0
        BY <1>2, <3>2
      <4>2. t # Null
        BY <1>l, <1>3, <1>11, <3>2, <4>1 DEF Blocks, Null
      <4>3. next'[b] = Home(a, f)
        BY <1>n, <1>l, <4>1, <4>2
      <4>4. \A k \in Int : k = f => Home(a, k)' = Home(a, f)
        BY <1>14, <4>1
      <4> QED
        BY <4>3, <4>4
    <3> QED
      BY <3>1, <3>2
  <2>6. /\ tailBlock' = b /\ startBlock' = startBlock /\ step' = step
        /\ firstAllocated' = IF firstAllocated = Null THEN b ELSE firstAllocated
    BY <1>1 DEF WriteEntry, FoundBlock, claimVars, readVars
  <2>7. \A k \in Int : k = Last + 1 => firstAllocated' = Home(a, k)'
    <3>1. CASE Added = 0
      <4>1. Last + 1 = N
        BY <1>0, <1>2, <3>1
      <4> QED
        BY <1>8, <1>14, <2>6, <3>1, <4>1
    <3>2. CASE Added # 0
      <4>1. Last + 1 \in f..Top
        BY <1>0, <1>2, <3>2
      <4>2. firstAllocated' = Home(a, Last + 1)
        BY <1>l, <1>8, <2>6, <3>2
      <4>3. \A k \in Int : k = Last + 1 => Home(a, k)' = Home(a, Last + 1)
        BY <1>14, <4>1
      <4> QED
        BY <4>2, <4>3
    <3> QED
      BY <3>1, <3>2
  <2>8. Last \in f..N => startBlock' = Home(a, Last) /\ Last \in f..Top
    <3>1. Last \in f..N => Last \in f..Top
      BY <1>0, <1>2
    <3> QED
      BY <1>l, <1>11, <2>6, <3>1
  <2>9. \A k \in f..N : k = Last => startBlock' = Home(a, k)'
    BY <1>14, <2>8
  <2>10. next' \in [Blocks -> Blocks \union {Null}] /\ startBlock' \in Blocks \union {Null}
    BY <1>l, <1>n, <2>6
  <2>11. f \in Int /\ Last + 1 \in Int /\ slotsUsed' > 0 /\ Added' # 0
    <3>1. f \in Int /\ Last + 1 \in Int /\ slotsUsed + 1 > 0 /\ Added + 1 # 0
      BY <1>2
    <3> QED
      BY <1>1, <1>8, <3>1
  <2> QED
    BY <1>8, <1>13, <1>14, <2>1, <2>2, <2>3, <2>4, <2>5, <2>6, <2>7, <2>9, <2>10, <2>11 DEF Linked, Blocks
<1> QED
  BY <1>8, <1>9, <1>15 DEF IInv

\* The new ring has the entries of the circle from slot 0 on.
LEMMA GrowStep ==
    ASSUME NEW a, IInv(a), GrowIndex
    PROVE  \E e : IInv(e)'
<1>i. /\ Numbers /\ Counted /\ Claimed /\ Typed /\ a \in [DOMAIN indices -> Int]
      /\ Rings(a) /\ Reads(a) /\ Linked(a) /\ Flagged(a) /\ Filled(a)
  BY DEF IInv
<1>0. PICK J, n, d, f, o, ents, new, e :
        /\ J = Len(indices) /\ n = current.size /\ d = a[J] /\ f = First /\ o = originalUsed
        /\ ents = [i \in 0..(2 * n - 1) |->
               IF i < n THEN current.entries[(prFront - n + i) % n] ELSE NoEntry]
        /\ new = [size |-> 2 * n, front |-> o - 1, entries |-> ents]
        /\ e = [j \in 1..(J + 1) |-> IF j <= J THEN a[j] ELSE -f]
  OBVIOUS
<1>1. /\ step = "alloc" /\ slotsUsed = n /\ indices' = Append(indices, new)
      /\ prFront' = n /\ originalFront' = o
      /\ UNCHANGED <<tailIndex, headIndex, step, count, needed, base, startBlock, firstAllocated,
                     tailBlock, next, content, where, index, end, originalUsed, slotsUsed,
                     flags, owned, local, front, slot, block>>
  <2>1. slotsUsed = n
    BY <1>0 DEF GrowIndex, CopyIndex
  <2> QED
    BY <1>0, <2>1 DEF GrowIndex, CopyIndex, subVars, claimVars, callVars, readVars
<1>2. /\ Last \in Int /\ -1 <= Last /\ Added \in Nat /\ Top = Last + Added /\ Top \in Int
      /\ f \in Nat /\ f = Top - n + 1 /\ f <= Last + 1 /\ n \in Nat \ {0}
      /\ o \in 0..n /\ (Last >= 0 => o > 0)
  <2>1. /\ Last \in Int /\ -1 <= Last /\ Added \in Nat /\ Top = Last + Added /\ Top \in Int
        /\ First \in Nat /\ First = Top - slotsUsed + 1 /\ First <= Last + 1
    BY <1>i, NumberFacts
  <2>2. n \in Nat \ {0}
    BY <1>i, <1>0, RingFacts
  <2>3. originalUsed \in 0..slotsUsed /\ (Last >= 0 => originalUsed > 0)
    BY <1>i, <1>1 DEF Counted
  <2> QED
    BY <1>0, <1>1, <2>1, <2>2, <2>3
<1>3. /\ J \in Nat \ {0} /\ DOMAIN indices = 1..J /\ J \in 1..J /\ current = indices[J] /\ d \in Int
      /\ current.entries \in [0..(n - 1) -> [base : Int, block : Blocks \union {Null}]]
      /\ indices \in Seq(AnyRing)
  BY <1>i, <1>0, RingFacts DEF Typed
<1>4. /\ Last' = Last /\ Found' = Found /\ Added' = Added /\ Top' = Top /\ First' = f
      /\ Circle' = Circle /\ Written' = Written
  <2>1. Last' = Last /\ Found' = Found /\ Written' = Written
    BY <1>1 DEF Last, Found, Written
  <2>2. Added' = Added /\ Top' = Top
    BY <1>1, <2>1 DEF Added, Top
  <2> QED
    BY <1>0, <1>1, <2>1, <2>2 DEF First, Circle
<1>5. \A k : k \in Circle <=> k \in f..Top
  BY <1>0 DEF Circle
\* The entries copied.
<1>6. ASSUME NEW i \in 0..(n - 1)
      PROVE  ents[i] = Entry(a, f + i) /\ f + i \in Circle /\ ents[i].base = (f + i) * BLOCK_SIZE
             /\ ents[i].block \in Blocks
  <2>1. i \in 0..(2 * n - 1) /\ i < n /\ i \in Int
    BY <1>2
  <2>2. ents[i] = current.entries[(prFront - n + i) % n]
    BY <1>0, <2>1
  <2>3. (prFront - n + i) % n = ((f + i) + d) % n
    <3>1. PICK x, y : x = Top + 1 + d /\ y = i - n
      OBVIOUS
    <3>0. Top \in Int /\ n \in Int /\ i \in Int /\ d \in Int /\ f = Top - n + 1
      BY <1>2, <1>3, <2>1
    <3>2. x \in Int /\ y \in Int /\ x + y = (f + i) + d
      BY <3>0, <3>1
    <3>3. ((x % n) + y) % n = (x + y) % n
      BY <1>2, <3>2, ModSum
    <3>4. prFront = x % n
      BY <1>i, <1>0, <3>1 DEF Rings
    <3>5. x % n \in Int
      BY <1>2, <3>2, Division
    <3>6. prFront - n + i = (x % n) + y
      BY <1>2, <2>1, <3>1, <3>4, <3>5
    <3> QED
      BY <3>2, <3>3, <3>6
  <2>4. ents[i] = Entry(a, f + i)
    BY <1>0, <1>3, <2>2, <2>3 DEF Entry, EntryIn
  <2>5. f + i \in Circle
    <3>1. f + i \in f..Top
      BY <1>2
    <3> QED
      BY <1>5, <3>1
  <2>6. Entry(a, f + i).base = (f + i) * BLOCK_SIZE /\ Entry(a, f + i).block \in Blocks
    BY <1>i, <2>5 DEF Rings, Linked, Home
  <2> QED
    BY <2>4, <2>5, <2>6
<1>7. /\ ents \in [0..(2 * n - 1) -> [base : Int, block : Blocks \union {Null}]]
      /\ \A i \in 0..(2 * n - 1) : ~(i < n) => ents[i].block = Null
  <2>1. ASSUME NEW i \in 0..(2 * n - 1)
        PROVE  ents[i] \in [base : Int, block : Blocks \union {Null}]
               /\ (~(i < n) => ents[i].block = Null)
    <3>1. CASE i < n
      <4>1. i \in 0..(n - 1)
        BY <1>2, <3>1
      <4>2. ents[i] = Entry(a, f + i) /\ f + i \in Int
        BY <1>2, <1>6, <4>1
      <4>3. Entry(a, f + i) \in [base : Int, block : Blocks \union {Null}]
        BY <1>i, <1>0, <1>3, <4>2, EntryFacts DEF Entry
      <4> QED
        BY <3>1, <4>2, <4>3
    <3>2. CASE ~(i < n)
      BY <1>0, <3>2 DEF NoEntry
    <3> QED
      BY <3>1, <3>2
  <2> QED
    BY <1>0, <2>1
<1>8. new \in AnyRing /\ new.size = 2 * n /\ new.front = o - 1 /\ new.entries = ents
  <2>1. PICK z, p : z = 2 * n /\ p = o - 1
    OBVIOUS
  <2>2. z \in Nat \ {0} /\ p \in -1..(z - 1)
    BY <1>2, <2>1
  <2>3. new = [size |-> z, front |-> p, entries |-> ents]
        /\ ents \in [0..(z - 1) -> [base : Int, block : Blocks \union {Null}]]
    BY <1>0, <1>7, <2>1
  <2>4. new \in RingOf(z)
    BY <2>2, <2>3 DEF RingOf
  <2> QED
    BY <2>1, <2>2, <2>3, <2>4 DEF AnyRing
<1>9. /\ indices' \in Seq(AnyRing) /\ Len(indices') = J + 1 /\ DOMAIN indices' = 1..(J + 1)
      /\ indices'[J + 1] = new /\ \A j \in 1..J : indices'[j] = indices[j]
  <2>1. indices' \in Seq(AnyRing) /\ Len(indices') = J + 1
        /\ indices'[J + 1] = new /\ \A j \in 1..J : indices'[j] = indices[j]
    <3>1. new \in AnyRing /\ indices \in Seq(AnyRing)
      BY <1>3, <1>8
    <3>2. /\ Append(indices, new) \in Seq(AnyRing)
          /\ Len(Append(indices, new)) = Len(indices) + 1
          /\ \A j \in 1..Len(indices) : Append(indices, new)[j] = indices[j]
          /\ Append(indices, new)[Len(indices) + 1] = new
      BY <3>1, AppendProperties
    <3> QED
      BY <1>0, <1>1, <3>2
  <2> QED
    BY <2>1
<1>10. Typed'
  BY <1>3, <1>9 DEF Typed
<1>11. e \in [DOMAIN indices' -> Int] /\ e[J + 1] = -f /\ \A j \in 1..J : e[j] = a[j] /\ j # J + 1
  <2>1. \A j \in 1..(J + 1) : (IF j <= J THEN a[j] ELSE -f) \in Int
    BY <1>i, <1>2, <1>3
  <2>2. J + 1 \in 1..(J + 1) /\ ~(J + 1 <= J) /\ \A j \in 1..J : j \in 1..(J + 1) /\ j <= J /\ j # J + 1
    BY <1>3
  <2> QED
    BY <1>0, <1>9, <2>1, <2>2
<1>12. \A j \in 1..J : \A k : EntryIn(e, j, k)' = EntryIn(a, j, k)
  BY <1>9, <1>11 DEF EntryIn
<1>13. ASSUME NEW k \in Circle PROVE Entry(e, k)' = Entry(a, k)
  <2>1. k - f \in 0..(n - 1) /\ f + (k - f) = k
    BY <1>2, <1>5
  <2>2. (k + (-f)) % (2 * n) = k - f
    <3>1. PICK x, z : x = k - f /\ z = 2 * n
      OBVIOUS
    <3>2. z \in Nat \ {0} /\ x \in 0..(z - 1) /\ x = z * 0 + x /\ x \in Int
      BY <1>2, <2>1, <3>1
    <3>3. x = x % z
      BY <3>2, DivisionUnique
    <3>4. k + (-f) = x
      BY <1>2, <1>5, <3>1
    <3> QED
      BY <3>1, <3>3, <3>4
  <2>3. Entry(e, k)' = ents[k - f]
    BY <1>8, <1>9, <1>11, <2>2 DEF Entry, EntryIn
  <2> QED
    BY <1>6, <2>1, <2>3
<1>14. \A k \in Circle : Home(e, k)' = Home(a, k)
  BY <1>13 DEF Home
<1>15. Numbers'
  BY <1>i, <1>1, <1>4 DEF Numbers
<1>16. Counted'
  <2>1. Added = 0 => originalUsed = slotsUsed
    BY <1>i, <1>1 DEF Counted
  <2>2. slotsUsed' \in Nat /\ First' \in Nat /\ First' <= Last' + 1 /\ slotsUsed' # 0
    BY <1>1, <1>2, <1>4
  <2>3. Added = 0 => o = n
    BY <1>0, <1>1, <2>1
  <2> QED
    BY <1>0, <1>1, <1>2, <1>4, <2>2, <2>3 DEF Counted
<1>17. /\ Claimed' /\ \A c : Pending(c)' = Pending(c) /\ At(c)' = At(c)
       /\ \A i : Unread(i)' <=> Unread(i)
       /\ \A c \in Consumers : Untaken(c)' = Untaken(c)
  <2>1. \A c : Pending(c)' = Pending(c) /\ At(c)' = At(c)
    BY <1>1, SameClaims
  <2>2. \A i : Unread(i)' <=> Unread(i)
    BY <1>1, SameClaims
  <2>3. \A c \in Consumers : Untaken(c)' = Untaken(c)
    BY <1>1, <2>1 DEF Untaken
  <2> QED
    BY <1>i, <1>1, <2>1, <2>2, <2>3 DEF Claimed
<1>18. Rings(e)'
  <2>1. ASSUME NEW j \in 1..(J + 1), NEW p \in 0..(indices'[j].size - 1), IsEntry(j, p)'
        PROVE  (BlockOf(indices'[j].entries[p].base) + e[j]) % indices'[j].size = p
    <3>1. CASE j \in 1..J
      <4>1. indices'[j] = indices[j] /\ e[j] = a[j]
        BY <1>9, <1>11, <3>1
      <4>2. IsEntry(j, p) /\ p \in 0..(indices[j].size - 1)
        BY <2>1, <4>1 DEF IsEntry
      <4> QED
        BY <1>i, <1>3, <3>1, <4>1, <4>2 DEF Rings
    <3>2. CASE j = J + 1
      <4>1. p \in 0..(2 * n - 1) /\ ents[p].block # Null
        BY <1>8, <1>9, <2>1, <3>2 DEF IsEntry
      <4>2. p \in 0..(n - 1)
        <5>1. p < n
          BY <1>7, <4>1
        <5> QED
          BY <1>2, <4>1, <5>1
      <4>3. BlockOf(ents[p].base) = f + p
        <5>1. f + p \in Int
          BY <1>2, <4>1
        <5> QED
          BY <1>6, <4>2, <5>1, BlockFirst
      <4>4. (f + p + (-f)) % (2 * n) = p
        <5>1. PICK z : z = 2 * n
          OBVIOUS
        <5>2. z \in Nat \ {0} /\ p \in 0..(z - 1) /\ p = z * 0 + p /\ p \in Int
          BY <1>2, <4>1, <5>1
        <5>3. p = p % z
          BY <5>2, DivisionUnique
        <5>4. f + p + (-f) = p
          BY <1>2, <4>1
        <5> QED
          BY <5>1, <5>3, <5>4
      <4> QED
        BY <1>8, <1>9, <1>11, <3>2, <4>3, <4>4
    <3> QED
      BY <1>3, <3>1, <3>2
  <2>2. /\ current' = indices'[Len(indices')] /\ current'.size = 2 * n
        /\ slotsUsed' <= current'.size
    <3>1. current' = indices'[Len(indices')]
      BY DEF current
    <3>2. current'.size = 2 * n
      BY <1>8, <1>9, <3>1
    <3>3. n <= 2 * n
      BY <1>2
    <3> QED
      BY <1>1, <3>1, <3>2, <3>3
  <2>3. prFront' = (Top' + 1 + e[Len(indices')]) % current'.size
    <3>1. PICK z : z = 2 * n
      OBVIOUS
    <3>2. z \in Nat \ {0} /\ n \in 0..(z - 1) /\ n = z * 0 + n /\ n \in Int
      BY <1>2, <3>1
    <3>3. n = n % z
      BY <3>2, DivisionUnique
    <3>4. Top + 1 + (-f) = n
      BY <1>2
    <3> QED
      BY <1>1, <1>4, <1>9, <1>11, <2>2, <3>1, <3>3, <3>4
  <2>4. \A k \in Circle' : Entry(e, k)'.base = k * BLOCK_SIZE
    BY <1>i, <1>4, <1>13 DEF Rings
  <2>5. Last' >= 0 => IsEntry(Len(indices), current.front)'
    <3>1. ASSUME Last >= 0 PROVE o - 1 \in 0..(n - 1) /\ o - 1 \in 0..(2 * n - 1)
      BY <1>2, <3>1
    <3>2. Last >= 0 => ents[o - 1].block # Null
      BY <1>6, <3>1 DEF Blocks, Null
    <3> QED
      BY <1>4, <1>8, <1>9, <2>2, <3>1, <3>2 DEF IsEntry
  <2>6. \A j \in DOMAIN indices' : \A p \in 0..(indices'[j].size - 1) : IsEntry(j, p)' =>
           (BlockOf(indices'[j].entries[p].base) + e[j]) % indices'[j].size = p
    BY <1>9, <2>1
  <2> QED
    BY <2>2, <2>3, <2>4, <2>5, <2>6 DEF Rings, BlockOf
<1>19. Reads(e)'
  <2>1. ASSUME NEW c \in Consumers PROVE ReadsOf(e, c)'
    <3>0. ReadsOf(a, c)
      BY <1>i DEF Reads
    <3>1. CASE where[c] \notin {"none", "index"}
      <4>1. PICK j, q, p, t, l : /\ j = local[c] /\ q = At(c) /\ p = front[c] /\ t = indices[j].front
                                 /\ l = BlockOf(end[c] - 1)
        OBVIOUS
      <4>2. /\ j \in 1..J
            /\ where[c] = "front" => IsEntry(j, t)
            /\ where[c] = "locate" => IsEntry(j, p)
            /\ where[c] \in {"read", "mark"} => slot[c] = (q + a[j]) % indices[j].size
            /\ where[c] = "mark" => block[c] = Home(a, q)
            /\ \A k \in q..l : EntryIn(a, j, k) = Entry(a, k)
        BY <1>3, <3>0, <3>1, <4>1 DEF ReadsOf
      <4>3. q \in q..l /\ q..l \subseteq Circle
        <5>1. q \in Nat /\ q <= l /\ l \in Int
          BY <1>i, <3>1, <4>1, PendingFacts
        <5>2. q..l \subseteq Circle
          BY <1>i, <3>1, <4>1, ClaimInCircle
        <5> QED
          BY <5>1, <5>2
      <4>4. indices'[j] = indices[j] /\ e[j] = a[j] /\ j \in DOMAIN indices'
        <5>1. j \in 1..(J + 1)
          BY <1>3, <4>2
        <5> QED
          BY <1>9, <1>11, <4>2, <5>1
      <4>5. (where[c] = "front" => IsEntry(j, t)') /\ (where[c] = "locate" => IsEntry(j, p)')
        BY <4>2, <4>4 DEF IsEntry
      <4>6. where[c] = "mark" => block[c] = Home(e, q)'
        BY <1>14, <4>2, <4>3
      <4>7. \A k \in q..l : EntryIn(e, j, k)' = Entry(e, k)'
        BY <1>12, <1>13, <4>2, <4>3
      <4>8. UNCHANGED <<where[c], local[c], front[c], slot[c], block[c], end[c], At(c)>>
        BY <1>1, <1>17
      <4>9. /\ where[c] = "front" => t \in 0..(indices'[j].size - 1) /\ indices'[j].entries[t].block # Null
            /\ where[c] = "locate" => p \in 0..(indices'[j].size - 1) /\ indices'[j].entries[p].block # Null
        BY <4>5 DEF IsEntry
      <4> QED
        BY <4>1, <4>2, <4>4, <4>6, <4>7, <4>8, <4>9 DEF ReadsOf, BlockOf, IsEntry
    <3>2. CASE where[c] \in {"none", "index"}
      BY <1>1, <3>2 DEF ReadsOf
    <3> QED
      BY <3>1, <3>2
  <2> QED
    BY <1>i, <1>1, <2>1 DEF Reads
<1>20. Linked(e)'
  <2>1. /\ Top \in Circle /\ f \in Circle /\ \A k \in f..(Top - 1) : k \in Circle /\ k + 1 \in Circle
        /\ Added # 0 => Last + 1 \in Circle
    BY <1>2, <1>5
  <2>2. /\ \A k \in Circle : Home(e, k)' \in Blocks
        /\ \A k, l \in Circle : Home(e, k)' = Home(e, l)' => k = l
        /\ owned' = {Home(e, k)' : k \in Circle}
    BY <1>i, <1>1, <1>14 DEF Linked
  <2>3. \A k \in f..(Top - 1) : next'[Home(e, k)'] = Home(e, k + 1)'
    BY <1>i, <1>0, <1>1, <1>14, <2>1 DEF Linked
  <2>4. next'[Home(a, Top)] = Home(a, f) /\ tailBlock' = Home(a, Top)
    <3>1. slotsUsed > 0 /\ slotsUsed # 0
      BY <1>1, <1>2
    <3> QED
      BY <1>i, <1>0, <1>1, <3>1 DEF Linked
  <2>5. /\ firstAllocated' = IF Added = 0 THEN Null ELSE Home(a, Last + 1)
        /\ Last \in Circle => startBlock' = Home(a, Last)
        /\ Added = 0 => startBlock' = tailBlock'
    <3>1. step # "idle"
      BY <1>1
    <3> QED
      BY <1>i, <1>1, <3>1 DEF Linked
  <2>6. next' \in [Blocks -> Blocks \union {Null}] /\ startBlock' \in Blocks \union {Null}
    BY <1>i, <1>1 DEF Linked
  <2>7. /\ \A k \in Int : k = Top => Home(e, k)' = Home(a, Top)
        /\ \A k \in Int : k = f => Home(e, k)' = Home(a, f)
        /\ \A k \in Int : k = Last /\ Last \in Circle => Home(e, k)' = Home(a, Last)
        /\ \A k \in Int : k = Last + 1 /\ Added # 0 => Home(e, k)' = Home(a, Last + 1)
    BY <1>14, <2>1
  <2>8. f \in Int /\ Top \in Int /\ Last \in Int /\ Last + 1 \in Int /\ slotsUsed' # 0
    BY <1>1, <1>2
  <2> QED
    BY <1>1, <1>4, <2>1, <2>2, <2>3, <2>4, <2>5, <2>6, <2>7, <2>8 DEF Linked, Blocks
<1>21. Flagged(e)'
  BY <1>i, <1>0, <1>1, <1>4, <1>14, <1>17, FlagsStill
<1>22. Filled(e)'
  <2>1. \A i : Present(i)' <=> Present(i)
    BY <1>1, <1>4, <1>17 DEF Present
  <2> QED
    BY <1>i, <1>1, <1>4, <1>14, <2>1, ContentStill
<1> QED
  BY <1>10, <1>11, <1>15, <1>16, <1>17, <1>18, <1>19, <1>20, <1>21, <1>22 DEF IInv

\* The invariant holds at first,
LEMMA InitStep == Init => \E a : IInv(a)
<1> SUFFICES ASSUME Init PROVE \E a : IInv(a)
  OBVIOUS
<1>0. PICK n, h : /\ n = EXPLICIT_INITIAL_INDEX_SIZE
                  /\ h = [size |-> n, front |-> -1, entries |-> [i \in 0..(n - 1) |-> NoEntry]]
  OBVIOUS
<1>1. n \in Nat \ {0}
  BY <1>0, ExplicitAssumption
<1>2. /\ indices = <<h>> /\ originalFront = 0 /\ originalUsed = 0 /\ slotsUsed = 0 /\ prFront = 0
      /\ flags = [b \in Blocks |-> {}] /\ owned = {}
      /\ local = [c \in Consumers |-> 0] /\ front = [c \in Consumers |-> 0]
      /\ slot = [c \in Consumers |-> 0] /\ block = [c \in Consumers |-> Null]
  BY <1>0 DEF Init
<1>3. /\ tailIndex = 0 /\ headIndex = 0
      /\ step = "idle" /\ count = 0 /\ needed = 0 /\ base = 0
      /\ tailBlock = Null /\ startBlock = Null /\ firstAllocated = Null
      /\ next = [b \in Blocks |-> Null]
      /\ content = [b \in Blocks |-> [o \in Offsets |-> Nothing]]
      /\ where = [c \in Consumers |-> "none"]
      /\ index = [c \in Consumers |-> 0] /\ end = [c \in Consumers |-> 0]
  BY DEF Init, SubInit, Claims!Init
<1>4. Last = -1 /\ Added = 0 /\ Top = -1 /\ First = 0 /\ Circle = {}
  <2>1. tailIndex - 1 = -1
    BY <1>3
  <2>2. Last = -1 /\ Added = 0
    BY <1>3, <2>1, BlockNat DEF Last, Added
  <2>3. Top = -1 /\ First = 0
    BY <1>2, <2>2 DEF Top, First
  <2> QED
    BY <2>2, <2>3 DEF Circle
<1>5. Numbers
  BY <1>3, BlockAssumption DEF Numbers
<1>6. Counted
  BY <1>2, <1>3, <1>4 DEF Counted
<1>7. Claimed
  BY <1>3 DEF Claimed, Places
<1>8. /\ h.size = n /\ h.front = -1 /\ h.entries = [i \in 0..(n - 1) |-> NoEntry]
      /\ h \in RingOf(n) /\ h \in AnyRing
  <2>1. -1 \in -1..(n - 1) /\ NoEntry \in [base : Int, block : Blocks \union {Null}]
    BY <1>1 DEF NoEntry
  <2>2. [i \in 0..(n - 1) |-> NoEntry] \in [0..(n - 1) -> [base : Int, block : Blocks \union {Null}]]
    BY <2>1
  <2>3. h \in RingOf(n)
    BY <1>0, <2>1, <2>2 DEF RingOf
  <2> QED
    BY <1>0, <1>1, <2>3 DEF AnyRing
<1>9. /\ indices \in Seq(AnyRing) /\ Len(indices) = 1 /\ DOMAIN indices = {1} /\ indices[1] = h
      /\ current = h
  <2>1. indices \in Seq(AnyRing) /\ Len(indices) = 1 /\ indices[1] = h
    BY <1>2, <1>8
  <2>2. DOMAIN indices = 1..1 /\ 1..1 = {1}
    BY <2>1
  <2> QED
    BY <2>1, <2>2 DEF current
<1>10. Typed
  BY <1>2, <1>9 DEF Typed
<1>11. PICK a : a = [j \in {1} |-> 0]
  OBVIOUS
<1>12. a \in [DOMAIN indices -> Int] /\ a[1] = 0
  BY <1>9, <1>11
<1>13. Rings(a)
  <2>1. \A p \in 0..(n - 1) : ~IsEntry(1, p)
    <3>1. NoEntry.block = Null
      BY DEF NoEntry
    <3>2. \A p \in 0..(n - 1) : h.entries[p] = NoEntry
      BY <1>8
    <3> QED
      BY <1>9, <3>1, <3>2 DEF IsEntry
  <2>2. 0 = (-1 + 1 + 0) % n
    <3>1. 0 \in 0..(n - 1) /\ 0 = n * 0 + 0
      BY <1>1
    <3>2. 0 = 0 % n
      BY <1>1, <3>1, DivisionUnique
    <3> QED
      BY <3>2
  <2>3. slotsUsed <= current.size
    BY <1>1, <1>2, <1>8, <1>9
  <2> QED
    BY <1>2, <1>4, <1>8, <1>9, <1>12, <2>1, <2>2, <2>3 DEF Rings
<1>14. Reads(a)
  BY <1>2, <1>3 DEF Reads, ReadsOf
<1>15. Linked(a)
  <2>1. 0..(-1 - 1) = {} /\ ~(0 > 0)
    OBVIOUS
  <2> QED
    BY <1>2, <1>3, <1>4, <2>1 DEF Linked
<1>16. Flagged(a)
  <2>1. 0..(0 - 1) = {}
    OBVIOUS
  <2> QED
    BY <1>2, <1>4, <2>1 DEF Flagged
<1>17. Filled(a)
  <2>1. content \in [Blocks -> [Offsets -> Int]]
    BY <1>3 DEF Nothing
  <2> QED
    BY <1>2, <1>3, <1>4, <2>1 DEF Filled
<1> QED
  BY <1>5, <1>6, <1>7, <1>10, <1>12, <1>13, <1>14, <1>15, <1>16, <1>17 DEF IInv

\* when nothing changes,
LEMMA StutterStep ==
    ASSUME NEW a, IInv(a), UNCHANGED vars
    PROVE  IInv(a)'
<1> USE DEF IInv
<1>1. /\ UNCHANGED <<tailIndex, headIndex, step, callVars, tailBlock, next, content, where, index,
                     end, originalFront, originalUsed, ringVars, flags, owned>>
      /\ UNCHANGED <<indices, local, front, slot, block>>
  BY DEF vars, subVars, claimVars, readVars, ringVars
<1>2. /\ \A d : Pending(d)' = Pending(d) /\ At(d)' = At(d)
      /\ \A i : Unread(i)' <=> Unread(i)
  BY <1>1, SameClaims
<1>3. Claimed'
  BY <1>1 DEF Claimed
<1>4. /\ Numbers' /\ Counted' /\ Typed' /\ a \in [DOMAIN indices' -> Int]
      /\ Rings(a)' /\ Linked(a)'
      /\ Last' = Last /\ First' = First /\ Circle' = Circle /\ Written' = Written
      /\ \A k : Home(a, k)' = Home(a, k)
  <2>1. headIndex' \in 0..tailIndex
    BY <1>1 DEF Numbers
  <2> QED
    BY <1>1, <2>1, ConsumerKeeps
<1>5. Reads(a)'
  <2>1. ASSUME NEW d \in Consumers PROVE ReadsOf(a, d)'
    BY <1>1, ReadsOfStill DEF Reads
  <2> QED
    BY <1>1, <2>1 DEF Reads
<1>6. Flagged(a)'
  BY <1>1, <1>2, <1>4, FlagsStill
<1>7. Filled(a)'
  <2>1. \A d : Untaken(d)' = Untaken(d)
    BY <1>1, <1>2 DEF Untaken
  <2>2. \A i : Present(i)' <=> Present(i)
    BY <1>1, <1>4, <2>1 DEF Present
  <2> QED
    BY <1>1, <1>4, <2>2, ContentStill
<1> QED
  BY <1>3, <1>4, <1>5, <1>6, <1>7

\* and after every step, for the same offsets or for those of the new ring as well.
LEMMA NextStep ==
    ASSUME NEW a, IInv(a), ~KeepsBlocks, [Next]_vars
    PROVE  \E b : IInv(b)'
<1>1. ASSUME NEW n \in 1..MaxBulk, Enqueue(n) PROVE \E b : IInv(b)'
  BY <1>1, EnqueueStep
<1>2. CASE ReuseBlock
  BY <1>2, ReuseStep
<1>3. CASE NoReuse
  BY <1>3, NoReuseStep
<1>4. CASE GrowIndex
  BY <1>4, GrowStep
<1>5. CASE AllocBlock
  BY <1>5, AllocStep
<1>6. CASE NoBlock
  <2>1. step \in {"alloc", "try"} /\ Undo
    BY <1>6 DEF NoBlock
  <2>2. IInv(a)'
    BY <2>1, UndoStep
  <2> QED
    BY <2>2
<1>7. CASE Throw
  <2>1. step \in {"alloc", "try"} /\ Undo
    BY <1>7 DEF Throw
  <2>2. IInv(a)'
    BY <2>1, UndoStep
  <2> QED
    BY <2>2
<1>8. CASE Expose
  BY <1>8, ExposeStep
<1>9. CASE Fill
  BY <1>9, FillStep
<1>10. CASE Publish
  BY <1>10, PublishStep
<1>11. ASSUME NEW c \in Consumers, Consume(c) PROVE \E b : IInv(b)'
  <2>1. CASE Dequeue(c)
    BY <2>1, DequeueStep
  <2>2. CASE LoadIndex(c)
    BY <2>2, LoadIndexStep
  <2>3. CASE LoadFront(c)
    BY <2>3, LoadFrontStep
  <2>4. CASE Locate(c)
    BY <2>4, LocateStep
  <2>5. CASE Read(c)
    BY <2>5, ReadStep
  <2>6. CASE Mark(c)
    BY <2>6, MarkStep
  <2> QED
    BY <1>11, <2>1, <2>2, <2>3, <2>4, <2>5, <2>6 DEF Consume
<1>12. CASE UNCHANGED vars
  BY <1>12, StutterStep
<1> QED
  BY <1>1, <1>2, <1>3, <1>4, <1>5, <1>6, <1>7, <1>8, <1>9, <1>10, <1>11, <1>12 DEF Next, Produce

(***************************************************************************)
(* What it implies.                                                        *)
(***************************************************************************)
\* A consumer finds its items,
LEMMA Finds ==
    ASSUME NEW a, IInv(a)
    PROVE  FindsItsItems
<1> USE DEF IInv
<1> SUFFICES ASSUME NEW c \in Consumers, where[c] = "read"
             PROVE  /\ BlockToRead(c) \in owned
                    /\ \A i \in Batch(c) : content[BlockToRead(c)][i % BLOCK_SIZE] = i
  BY DEF FindsItsItems
<1>1. PICK k : k = At(c)
  OBVIOUS
<1>2. BlockToRead(c) = Home(a, k) /\ k \in Circle
  BY <1>1, BlockRead
<1>3. Home(a, k) \in owned
  BY <1>2 DEF Linked
<1>4. ASSUME NEW i \in Batch(c) PROVE content[Home(a, k)][i % BLOCK_SIZE] = i
  <2>1. i \in Items(k)
    BY <1>1, <1>4, BatchFacts
  <2>2. i \in Untaken(c)
    BY DEF Batch, Untaken, Pending
  <2> QED
    BY <1>2, <2>1, <2>2 DEF Filled, Present
<1> QED
  BY <1>2, <1>3, <1>4

\* there are no more items than the bound,
LEMMA PresentBound ==
    ASSUME Numbers, Claimed, NEW i \in Int, Present(i)
    PROVE  i < MaxItems
<1>1. /\ tailIndex \in Nat /\ headIndex \in Nat /\ headIndex <= tailIndex /\ count \in Nat
      /\ tailIndex + count <= MaxItems /\ MaxItems \in Nat
  BY BlockAssumption DEF Numbers
<1>2. Written \in Nat /\ Written <= MaxItems
  BY <1>1 DEF Written
<1>3. CASE i \in headIndex..(Written - 1)
  BY <1>1, <1>2, <1>3
<1>4. ASSUME NEW c \in Consumers, i \in Untaken(c) PROVE i < MaxItems
  <2>1. i \in Pending(c)
    BY <1>4 DEF Untaken
  <2>2. i < headIndex
    BY <2>1, ClaimFacts
  <2> QED
    BY <1>1, <2>2
<1> QED
  BY <1>3, <1>4 DEF Present

\* and the types are right.
LEMMA Types ==
    ASSUME NEW a, IInv(a)
    PROVE  TypeOK
<1> USE DEF IInv
<1>1. /\ tailIndex \in Nat /\ headIndex \in Nat /\ headIndex <= tailIndex
      /\ tailIndex <= MaxItems /\ MaxItems \in Nat
  BY BlockAssumption DEF Numbers
<1>2. index \in [Consumers -> 0..MaxItems] /\ end \in [Consumers -> 0..MaxItems]
  <2>1. index \in [Consumers -> Nat] /\ end \in [Consumers -> Nat]
    BY DEF Claimed
  <2>2. ASSUME NEW c \in Consumers PROVE index[c] \in 0..MaxItems /\ end[c] \in 0..MaxItems
    <3>1. index[c] \in Nat /\ end[c] \in Nat
      BY <2>1
    <3>2. CASE where[c] = "none"
      <4>1. index[c] = 0 /\ end[c] = 0
        BY <3>2 DEF Claimed
      <4> QED
        BY <1>1, <4>1
    <3>3. CASE where[c] # "none"
      <4>1. index[c] < end[c] /\ end[c] <= headIndex
        BY <3>3, PendingFacts
      <4> QED
        BY <1>1, <3>1, <4>1
    <3> QED
      BY <3>2, <3>3
  <2> QED
    BY <2>1, <2>2
<1>3. content \in [Blocks -> [Offsets -> -1..(MaxItems - 1)]]
  <2>1. content \in [Blocks -> [Offsets -> Int]]
    BY DEF Filled
  <2>2. ASSUME NEW b \in Blocks, NEW o \in Offsets PROVE content[b][o] \in -1..(MaxItems - 1)
    <3>1. CASE b \in owned
      <4>1. PICK k \in Circle : b = Home(a, k)
        BY <3>1 DEF Linked
      <4>2. k \in Nat
        BY NumberFacts
      <4>3. PICK i \in Items(k) : i % BLOCK_SIZE = o
        BY <4>2, ItemAt
      <4>4. i \in Nat
        BY <4>2, ItemsTyped
      <4>5. content[b][o] = IF Present(i) THEN i ELSE Nothing
        BY <4>1, <4>3 DEF Filled
      <4>6. Present(i) => i < MaxItems
        BY <4>4, PresentBound
      <4> QED
        BY <1>1, <4>4, <4>5, <4>6 DEF Nothing
    <3>2. CASE b \notin owned
      <4>1. content[b][o] = -1
        BY <3>2 DEF Filled, Nothing
      <4> QED
        BY <1>1, <4>1
    <3> QED
      BY <3>1, <3>2
  <2>3. ASSUME NEW b \in Blocks PROVE content[b] \in [Offsets -> -1..(MaxItems - 1)]
    BY <2>1, <2>2
  <2> QED
    BY <2>1, <2>3
<1>4. {tailBlock, startBlock, firstAllocated} \subseteq Blocks \union {Null}
  <2>1. tailBlock \in Blocks \union {Null}
    <3>1. slotsUsed > 0 => Home(a, Top) \in Blocks
      BY NumberFacts DEF Linked
    <3>2. slotsUsed # 0 => slotsUsed > 0
      BY NumberFacts
    <3> QED
      BY <3>1, <3>2 DEF Linked
  <2>2. firstAllocated \in Blocks \union {Null}
    <3>1. ASSUME Added # 0 PROVE Home(a, Last + 1) \in Blocks
      <4>1. Added > 0 /\ First <= Last + 1 /\ Last + 1 <= Top /\ Last + 1 \in Int /\ First \in Int
        BY <3>1, NumberFacts
      <4>2. Last + 1 \in Circle
        BY <4>1, NumberFacts DEF Circle
      <4> QED
        BY <4>2 DEF Linked
    <3> QED
      BY <3>1 DEF Linked
  <2> QED
    BY <2>1, <2>2 DEF Linked
<1>5. SubTypeOK
  BY <1>1, <1>2, <1>3, <1>4 DEF SubTypeOK, Linked
<1>6. slotsUsed \in 0..current.size /\ prFront \in 0..(current.size - 1)
  <2>1. PICK J : J = Len(indices)
    OBVIOUS
  <2>2. J \in DOMAIN indices /\ current = indices[J] /\ current.size \in Nat \ {0}
    BY <2>1, RingFacts
  <2>3. PICK t : t = Top + 1
    OBVIOUS
  <2>4. t \in Int
    BY <2>3, NumberFacts
  <2>5. (t + a[J]) % indices[J].size \in 0..(indices[J].size - 1)
    BY <2>2, <2>4, EntryFacts
  <2>6. slotsUsed \in Nat /\ slotsUsed <= current.size
    BY DEF Counted, Rings
  <2> QED
    BY <2>1, <2>2, <2>3, <2>5, <2>6 DEF Rings
<1> QED
  BY <1>5, <1>6 DEF TypeOK, Numbers, Flagged, Claimed, Places

\* No item is constructed where one is, or where a consumer has yet to set a flag.
LEMMA Fills ==
    ASSUME NEW a, IInv(a)
    PROVE  FillsFreeSlots
<1> USE DEF IInv
<1> SUFFICES ASSUME step \in {"fill", "try"}, NEW i \in NewItems
             PROVE  /\ content[Target(i)][i % BLOCK_SIZE] = Nothing
                    /\ \A c \in Consumers : where[c] = "mark" /\ block[c] = Target(i)
                            => i % BLOCK_SIZE \notin OffsetsOf(Batch(c))
  BY DEF FillsFreeSlots
<1>1. PICK k : k = BlockOf(i)
  OBVIOUS
<1>2. /\ i \in Nat /\ k \in Circle /\ k \in Nat /\ Target(i) = Home(a, k) /\ ~Present(i) /\ Unread(i)
      /\ i >= tailIndex
  <2>1. i >= tailIndex
    BY DEF NewItems, Numbers
  <2> QED
    BY <1>1, <2>1, TargetIs
<1>3. i \in Items(k)
  BY <1>1, <1>2, BlockIs
<1>4. content[Target(i)][i % BLOCK_SIZE] = Nothing
  BY <1>2, <1>3 DEF Filled
<1>5. ASSUME NEW c \in Consumers, where[c] = "mark", block[c] = Target(i),
             i % BLOCK_SIZE \in OffsetsOf(Batch(c))
      PROVE  FALSE
  <2>1. PICK p \in Batch(c) : i % BLOCK_SIZE = p % BLOCK_SIZE
    BY <1>5 DEF OffsetsOf
  <2>2. PICK l : l = At(c)
    OBVIOUS
  <2>3. l \in Circle /\ l \in Nat
    <3>1. l \in Nat /\ l <= BlockOf(end[c] - 1) /\ BlockOf(end[c] - 1) \in Int
      BY <1>5, <2>2, PendingFacts
    <3>2. l..BlockOf(end[c] - 1) \subseteq Circle
      BY <1>5, <2>2, ClaimInCircle
    <3> QED
      BY <3>1, <3>2
  <2>4. Home(a, l) = Home(a, k)
    <3>1. block[c] = Home(a, l)
      BY <1>5, <2>2 DEF Reads, ReadsOf
    <3> QED
      BY <1>2, <1>5, <3>1
  <2>5. l = k
    BY <1>2, <2>3, <2>4 DEF Linked
  <2>6. p \in Items(k)
    BY <1>5, <2>1, <2>2, <2>5, BatchFacts
  <2>7. p = i
    <3>1. p \in Int /\ p = k * BLOCK_SIZE + (p % BLOCK_SIZE)
      BY <1>2, <2>6, ItemsTyped
    <3>2. i = k * BLOCK_SIZE + (i % BLOCK_SIZE)
      BY <1>2, <1>3, ItemsTyped
    <3> QED
      BY <2>1, <3>1, <3>2
  <2>8. p < headIndex
    <3>1. p \in Pending(c)
      BY <2>1 DEF Batch, Pending
    <3> QED
      BY <3>1, ClaimFacts
  <2>9. headIndex \in Nat /\ tailIndex \in Nat /\ headIndex <= tailIndex
    BY DEF Numbers
  <2> QED
    BY <1>2, <2>7, <2>8, <2>9
<1> QED
  BY <1>4, <1>5

\* When no operation runs, the items unread are those between head and tail, and they
\* are present.
LEMMA RestFacts ==
    ASSUME NEW a, IInv(a), AtRest
    PROVE  /\ Last \in Int /\ -1 <= Last /\ Added = 0 /\ Top = Last /\ Circle = First..Last
           /\ First \in Nat /\ slotsUsed \in Nat /\ First = Last - slotsUsed + 1
           /\ tailIndex \in Nat /\ headIndex \in Nat /\ headIndex <= tailIndex
           /\ \A i : Unread(i) <=> i >= headIndex
           /\ \A i : Present(i) <=> i \in headIndex..(tailIndex - 1)
<1> USE DEF IInv
<1>1. step = "idle" /\ Added = 0
  BY DEF AtRest, Added
<1>2. /\ Last \in Int /\ -1 <= Last /\ Top = Last + Added /\ First \in Nat /\ slotsUsed \in Nat
      /\ First = Top - slotsUsed + 1
  BY NumberFacts
<1>3. Top = Last
  BY <1>1, <1>2
<1>4. \A c \in Consumers : Pending(c) = {} /\ Untaken(c) = {}
  <2> TAKE c \in Consumers
  <2>1. where[c] = "none" /\ index[c] = 0 /\ end[c] = 0
    BY DEF AtRest, Claimed
  <2>2. 0..(0 - 1) = {}
    OBVIOUS
  <2> QED
    BY <2>1, <2>2 DEF Pending, Untaken
<1>5. tailIndex \in Nat /\ headIndex \in Nat /\ headIndex <= tailIndex
  BY DEF Numbers
<1>6. Written = tailIndex
  BY <1>1, <1>5 DEF Written
<1> QED
  BY <1>1, <1>2, <1>3, <1>4, <1>5, <1>6 DEF Circle, Unread, Present

\* The search from the oldest entry ends at the block of the head.
LEMMA HeadBlock ==
    ASSUME NEW a, IInv(a), AtRest, headIndex % BLOCK_SIZE # 0
    PROVE  BlockOf(headIndex) \in Circle /\ halfDequeued = Home(a, BlockOf(headIndex))
<1>i. Numbers /\ Counted /\ Flagged(a) /\ Rings(a) /\ Typed /\ a \in [DOMAIN indices -> Int]
  BY DEF IInv
<1>0. PICK h, q, J, n, f, u : /\ h = headIndex /\ q = BlockOf(h) /\ J = Len(indices)
                              /\ n = current.size /\ f = First /\ u = slotsUsed
  OBVIOUS
<1>1. /\ Last \in Int /\ Top = Last /\ Circle = f..Last /\ f \in Nat /\ u \in Nat
      /\ f = Last - u + 1 /\ h \in Nat /\ Unread(h) /\ h <= tailIndex /\ tailIndex \in Nat
  BY <1>0, RestFacts
<1>2. q \in Nat /\ f <= q
  BY <1>i, <1>0, <1>1, UnreadAhead
<1>3. PICK r : r = h % BLOCK_SIZE
  OBVIOUS
<1>4. r \in 1..(BLOCK_SIZE - 1) /\ h = q * BLOCK_SIZE + r
  <2>1. r \in 0..(BLOCK_SIZE - 1) /\ h = q * BLOCK_SIZE + r
    BY <1>0, <1>1, <1>3, BlockTyped DEF Offsets
  <2> QED
    BY <1>0, <1>3, <2>1, BlockSize
<1>5. q <= Last
  <2>1. h - 1 \in Items(q)
    <3>1. q * BLOCK_SIZE \in Int
      BY <1>2, BlockFirst
    <3> QED
      BY <1>1, <1>4, <3>1, BlockSize DEF Items
  <2>2. h - 1 \in Int /\ tailIndex - 1 \in Int /\ h - 1 <= tailIndex - 1
    BY <1>1
  <2>3. BlockOf(h - 1) = q
    BY <1>2, <2>1, <2>2, BlockIs
  <2> QED
    BY <2>2, <2>3, BlockMono DEF Last
<1>6. q \in Circle
  BY <1>1, <1>2, <1>5
<1>7. /\ J \in DOMAIN indices /\ current = indices[J] /\ n \in Nat \ {0} /\ a[J] \in Int
      /\ prFront = (Last + 1 + a[J]) % n /\ u <= n
  <2>1. J \in DOMAIN indices /\ current = indices[J] /\ n \in Nat \ {0} /\ a[J] \in Int
    BY <1>i, <1>0, RingFacts
  <2>2. prFront = (Top + 1 + a[J]) % n /\ slotsUsed <= n
    BY <1>i, <1>0 DEF Rings
  <2> QED
    BY <1>0, <1>1, <2>1, <2>2
<1> DEFINE S(k) == (prFront - slotsUsed + k) % current.size
           found == {k \in 0..(current.size - 1) :
                        headIndex <= current.entries[S(k)].base + BLOCK_SIZE}
<1>8. ASSUME NEW k \in Int PROVE current.entries[S(k)] = Entry(a, f + k)
  <2>1. PICK x, y : x = Last + 1 + a[J] /\ y = k - u
    OBVIOUS
  <2>2. x \in Int /\ y \in Int /\ x + y = (f + k) + a[J]
    <3>1. PICK t, w : t = a[J] /\ w = Last
      OBVIOUS
    <3>2. t \in Int /\ w \in Int /\ u \in Int /\ f + u = w + 1
      BY <1>1, <1>7, <3>1
    <3>3. x = w + 1 + t /\ y = k - u /\ f \in Int /\ k \in Int
      BY <1>1, <1>8, <2>1, <3>1
    <3> HIDE DEF S, found
    <3>4. x \in Int /\ y \in Int
      BY <3>2, <3>3
    <3>5. x + y = (f + k) + t
      BY <3>2, <3>3
    <3> QED
      BY <3>1, <3>4, <3>5
  <2>3. ((x % n) + y) % n = (x + y) % n
    BY <1>7, <2>2, ModSum
  <2>4. x % n \in Int
    BY <1>7, <2>2, Division
  <2>5. prFront - slotsUsed + k = (x % n) + y
    <3>1. prFront = x % n
      BY <1>7, <2>1
    <3> QED
      BY <1>0, <1>1, <2>1, <2>4, <3>1
  <2>6. S(k) = ((f + k) + a[J]) % n
    BY <1>0, <2>2, <2>3, <2>5
  <2> QED
    BY <1>0, <1>7, <2>6 DEF Entry, EntryIn
<1>9. PICK z : z = q - f
  OBVIOUS
<1>10. z \in 0..(u - 1) /\ z \in 0..(n - 1) /\ z \in Int /\ f + z = q
  BY <1>1, <1>2, <1>5, <1>7, <1>9
<1>11. ASSUME NEW k \in 0..(n - 1), k <= z
       PROVE  k \in found <=> k = z
  <2>1. PICK l : l = f + k
    OBVIOUS
  <2>2. k \in Int /\ l \in Int /\ l \in f..Last /\ (k = z <=> l = q) /\ l <= q
    BY <1>1, <1>2, <1>5, <1>7, <1>10, <1>11, <2>1
  <2>3. current.entries[S(k)].base = l * BLOCK_SIZE
    BY <1>i, <1>1, <1>8, <2>1, <2>2 DEF Rings
  <2>4. k \in found <=> h <= l * BLOCK_SIZE + BLOCK_SIZE
    BY <1>0, <1>11, <2>3
  <2>5. l * BLOCK_SIZE \in Int /\ q * BLOCK_SIZE \in Int
    BY <1>2, <2>2, BlockFirst
  <2>6. CASE l = q
    BY <1>4, <2>2, <2>4, <2>5, <2>6, BlockSize
  <2>7. CASE l # q
    <3>1. BLOCK_SIZE * l + BLOCK_SIZE <= BLOCK_SIZE * q
      BY <1>2, <2>2, <2>7, Gap, BlockSize
    <3>2. l * BLOCK_SIZE + BLOCK_SIZE <= q * BLOCK_SIZE
      BY <1>2, <2>2, <3>1, BlockSize
    <3> QED
      BY <1>4, <2>2, <2>4, <2>5, <2>7, <3>2, BlockSize
  <2> QED
    BY <2>6, <2>7
<1>12. found \subseteq Int /\ z \in found /\ \A k \in found : z <= k
  <2>1. found \subseteq 0..(n - 1)
    BY <1>0
  <2>2. z \in found
    BY <1>10, <1>11
  <2>3. ASSUME NEW k \in found, ~(z <= k) PROVE FALSE
    <3>1. k \in 0..(n - 1) /\ k \in Int
      BY <1>7, <2>1
    <3>2. k <= z /\ k # z
      BY <1>10, <2>3, <3>1
    <3> QED
      BY <1>11, <3>1, <3>2
  <2>4. 0..(n - 1) \subseteq Int
    BY <1>7
  <2> QED
    BY <2>1, <2>2, <2>3, <2>4
<1>13. HeadSlot = S(z)
  <2>1. HeadSlot = S(CHOOSE k \in found : \A l \in found : k <= l)
    BY DEF HeadSlot
  <2> HIDE DEF found
  <2>2. \A k \in found : (\A l \in found : k <= l) => k = z
    BY <1>10, <1>12
  <2>3. (CHOOSE k \in found : \A l \in found : k <= l) = z
    BY <1>12, <2>2
  <2> QED
    BY <2>1, <2>3
<1>14. halfDequeued = Home(a, q)
  <2>1. current.entries[HeadSlot] = Entry(a, q)
    BY <1>8, <1>10, <1>13
  <2>2. halfDequeued = current.entries[HeadSlot].block
    BY DEF halfDequeued
  <2> QED
    BY <2>1, <2>2 DEF Home
<1> QED
  BY <1>0, <1>6, <1>14

\* Which items of the blocks in the circle the destructor destroys.
LEMMA Destructs ==
    ASSUME NEW a, IInv(a)
    PROVE  DestroysWhatIsLeft
<1>i. Numbers /\ Counted /\ Linked(a) /\ Flagged(a) /\ Filled(a)
  BY DEF IInv
<1> SUFFICES ASSUME AtRest PROVE Destructed = Constructed
  BY DEF DestroysWhatIsLeft
<1>0. PICK h, t, q, r, s : /\ h = headIndex /\ t = tailIndex /\ q = BlockOf(h)
                           /\ r = h % BLOCK_SIZE /\ s = t % BLOCK_SIZE
  OBVIOUS
<1>1. /\ Last \in Int /\ Added = 0 /\ Top = Last /\ Circle = First..Last
      /\ h \in Nat /\ t \in Nat /\ h <= t /\ First \in Nat
      /\ \A i : Unread(i) <=> i >= h
      /\ \A i : Present(i) <=> i \in h..(t - 1)
  BY <1>0, RestFacts
<1>2. q \in Nat /\ r \in Offsets /\ h = q * BLOCK_SIZE + r /\ s \in Offsets /\ q * BLOCK_SIZE \in Int
  BY <1>0, <1>1, BlockTyped, BlockNat, BlockFirst
<1>3. r # 0 => q \in Circle /\ halfDequeued = Home(a, q)
  BY <1>0, HeadBlock
<1>4. r = 0 => halfDequeued = Null
  BY <1>0 DEF halfDequeued
<1>5. owned = {Home(a, k) : k \in Circle} /\ owned \subseteq Blocks
      /\ \A k, l \in Circle : Home(a, k) = Home(a, l) => k = l
  BY <1>i DEF Linked
\* A block is empty when the head is beyond it.
<1>6. ASSUME NEW k \in Circle PROVE ~is_empty(Home(a, k)) <=> q <= k
  <2>1. k \in Nat /\ k <= Last
    BY <1>1
  <2>2. flags[Home(a, k)] = ReadFrom(k)
    BY <1>i, <2>1 DEF Flagged
  <2>3. k * BLOCK_SIZE \in Int
    BY <2>1, BlockFirst
  <2>4. ASSUME q <= k PROVE ReadFrom(k) # Offsets
    <3>1. PICK o : o = BLOCK_SIZE - 1
      OBVIOUS
    <3>2. o \in Offsets
      BY <3>1, BlockSize DEF Offsets
    <3>3. ASSUME NEW i \in Items(k), i % BLOCK_SIZE = o PROVE Unread(i)
      <4>1. i = k * BLOCK_SIZE + o /\ i \in Int
        BY <2>1, <3>3, ItemsTyped
      <4>2. q * BLOCK_SIZE <= k * BLOCK_SIZE
        BY <1>2, <2>1, <2>4, BlockSize
      <4>3. h <= q * BLOCK_SIZE + o /\ o \in Int
        BY <1>2, <3>1, BlockSize DEF Offsets
      <4>4. i >= h
        BY <1>1, <1>2, <2>3, <4>1, <4>2, <4>3
      <4> QED
        BY <1>1, <4>4
    <3>4. o \notin ReadFrom(k)
      BY <3>3 DEF ReadFrom
    <3> QED
      BY <3>2, <3>4
  <2>5. ASSUME k < q PROVE ReadFrom(k) = Offsets
    <3>1. ASSUME NEW i \in Items(k) PROVE ~Unread(i)
      <4>1. BLOCK_SIZE * k + BLOCK_SIZE <= BLOCK_SIZE * q
        BY <1>2, <2>1, <2>5, Gap, BlockSize
      <4>2. k * BLOCK_SIZE + BLOCK_SIZE <= q * BLOCK_SIZE
        BY <1>2, <2>1, <4>1, BlockSize
      <4>3. i <= k * BLOCK_SIZE + BLOCK_SIZE - 1 /\ i \in Int
        BY <2>3, BlockSize DEF Items
      <4>4. q * BLOCK_SIZE <= h
        BY <1>2, BlockSize DEF Offsets
      <4>5. i < h
        BY <1>1, <1>2, <2>3, <4>2, <4>3, <4>4, BlockSize
      <4> QED
        BY <1>1, <4>3, <4>5
    <3>2. ASSUME NEW o \in Offsets PROVE o \in ReadFrom(k)
      <4>1. PICK i \in Items(k) : i % BLOCK_SIZE = o
        BY <2>1, ItemAt
      <4> QED
        BY <3>1, <4>1 DEF ReadFrom
    <3>3. ReadFrom(k) \subseteq Offsets
      BY <2>1, ItemsTyped DEF ReadFrom
    <3> QED
      BY <3>2, <3>3
  <2>6. q <= k \/ k < q
    BY <1>2, <2>1
  <2>7. q <= k => ~(k < q)
    BY <1>2, <2>1
  <2> QED
    BY <2>2, <2>4, <2>5, <2>6, <2>7 DEF is_empty
\* Of the block of the head it destroys what is from the head on.
<1>7. ASSUME NEW k \in Circle, NEW o \in Offsets
      PROVE  ~is_empty(Home(a, k)) /\ (Home(a, k) = halfDequeued => o >= r)
             <=> k * BLOCK_SIZE + o >= h
  <2>1. k \in Nat /\ k * BLOCK_SIZE \in Int /\ o \in 0..(BLOCK_SIZE - 1) /\ o \in Int
    BY <1>1, BlockFirst, BlockSize DEF Offsets
  <2>2. r \in Int /\ 0 <= r /\ r <= BLOCK_SIZE - 1
    BY <1>2, BlockSize DEF Offsets
  <2>3. CASE k < q
    <3>1. BLOCK_SIZE * k + BLOCK_SIZE <= BLOCK_SIZE * q
      BY <1>2, <2>1, <2>3, Gap, BlockSize
    <3>2. k * BLOCK_SIZE + BLOCK_SIZE <= q * BLOCK_SIZE
      BY <1>2, <2>1, <3>1, BlockSize
    <3>3. ~(k * BLOCK_SIZE + o >= h)
      BY <1>2, <2>1, <2>2, <3>2, BlockSize
    <3>4. ~(q <= k)
      BY <1>2, <2>1, <2>3
    <3> QED
      BY <1>6, <3>3, <3>4
  <2>4. CASE k = q
    <3>1. k * BLOCK_SIZE + o >= h <=> o >= r
      BY <1>2, <2>1, <2>2, <2>4
    <3>2. ~is_empty(Home(a, k))
      BY <1>2, <1>6, <2>4
    <3>3. r = 0 => o >= r
      BY <2>1
    <3>4. r # 0 => Home(a, k) = halfDequeued
      BY <1>3, <2>4
    <3> QED
      BY <3>1, <3>2, <3>3, <3>4
  <2>5. CASE q < k
    <3>1. BLOCK_SIZE * q + BLOCK_SIZE <= BLOCK_SIZE * k
      BY <1>2, <2>1, <2>5, Gap, BlockSize
    <3>2. q * BLOCK_SIZE + BLOCK_SIZE <= k * BLOCK_SIZE
      BY <1>2, <2>1, <3>1, BlockSize
    <3>3. k * BLOCK_SIZE + o >= h
      BY <1>2, <2>1, <2>2, <3>2, BlockSize
    <3>4. q <= k /\ k # q
      BY <1>2, <2>1, <2>5
    <3>5. r # 0 => Home(a, k) # halfDequeued
      BY <1>3, <1>5, <3>4
    <3>6. r = 0 => Home(a, k) # halfDequeued
      <4>1. Home(a, k) \in Blocks
        BY <1>5
      <4> QED
        BY <1>4, <4>1 DEF Blocks, Null
    <3> QED
      BY <1>6, <3>3, <3>4, <3>5, <3>6
  <2> QED
    BY <1>2, <2>1, <2>3, <2>4, <2>5
\* Of the tail block it destroys what is before the tail.
<1>8. ASSUME NEW k \in Circle, NEW o \in Offsets
      PROVE  (Home(a, k) = tailBlock /\ s # 0 => o < s) <=> k * BLOCK_SIZE + o <= t - 1
  <2>1. /\ k \in Nat /\ k <= Last /\ k * BLOCK_SIZE \in Int /\ o \in Int
        /\ 0 <= o /\ o <= BLOCK_SIZE - 1
    BY <1>1, BlockFirst, BlockSize DEF Offsets
  <2>2. Last \in Circle /\ tailBlock = Home(a, Last)
    <3>1. slotsUsed # 0
      BY <1>i, <1>1, RestFacts
    <3>2. First <= Last
      BY <1>1, <2>1
    <3> QED
      BY <1>i, <1>1, <3>1, <3>2 DEF Linked
  <2>3. Home(a, k) = tailBlock <=> k = Last
    BY <1>5, <2>2
  <2>4. PICK f : f = Last * BLOCK_SIZE
    OBVIOUS
  <2>5. t - 1 \in Int /\ f \in Int /\ t - 1 \in f..(f + BLOCK_SIZE - 1)
    <3>1. t - 1 \in Int /\ Last = BlockOf(t - 1)
      BY <1>0, <1>1 DEF Last
    <3>2. t - 1 \in Items(Last)
      BY <1>1, <3>1, BlockIs
    <3> QED
      BY <1>1, <2>4, <3>1, <3>2, BlockFirst DEF Items
  <2>6. CASE k < Last
    <3>1. BLOCK_SIZE * k + BLOCK_SIZE <= BLOCK_SIZE * Last
      BY <1>1, <2>1, <2>6, Gap, BlockSize
    <3>2. k * BLOCK_SIZE + BLOCK_SIZE <= f
      BY <1>1, <2>1, <2>4, <3>1, BlockSize
    <3>3. k * BLOCK_SIZE + o <= t - 1
      BY <2>1, <2>5, <3>2, BlockSize
    <3>4. k # Last
      BY <1>1, <2>1, <2>6
    <3> QED
      BY <2>3, <3>3, <3>4
  <2>7. CASE k = Last /\ s # 0
    <3>1. t = f + s /\ s \in Int
      <4>1. s \in Int /\ t = BlockOf(t) * BLOCK_SIZE + s
        BY <1>0, <1>1, <1>2, BlockTyped DEF Offsets
      <4>2. t # f + BLOCK_SIZE
        <5>1. ASSUME t = f + BLOCK_SIZE PROVE s = 0
          <6>1. PICK l, z : l = Last + 1 /\ z = 0
            OBVIOUS
          <6>2. l \in Int /\ z \in 0..(BLOCK_SIZE - 1) /\ t = BLOCK_SIZE * l + z
            BY <1>1, <2>4, <5>1, <6>1, BlockFirst, BlockSize
          <6>3. z = t % BLOCK_SIZE
            BY <1>1, <6>2, BlockSize, DivisionUnique
          <6> QED
            BY <1>0, <6>1, <6>3
        <5> QED
          BY <2>7, <5>1
      <4>3. t \in Items(Last)
        BY <1>1, <2>4, <2>5, <4>2, BlockSize DEF Items
      <4>4. BlockOf(t) = Last
        BY <1>1, <4>3, BlockIs
      <4> QED
        BY <2>4, <4>1, <4>4
    <3>2. k * BLOCK_SIZE = f
      BY <2>4, <2>7
    <3>3. k * BLOCK_SIZE + o <= t - 1 <=> o < s
      BY <2>1, <2>5, <3>1, <3>2
    <3> QED
      BY <2>3, <2>7, <3>3
  <2>8. CASE k = Last /\ s = 0
    <3>1. t = f + BLOCK_SIZE
      <4>1. ASSUME t # f + BLOCK_SIZE PROVE FALSE
        <5>1. t \in Items(Last)
          BY <1>1, <2>4, <2>5, <4>1, BlockSize DEF Items
        <5>2. t = f + s
          BY <1>0, <1>1, <2>4, <5>1, ItemsTyped
        <5> QED
          BY <2>5, <2>8, <5>2
      <4> QED
        BY <4>1
    <3>2. k * BLOCK_SIZE = f
      BY <2>4, <2>8
    <3>3. k * BLOCK_SIZE + o <= t - 1
      BY <2>1, <2>5, <3>1, <3>2, BlockSize
    <3> QED
      BY <2>8, <3>3
  <2> QED
    BY <1>1, <2>1, <2>6, <2>7, <2>8
<1>9. ASSUME NEW k \in Circle, NEW o \in Offsets
      PROVE  <<Home(a, k), o>> \in Destructed <=> content[Home(a, k)][o] # Nothing
  <2>1. PICK i : i = k * BLOCK_SIZE + o
    OBVIOUS
  <2>2. k \in Nat /\ k * BLOCK_SIZE \in Int /\ o \in Int /\ 0 <= o /\ o <= BLOCK_SIZE - 1
    BY <1>1, BlockFirst, BlockSize DEF Offsets
  <2>3. i \in Items(k) /\ i \in Int
    BY <2>1, <2>2, BlockSize DEF Items
  <2>4. i % BLOCK_SIZE = o
    <3>1. PICK m, f : m = i % BLOCK_SIZE /\ f = k * BLOCK_SIZE
      OBVIOUS
    <3>2. i = f + m /\ m \in Int /\ f \in Int
      BY <2>2, <2>3, <3>1, BlockSize, ItemsTyped DEF Offsets
    <3>3. i = f + o
      BY <2>1, <3>1
    <3>4. m = o
      BY <2>2, <3>2, <3>3
    <3> QED
      BY <3>1, <3>4
  <2>5. i \in Nat
    BY <2>2, <2>3, ItemsTyped
  <2>6. content[Home(a, k)][o] = IF Present(i) THEN i ELSE Nothing
    BY <1>i, <2>3, <2>4 DEF Filled
  <2>7. content[Home(a, k)][o] # Nothing <=> Present(i)
    BY <2>5, <2>6 DEF Nothing
  <2>8. Present(i) <=> i >= h /\ i <= t - 1
    BY <1>1, <2>5
  <2>9. Home(a, k) \in owned
    BY <1>5
  <2>10. <<Home(a, k), o>> \in Destructed <=>
            /\ ~is_empty(Home(a, k)) /\ (Home(a, k) = halfDequeued => o >= r)
            /\ (Home(a, k) = tailBlock /\ s # 0 => o < s)
    BY <1>0, <2>9 DEF Destructed
  <2> QED
    BY <1>7, <1>8, <2>1, <2>7, <2>8, <2>10
<1>10. Destructed \subseteq Constructed
  <2>1. ASSUME NEW p \in Destructed PROVE p \in Constructed
    <3>1. p \in owned \X Offsets
      BY DEF Destructed
    <3>2. PICK b \in owned, o \in Offsets : p = <<b, o>>
      BY <3>1
    <3>3. PICK k \in Circle : b = Home(a, k)
      BY <1>5
    <3>4. content[b][o] # Nothing /\ b \in Blocks
      BY <1>5, <1>9, <3>2, <3>3
    <3> QED
      BY <3>2, <3>4 DEF Constructed
  <2> QED
    BY <2>1
<1>11. Constructed \subseteq Destructed
  <2>1. ASSUME NEW p \in Constructed PROVE p \in Destructed
    <3>1. PICK b \in Blocks, o \in Offsets : p = <<b, o>> /\ content[b][o] # Nothing
      BY DEF Constructed
    <3>2. b \in owned
      BY <1>i, <3>1 DEF Filled
    <3>3. PICK k \in Circle : b = Home(a, k)
      BY <1>5, <3>2
    <3> QED
      BY <1>9, <3>1, <3>3
  <2> QED
    BY <2>1
<1> QED
  BY <1>10, <1>11

\* The invariant, for some offsets of the rings.
Indexed == \E a : IInv(a)

\* It holds of every state that the producer and the consumers bring the queue to.
LEMMA Inductive == ASSUME ~KeepsBlocks PROVE Spec => []Indexed
<1>1. Init => Indexed
  BY InitStep DEF Indexed
<1>2. Indexed /\ [Next]_vars => Indexed'
  <2> SUFFICES ASSUME NEW a, IInv(a), [Next]_vars PROVE Indexed'
    BY DEF Indexed
  <2>1. \E b : IInv(b)'
    BY NextStep
  <2> QED
    BY <2>1 DEF Indexed
<1> QED
  BY <1>1, <1>2, PTL DEF Spec

\* As long as no failed call keeps blocks: a consumer that has claimed items finds them
\* in the block that the index it loaded gives for them, although the producer reuses
\* empty blocks, overwrites their entries and replaces the index by a larger one
\* between any two of its steps (ExplicitProducer::dequeue_bulk, new_block_index).
THEOREM ExplicitFindsItsItems == ASSUME ~KeepsBlocks PROVE Spec => []FindsItsItems
<1>1. Indexed => FindsItsItems
  BY Finds DEF Indexed
<1> QED
  BY <1>1, Inductive, PTL

\* As long as no failed call keeps blocks: no item is constructed over one that has not
\* been read, or in a slot whose flag a consumer has still to set (is_empty tells the
\* producer so, ExplicitProducer::enqueue_bulk), and the destructor destroys exactly the
\* items left, from the half-dequeued block to the tail block.
THEOREM ExplicitInvariant == ASSUME ~KeepsBlocks PROVE Spec => []ExplicitInv
<1>1. Indexed => ExplicitInv
  BY Types, Fills, Destructs DEF Indexed, ExplicitInv
<1> QED
  BY <1>1, Inductive, PTL
================================================================================
