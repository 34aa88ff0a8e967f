---------------------------- MODULE ImplicitProofs -----------------------------
(***************************************************************************)
(* That the consumers of an implicit producer find their items and that    *)
(* its destructor finds what is left, proved for every set of consumers    *)
(* and blocks, every size of a block and of the index, and any number of   *)
(* items and calls, failing ones included.  The invariant, IInv, says      *)
(* which blocks are in use, that the index in force leads to each of them, *)
(* and that every older index a consumer may still hold leads to the same  *)
(* entries as far as its holder looks.                                     *)
(***************************************************************************)
EXTENDS ImplicitQueue, FiniteSetTheorems, SequenceTheorems, WellFoundedInduction, TLAPS

(***************************************************************************)
(* Blocks are numbered as their items are: block number k is for the items *)
(* k * BLOCK_SIZE and on.                                                  *)
(***************************************************************************)
Items(k) == k * BLOCK_SIZE .. k * BLOCK_SIZE + BLOCK_SIZE - 1

\* The number of the block with the last published item, and of the one that the
\* tail of the index stands for.
Last == BlockOf(tailIndex - 1)
Added == IF step = "idle" THEN 0 ELSE Found
Removed == IF step = "undo" THEN Added - Len(undo) ELSE 0
AtTail == Last + Added - Removed + IF step = "block" THEN 1 ELSE 0

\* The items a consumer has claimed and not yet marked; once it has marked those of
\* a block it empties, they are in the other blocks.
Emptied(c) == where[c] \in {"remove", "free"}
At(c) == BlockOf(index[c])
Pending(c) == {i \in index[c]..(end[c] - 1) : Emptied(c) => BlockOf(i) # At(c)}
Unread(i) == i >= headIndex \/ \E c \in Consumers : i \in Pending(c)
UnreadOf(k) == {i \in Items(k) : Unread(i)}

\* The items that are in their place.
Written == tailIndex + IF step = "publish" THEN count ELSE 0
Untaken(c) == {i \in Pending(c) : where[c] = "mark" => BlockOf(i) # At(c)}
Present(i) == i \in headIndex..(Written - 1) \/ \E c \in Consumers : i \in Untaken(c)

\* The blocks the index must still lead to, those it leads to by now, and the numbers
\* from the first such block on.
Needed(k) == UnreadOf(k) # {} \/ \E c \in Consumers : where[c] = "remove" /\ At(c) = k
InUse == {k \in 0..(Last + Added) : (k <= Last \/ k > Last + Removed) /\ Needed(k)}
Since(k) == \E l \in 0..k : Needed(l)

(***************************************************************************)
(* The rings.  In the header j block number k has the place k + a[j], the  *)
(* same however often the tail goes round or is rewound.                   *)
(***************************************************************************)
EntryIn(a, j, k) == headers[j].index[(k + a[j]) % headers[j].capacity]
Entry(a, k) == EntryIn(a, Len(headers), k)
Home(a, k) == value[Entry(a, k)]

\* The counters and what is left of a call of the producer.
Numbers ==
    /\ tailIndex \in Nat /\ headIndex \in 0..tailIndex
    /\ count \in Nat /\ tailIndex + count <= MaxItems
    /\ needed \in Nat /\ base \in Int
    /\ step \in {"idle", "insert", "block", "undo", "fill", "publish"}
    /\ step = "idle" <=> count = 0
    /\ step # "idle" =>
          /\ Found \in Nat /\ base = (Last + Found) * BLOCK_SIZE
          /\ needed + Found = BlockOf(tailIndex + count - 1) - Last
    /\ step = "block" => needed > 0
    /\ step \in {"fill", "publish"} => needed = 0
    /\ undo \in Seq(Blocks) /\ Len(undo) <= Added
    /\ step # "undo" => undo = <<>>

\* The claims: within what was published and apart; only the consumer that empties a
\* block removes and frees it.
Claimed ==
    /\ where \in [Consumers ->
          {"none", "index", "tail", "locate", "read", "mark", "remove", "free"}]
    /\ index \in [Consumers -> Nat] /\ end \in [Consumers -> Nat]
    /\ \A c \in Consumers :
          IF where[c] = "none" THEN index[c] = 0 /\ end[c] = 0
          ELSE index[c] < end[c] /\ end[c] <= headIndex
    /\ \A c, d \in Consumers : c # d =>
          \/ where[c] = "none" \/ where[d] = "none"
          \/ end[c] <= index[d] \/ end[d] <= index[c]
    /\ \A c \in Consumers : Emptied(c) => UnreadOf(At(c)) = {}
    /\ \A c, d \in Consumers :
          c # d /\ where[c] = "remove" /\ where[d] = "remove" => At(c) # At(d)

\* The indices, their entries and what these hold; two places of the current index
\* have different entries.
HeaderOf(n) == [capacity : {n}, tail : 0..(n - 1), index : [0..(n - 1) -> Nat]]
AnyHeader == UNION {HeaderOf(n) : n \in Nat \ {0}}
Headers ==
    /\ key \in Seq(Int) /\ value \in Seq(Blocks \union {Null})
    /\ Len(value) = Len(key)
    /\ headers \in Seq(AnyHeader)
    /\ headers # <<>>
    /\ \A j \in DOMAIN headers : headers[j].index \in [0..(headers[j].capacity - 1) -> Entries]
    /\ Len(key) = current.capacity
    /\ \A p, q \in 0..(current.capacity - 1) : current.index[p] = current.index[q] => p = q

\* high: the highest number that the tail of the current index has stood for.  No
\* block in use is as far behind it as a round, and its entry, like all since the
\* first block in use, has the key of its number.
CurrentRing(a, high) ==
    /\ AtTail <= high /\ high - current.capacity <= Last
    /\ \A k \in InUse : high - current.capacity < k
    /\ current.tail = (AtTail + a[Len(headers)]) % current.capacity
    /\ \A k \in 0..high : Since(k) => key[Entry(a, k)] = k * BLOCK_SIZE

\* An older index was left with its tail at m[j], and up to there leads to the entries
\* that the current one leads to.
OldRings(a, m) ==
    \A j \in 1..(Len(headers) - 1) :
        /\ headers[j].tail = (m[j] + a[j]) % headers[j].capacity
        /\ m[j] <= m[Len(headers)]
        /\ \A k \in 0..m[j] : Since(k) => EntryIn(a, j, k) = Entry(a, k)

Rings(a, m) == CurrentRing(a, m[Len(headers)]) /\ OldRings(a, m)

\* Where a consumer looks: the tail it loaded and its place are those of numbers no
\* higher than the tail of its own index ever stood for.
ReadsOf(a, m, c) ==
    where[c] \notin {"none", "index"} =>
        LET j == local[c] IN
        /\ j \in DOMAIN headers /\ BlockOf(end[c] - 1) <= m[j]
        /\ where[c] = "locate" =>
              \E x \in BlockOf(end[c] - 1)..m[j] : tail[c] = (x + a[j]) % headers[j].capacity
        /\ where[c] \notin {"tail", "locate"} => slot[c] = (At(c) + a[j]) % headers[j].capacity
        /\ where[c] \in {"mark", "remove"} => block[c] = Home(a, At(c))
Reads(a, m) ==
    /\ DOMAIN local = Consumers /\ DOMAIN tail = Consumers /\ DOMAIN slot = Consumers
    /\ \A c \in Consumers : ReadsOf(a, m, c)

(***************************************************************************)
(* The blocks.                                                             *)
(***************************************************************************)
Unlinked == {CallBlocks[k] : k \in 1..Removed}
HeldBy(c) == IF where[c] = "free" THEN {block[c]} ELSE {}
InIndex(a) == {Home(a, k) : k \in InUse}

\* The blocks of the call under way, linked one to the next and in the index, but for
\* those a failing call has taken out.
Chained(a) ==
    /\ {tailBlock, startBlock, firstAllocated} \subseteq Blocks \union {Null}
    /\ next \in [Blocks -> Blocks \union {Null}]
    /\ Added = 0 <=> firstAllocated = Null
    /\ step # "idle" => CallBlocks \in [1..Added -> Blocks]
    /\ \A k, l \in 1..Added : CallBlocks[k] = CallBlocks[l] => k = l
    /\ Added > 0 => CallBlocks[1] = firstAllocated
    /\ \A k \in 1..(Added - 1) : CallBlocks[k + 1] = next[CallBlocks[k]]
    /\ \A k \in (Removed + 1)..Added : CallBlocks[k] = Home(a, Last + k)
    /\ step \in {"insert", "block", "fill", "publish"} =>
          tailBlock = IF Added = 0 THEN startBlock ELSE CallBlocks[Added]
    /\ step = "undo" => tailBlock = startBlock
    /\ Last \in InUse => Home(a, Last) = IF step = "idle" THEN tailBlock ELSE startBlock

\* Each block is free, in the index under one number, or with the one thread that is
\* about to free it.
Owned(a) ==
    /\ free \subseteq Blocks
    /\ block \in [Consumers -> Blocks \union {Null}]
    /\ \A c \in Consumers : where[c] = "free" => block[c] \in Blocks
    /\ \A k \in InUse : Home(a, k) \in Blocks
    /\ \A k, l \in InUse : Home(a, k) = Home(a, l) => k = l
    /\ \A e \in Entries : value[e] # Null => \E k \in InUse : e = Entry(a, k)
    /\ Blocks = free \union InIndex(a) \union Unlinked \union UNION {HeldBy(c) : c \in Consumers}
    /\ free \intersect (InIndex(a) \union Unlinked \union UNION {HeldBy(c) : c \in Consumers}) = {}
    /\ InIndex(a) \intersect (Unlinked \union UNION {HeldBy(c) : c \in Consumers}) = {}
    /\ \A c \in Consumers : HeldBy(c) \intersect Unlinked = {}
    /\ \A c, d \in Consumers : c # d => HeldBy(c) \intersect HeldBy(d) = {}

\* A block counts the items read from it, and holds those that are present, each in
\* its slot, and nothing else.
Filled(a) ==
    /\ dequeued \in [Blocks -> 0..BLOCK_SIZE]
    /\ \A k \in InUse : dequeued[Home(a, k)] + Cardinality(UnreadOf(k)) = BLOCK_SIZE
    /\ content \in [Blocks -> [Offsets -> Int]]
    /\ \A k \in InUse : \A i \in Items(k) :
          content[Home(a, k)][i % BLOCK_SIZE] = IF Present(i) THEN i ELSE Nothing
    /\ \A b \in Blocks \ InIndex(a) : \A o \in Offsets : content[b][o] = Nothing

(***************************************************************************)
(* Numbers.                                                                *)
(***************************************************************************)
LEMMA Gap ==
    ASSUME NEW c \in Nat \ {0}, NEW x \in Int, NEW y \in Int, x < y
    PROVE  c * x + c <= c * y
<1>1. x + 1 <= y
  OBVIOUS
<1>2. c * (x + 1) <= c * y
  BY <1>1
<1> QED
  BY <1>2

LEMMA Division ==
    ASSUME NEW c \in Nat \ {0}, NEW x \in Int
    PROVE  /\ x \div c \in Int /\ x % c \in 0..(c - 1)
           /\ x = c * (x \div c) + (x % c)
  OBVIOUS

LEMMA DivisionUnique ==
    ASSUME NEW c \in Nat \ {0}, NEW x \in Int, NEW q \in Int, NEW r \in 0..(c - 1),
           x = c * q + r
    PROVE  q = x \div c /\ r = x % c
<1> DEFINE p == x \div c  s == x % c
<1>1. p \in Int /\ s \in 0..(c - 1) /\ x = c * p + s
  BY Division
<1> HIDE DEF p, s
<1>2. ~(p < q)
  BY <1>1, Gap
<1>3. ~(q < p)
  BY <1>1, Gap
<1>4. p = q
  BY <1>1, <1>2, <1>3
<1>5. r = s
  BY <1>1, <1>4
<1> QED
  BY <1>4, <1>5 DEF p, s

\* Remainders: those of a sum, of numbers that are near each other, of whole rounds.
LEMMA ModSum ==
    ASSUME NEW c \in Nat \ {0}, NEW x \in Int, NEW y \in Int
    PROVE  ((x % c) + y) % c = (x + y) % c
<1> DEFINE q == x \div c  r == x % c  p == (r + y) \div c  s == (r + y) % c
<1>1. q \in Int /\ r \in 0..(c - 1) /\ x = c * q + r
  BY Division
<1> HIDE DEF q, r
<1>2. p \in Int /\ s \in 0..(c - 1) /\ r + y = c * p + s
  BY <1>1, Division
<1> HIDE DEF p, s
<1>3. x + y = c * (q + p) + s
  <2>1. c * (q + p) = c * q + c * p
    BY <1>1, <1>2
  <2> QED
    BY <2>1, <1>1, <1>2
<1>4. q + p \in Int /\ x + y \in Int
  BY <1>1, <1>2
<1> DEFINE o == q + p  z == x + y
<1>5. o \in Int /\ z \in Int /\ z = c * o + s
  BY <1>3, <1>4
<1> HIDE DEF o, z
<1>6. s = z % c
  BY <1>2, <1>5, DivisionUnique
<1> QED
  BY <1>6 DEF r, s, z

LEMMA ModNear ==
    ASSUME NEW c \in Nat \ {0}, NEW x \in Int, NEW y \in Int, x % c = y % c,
           x - y < c, y - x < c
    PROVE  x = y
<1> DEFINE q == x \div c  r == x % c  p == y \div c
<1>1. q \in Int /\ r \in 0..(c - 1) /\ x = c * q + r
  BY Division
<1>2. p \in Int /\ y = c * p + r
  BY Division
<1> HIDE DEF q, r, p
<1>3. ~(p < q) /\ ~(q < p)
  BY <1>1, <1>2, Gap
<1>4. p = q
  BY <1>1, <1>2, <1>3
<1> QED
  BY <1>1, <1>2, <1>4

LEMMA ModRound ==
    ASSUME NEW c \in Nat \ {0}, NEW x \in Int
    PROVE  (x - c) % c = x % c
<1> DEFINE q == x \div c  r == x % c
<1>1. q \in Int /\ r \in 0..(c - 1) /\ x = c * q + r
  BY Division
<1> HIDE DEF q, r
<1>2. x - c = c * (q - 1) + r
  BY <1>1
<1>3. r = (x - c) % c
  BY <1>1, <1>2, DivisionUnique
<1> QED
  BY <1>3 DEF r

LEMMA BlockSize == BLOCK_SIZE \in Nat \ {0, 1} /\ BLOCK_SIZE \in Nat \ {0}
  BY BlockAssumption

LEMMA BlockTyped ==
    ASSUME NEW i \in Int
    PROVE  /\ BlockOf(i) \in Int /\ i % BLOCK_SIZE \in Offsets
           /\ i = BlockOf(i) * BLOCK_SIZE + (i % BLOCK_SIZE)
<1>1. BlockOf(i) \in Int /\ i % BLOCK_SIZE \in Offsets
      /\ i = BLOCK_SIZE * BlockOf(i) + (i % BLOCK_SIZE)
  BY BlockSize, Division DEF BlockOf, Offsets
<1> QED
  BY <1>1, BlockSize

LEMMA BlockIs ==
    ASSUME NEW k \in Int, NEW i \in Int
    PROVE  i \in Items(k) <=> BlockOf(i) = k
<1>1. k * BLOCK_SIZE \in Int /\ k * BLOCK_SIZE = BLOCK_SIZE * k
  BY BlockSize
<1>2. ASSUME i \in Items(k) PROVE BlockOf(i) = k
  <2>1. i - k * BLOCK_SIZE \in 0..(BLOCK_SIZE - 1) /\ i = BLOCK_SIZE * k + (i - k * BLOCK_SIZE)
    BY <1>1, <1>2, BlockSize DEF Items
  <2> QED
    BY <2>1, BlockSize, DivisionUnique DEF BlockOf
<1>3. ASSUME BlockOf(i) = k PROVE i \in Items(k)
  <2>1. i % BLOCK_SIZE \in 0..(BLOCK_SIZE - 1) /\ i = k * BLOCK_SIZE + (i % BLOCK_SIZE)
    BY <1>3, BlockTyped DEF Offsets
  <2> QED
    BY <1>1, <2>1, BlockSize DEF Items
<1> QED
  BY <1>2, <1>3

LEMMA BlockMono ==
    ASSUME NEW i \in Int, NEW j \in Int, i <= j
    PROVE  BlockOf(i) <= BlockOf(j)
<1>1. BlockOf(i) \in Int /\ i \in Items(BlockOf(i)) /\ BlockOf(j) \in Int /\ j \in Items(BlockOf(j))
  BY BlockTyped, BlockIs
<1>2. CASE BlockOf(j) < BlockOf(i)
  <2>1. BLOCK_SIZE * BlockOf(j) + BLOCK_SIZE <= BLOCK_SIZE * BlockOf(i)
    BY <1>1, <1>2, Gap, BlockSize
  <2> QED
    BY <1>1, <2>1, BlockSize DEF Items
<1> QED
  BY <1>1, <1>2

LEMMA BlockFirst ==
    ASSUME NEW k \in Int
    PROVE  /\ k * BLOCK_SIZE \in Int /\ BlockOf(k * BLOCK_SIZE) = k
           /\ (k + 1) * BLOCK_SIZE = k * BLOCK_SIZE + BLOCK_SIZE
           /\ (k \in Nat => k * BLOCK_SIZE \in Nat)
           /\ k * BLOCK_SIZE # 1
<1>1. k * BLOCK_SIZE \in Items(k)
  BY BlockSize DEF Items
<1>2. k * BLOCK_SIZE # 1
  <2>1. 1 \in Items(0)
    BY BlockSize DEF Items
  <2>2. BlockOf(1) = 0
    BY <2>1, BlockIs
  <2>3. k * BLOCK_SIZE = 1 => k = 0
    BY <1>1, <2>2, BlockIs, BlockSize
  <2> QED
    BY <2>3, BlockSize
<1> QED
  BY <1>1, <1>2, BlockIs, BlockSize

LEMMA BlockNat ==
    /\ \A i \in Nat : BlockOf(i) \in Nat
    /\ BlockOf(-1) = -1
    /\ \A i \in Nat : BlockOf(i - 1) \in Int /\ -1 <= BlockOf(i - 1)
<1>1. 0 \in Items(0) /\ -1 \in Items(-1)
  BY BlockSize DEF Items
<1>2. BlockOf(0) = 0 /\ BlockOf(-1) = -1
  BY <1>1, BlockIs
<1> QED
  BY <1>2, BlockMono, BlockTyped
LEMMA LeastNat ==
    ASSUME NEW S \in SUBSET Nat, S # {}
    PROVE  \E n \in S : \A m \in S : n <= m
<1> DEFINE R == {ss \in Nat \X Nat : ss[1] < ss[2]}
<1>1. IsWellFoundedOn(R, Nat)
  BY NatLessThanWellFounded DEF OpToRel
<1> HIDE DEF R
<1>2. PICK n \in S : \A m \in S : ~(<<m, n>> \in R)
  BY <1>1, WFMin
<1>3. \A m \in S : m \in Nat /\ n \in Nat /\ ~(m < n)
  BY <1>2 DEF R
<1>4. \A m \in S : n <= m
  BY <1>3
<1> QED
  BY <1>4

\* f is a path of n blocks.
IsPath(first, following, n, f) ==
    /\ DOMAIN f = 1..n /\ f = [k \in DOMAIN f |-> f[k]]
    /\ n > 0 => f[1] = first
    /\ \A k \in 1..(n - 1) : f[k + 1] = following[f[k]]

LEMMA PathIs ==
    ASSUME NEW n \in Nat, NEW first, NEW following, NEW f, IsPath(first, following, n, f)
    PROVE  Path(first, following, n) = f
<1> USE DEF IsPath
<1> DEFINE Rec(p) == [k \in 1..n |-> IF k = 1 THEN first ELSE following[p[k - 1]]]
<1>0. f = [k \in 1..n |-> f[k]]
  OBVIOUS
<1>1. f = Rec(f)
  <2>1. ASSUME NEW k \in 1..n PROVE f[k] = IF k = 1 THEN first ELSE following[f[k - 1]]
    <3>1. CASE k = 1
      BY <3>1
    <3>2. CASE k # 1
      <4>1. k - 1 \in 1..(n - 1) /\ (k - 1) + 1 = k
        BY <3>2
      <4>2. f[(k - 1) + 1] = following[f[k - 1]]
        BY <4>1
      <4> QED
        BY <3>2, <4>1, <4>2
    <3> QED
      BY <3>1, <3>2
  <2> QED
    BY <1>0, <2>1
<1> DEFINE p == Path(first, following, n)
<1>2. p = Rec(p)
  BY <1>1 DEF Path
<1> HIDE DEF p
<1>3. ASSUME NEW k \in 1..n, p[k] # f[k] PROVE FALSE
  <2> DEFINE S == {j \in 1..n : p[j] # f[j]}
  <2>0. S \in SUBSET Nat /\ S # {}
    BY <1>3
  <2> HIDE DEF S
  <2>1. PICK j \in S : \A m \in S : j <= m
    BY <2>0, LeastNat
  <2> USE DEF S
  <2>2. p[j] = IF j = 1 THEN first ELSE following[p[j - 1]]
    BY <1>2
  <2>3. f[j] = IF j = 1 THEN first ELSE following[f[j - 1]]
    BY <1>1
  <2>4. j # 1 => j - 1 \in 1..n /\ j - 1 \notin S
    BY <2>1
  <2> QED
    BY <2>1, <2>2, <2>3, <2>4
<1>4. DOMAIN p = 1..n /\ DOMAIN f = 1..n
  BY <1>1, <1>2
<1>5. p = [k \in 1..n |-> p[k]] /\ f = [k \in 1..n |-> f[k]]
  BY <1>1, <1>2
<1> QED
  BY <1>3, <1>5 DEF p

(***************************************************************************)
(* What stays the same.                                                    *)
(***************************************************************************)
LEMMA HeaderFacts ==
    ASSUME Headers
    PROVE  /\ Len(headers) \in Nat \ {0} /\ DOMAIN headers = 1..Len(headers)
           /\ \A j \in DOMAIN headers :
                 /\ headers[j] \in AnyHeader
                 /\ headers[j].capacity \in Nat \ {0}
                 /\ headers[j].tail \in 0..(headers[j].capacity - 1)
                 /\ headers[j].index \in [0..(headers[j].capacity - 1) -> Entries]
           /\ current = headers[Len(headers)] /\ Len(headers) \in DOMAIN headers
           /\ Entries = 1..current.capacity /\ DOMAIN key = Entries /\ DOMAIN value = Entries
<1>1. Len(headers) \in Nat \ {0} /\ DOMAIN headers = 1..Len(headers)
  BY DEF Headers
<1>2. ASSUME NEW j \in DOMAIN headers
      PROVE  /\ headers[j] \in AnyHeader
             /\ headers[j].capacity \in Nat \ {0}
             /\ headers[j].tail \in 0..(headers[j].capacity - 1)
  <2>1. headers[j] \in AnyHeader
    BY <1>1, <1>2 DEF Headers
  <2>2. PICK n \in Nat \ {0} : headers[j] \in HeaderOf(n)
    BY <2>1 DEF AnyHeader
  <2> QED
    BY <2>1, <2>2 DEF HeaderOf
<1> QED
  BY <1>1, <1>2 DEF Headers, current, Entries

SameIndex ==
    /\ Len(headers') = Len(headers) /\ DOMAIN headers' = DOMAIN headers
    /\ \A j \in DOMAIN headers :
          headers'[j].capacity = headers[j].capacity /\ headers'[j].index = headers[j].index

LEMMA TailSet ==
    ASSUME Headers, NEW t \in 0..(current.capacity - 1), headers' = WithTail(t)
    PROVE  /\ SameIndex /\ headers' \in Seq(AnyHeader) /\ headers' # <<>>
           /\ \A j \in 1..(Len(headers) - 1) : headers'[j].tail = headers[j].tail
           /\ current' = headers'[Len(headers)] /\ current'.tail = t
           /\ current'.capacity = current.capacity /\ current'.index = current.index
<1> DEFINE J == Len(headers)
<1>1. J \in Nat \ {0} /\ DOMAIN headers = 1..J /\ J \in 1..J /\ current = headers[J]
  BY HeaderFacts
<1>2. PICK n \in Nat \ {0} : current \in HeaderOf(n)
  BY <1>1, HeaderFacts DEF AnyHeader
<1>3. current.capacity = n
  BY <1>2 DEF HeaderOf
<1> DEFINE h == [current EXCEPT !.tail = t]
<1>4. /\ h \in HeaderOf(n) /\ h.tail = t
      /\ h.capacity = current.capacity /\ h.index = current.index
  BY <1>2, <1>3 DEF HeaderOf
<1>5. h \in AnyHeader
  BY <1>4 DEF AnyHeader
<1>6. headers' = [headers EXCEPT ![J] = h]
  BY <1>1 DEF WithTail, current
<1> HIDE DEF h
<1>7. headers' \in Seq(AnyHeader) /\ Len(headers') = J
  BY <1>1, <1>5, <1>6 DEF Headers
<1>8. headers'[J] = h /\ \A j \in 1..(J - 1) : headers'[j] = headers[j]
  <2>1. \A j \in 1..J : headers'[j] = IF j = J THEN h ELSE headers[j]
    BY <1>1, <1>6
  <2>2. headers'[J] = h
    BY <1>1, <2>1
  <2>3. ASSUME NEW j \in 1..(J - 1) PROVE headers'[j] = headers[j]
    <3>1. j \in 1..J /\ j # J
      BY <1>1
    <3> QED
      BY <2>1, <3>1
  <2> QED
    BY <2>2, <2>3
<1> QED
  BY <1>1, <1>4, <1>7, <1>8 DEF SameIndex, current

LEMMA EntriesStill ==
    ASSUME Headers, SameIndex, NEW a
    PROVE  /\ \A j \in DOMAIN headers : \A k : EntryIn(a, j, k)' = EntryIn(a, j, k)
           /\ \A k : Entry(a, k)' = Entry(a, k)
<1>1. Len(headers) \in DOMAIN headers
  BY HeaderFacts
<1> QED
  BY <1>1 DEF SameIndex, EntryIn, Entry

LEMMA ConsumersStill ==
    ASSUME UNCHANGED <<headIndex, index, end, where>>
    PROVE  /\ \A c \in Consumers : Pending(c)' = Pending(c) /\ Untaken(c)' = Untaken(c)
           /\ \A c : At(c)' = At(c) /\ Emptied(c)' = Emptied(c)
           /\ \A i : Unread(i)' = Unread(i)
           /\ \A k : UnreadOf(k)' = UnreadOf(k) /\ Needed(k)' = Needed(k) /\ Since(k)' = Since(k)
           /\ Claimed => Claimed'
<1>1. \A c : At(c)' = At(c) /\ Emptied(c)' = Emptied(c)
  BY DEF At, Emptied
<1>2. \A c : Pending(c)' = Pending(c)
  BY <1>1 DEF Pending
<1>3. \A c : Untaken(c)' = Untaken(c)
  BY <1>1, <1>2 DEF Untaken
<1>4. \A i : Unread(i)' = Unread(i)
  BY <1>2 DEF Unread
<1>5. \A k : UnreadOf(k)' = UnreadOf(k)
  BY <1>4 DEF UnreadOf
<1>6. \A k : Needed(k)' = Needed(k)
  BY <1>1, <1>5 DEF Needed
<1>7. \A k : Since(k)' = Since(k)
  BY <1>6 DEF Since
<1>8. Claimed => Claimed'
  BY <1>1, <1>5 DEF Claimed
<1> QED
  BY <1>1, <1>2, <1>3, <1>4, <1>5, <1>6, <1>7, <1>8

(***************************************************************************)
(* What the invariant says of the numbers of blocks.                       *)
(***************************************************************************)
LEMMA NumberFacts ==
    ASSUME Numbers
    PROVE  /\ Last \in Int /\ -1 <= Last
           /\ Added \in Nat /\ Removed \in 0..Added
           /\ AtTail = Last + Added - Removed + (IF step = "block" THEN 1 ELSE 0)
           /\ AtTail \in Int /\ Last <= AtTail
           /\ step # "undo" => Removed = 0
           /\ step # "idle" => Added = Found /\ BlockOf(base) = Last + Added /\ count \in Nat \ {0}
           /\ InUse \subseteq Nat
<1>1. Last \in Int /\ -1 <= Last
  BY BlockNat DEF Numbers, Last
<1>2. Added \in Nat
  BY DEF Numbers, Added
<1>3. Len(undo) \in Nat /\ Len(undo) <= Added
  BY DEF Numbers
<1>4. Removed \in 0..Added /\ (step # "undo" => Removed = 0)
  BY <1>2, <1>3 DEF Removed
<1>5. step # "idle" => Added = Found /\ BlockOf(base) = Last + Added /\ count \in Nat \ {0}
  <2>1. BlockOf(base) \in Int
    BY BlockTyped DEF Numbers
  <2> QED
    BY <1>1, <2>1 DEF Numbers, Added, Found, Last
<1>6. AtTail \in Int /\ Last <= AtTail
  BY <1>1, <1>2, <1>4 DEF AtTail
<1> QED
  BY <1>1, <1>2, <1>4, <1>5, <1>6 DEF AtTail, InUse

LEMMA ItemsTyped ==
    ASSUME NEW k \in Int
    PROVE  /\ Items(k) \subseteq Int /\ (k \in Nat => Items(k) \subseteq Nat)
           /\ \A i \in Items(k) : BlockOf(i) = k /\ i % BLOCK_SIZE \in Offsets
                                /\ i = k * BLOCK_SIZE + (i % BLOCK_SIZE)
<1>1. Items(k) \subseteq Int /\ (k \in Nat => Items(k) \subseteq Nat)
  BY BlockFirst, BlockSize DEF Items
<1>2. ASSUME NEW i \in Items(k)
      PROVE  BlockOf(i) = k /\ i % BLOCK_SIZE \in Offsets /\ i = k * BLOCK_SIZE + (i % BLOCK_SIZE)
  <2>1. i \in Int /\ BlockOf(i) = k
    BY <1>1, BlockIs
  <2> QED
    BY <2>1, BlockTyped
<1> QED
  BY <1>1, <1>2

\* An item that is not read yet keeps its block.
LEMMA UnreadNeeds ==
    ASSUME NEW i \in Int, Unread(i)
    PROVE  i \in UnreadOf(BlockOf(i)) /\ Needed(BlockOf(i))
<1>1. i \in UnreadOf(BlockOf(i))
  BY BlockIs, BlockTyped DEF UnreadOf
<1> QED
  BY <1>1 DEF Needed

LEMMA FutureNeeded ==
    ASSUME Numbers, NEW k \in Int, Last < k
    PROVE  Needed(k) /\ UnreadOf(k) = Items(k) /\ k \in Nat
<1>1. Last \in Int /\ -1 <= Last
  BY NumberFacts
<1>2. ASSUME NEW i \in Items(k) PROVE tailIndex <= i /\ Unread(i)
  <2>1. i \in Int /\ BlockOf(i) = k
    BY ItemsTyped
  <2>2. tailIndex \in Nat /\ headIndex \in Nat /\ headIndex <= tailIndex
    BY DEF Numbers
  <2>3. ASSUME i <= tailIndex - 1 PROVE FALSE
    <3>1. tailIndex - 1 \in Int
      BY <2>2
    <3>2. BlockOf(i) <= BlockOf(tailIndex - 1)
      BY <2>1, <2>3, <3>1, BlockMono
    <3> QED
      BY <1>1, <2>1, <3>2 DEF Last
  <2> QED
    BY <2>1, <2>2, <2>3 DEF Unread
<1>3. k * BLOCK_SIZE \in Items(k)
  BY BlockFirst, BlockIs
<1> QED
  BY <1>1, <1>2, <1>3 DEF Needed, UnreadOf

LEMMA SinceFacts ==
    /\ \A k, l \in Int : Since(k) /\ k <= l => Since(l)
    /\ \A k \in Nat : Needed(k) => Since(k)
    /\ Numbers => \A k \in Int : Last < k => Since(k)
<1>1. \A k, l \in Int : Since(k) /\ k <= l => Since(l)
  BY DEF Since
<1>2. \A k \in Nat : Needed(k) => Since(k)
  BY DEF Since
<1> QED
  BY <1>1, <1>2, FutureNeeded

LEMMA PendingFacts ==
    ASSUME Numbers, Claimed, NEW c \in Consumers, where[c] # "none"
    PROVE  /\ index[c] \in Nat /\ end[c] \in Nat /\ index[c] < end[c] /\ end[c] <= headIndex
           /\ At(c) \in Nat /\ At(c) <= BlockOf(end[c] - 1) /\ BlockOf(end[c] - 1) <= Last
           /\ At(c) <= Last /\ BlockOf(end[c] - 1) \in Int
           /\ ~Emptied(c) => At(c) \in InUse /\ index[c] \in Pending(c)
           /\ where[c] = "remove" => At(c) \in InUse
<1>1. index[c] \in Nat /\ end[c] \in Nat /\ index[c] < end[c] /\ end[c] <= headIndex
  BY DEF Claimed
<1>2. tailIndex \in Nat /\ headIndex \in Nat /\ headIndex <= tailIndex
  BY DEF Numbers
<1>3. /\ At(c) \in Nat /\ At(c) <= BlockOf(end[c] - 1) /\ BlockOf(end[c] - 1) <= Last
      /\ BlockOf(end[c] - 1) \in Int /\ Last \in Int /\ At(c) <= Last
  <2>1. At(c) \in Nat /\ BlockOf(end[c] - 1) \in Int /\ Last \in Int
    BY <1>1, <1>2, BlockNat DEF At, Last
  <2>2. At(c) <= BlockOf(end[c] - 1) /\ BlockOf(end[c] - 1) <= Last
    BY <1>1, <1>2, BlockMono DEF At, Last
  <2> QED
    BY <2>1, <2>2
<1>4. ~Emptied(c) => index[c] \in Pending(c)
  BY <1>1 DEF Pending
<1>5. ~Emptied(c) => Needed(At(c))
  BY <1>1, <1>4, UnreadNeeds DEF Unread, At
<1>6. where[c] = "remove" => Needed(At(c))
  BY DEF Needed
<1>7. At(c) \in 0..(Last + Added)
  BY <1>3, NumberFacts
<1> QED
  BY <1>1, <1>3, <1>4, <1>5, <1>6, <1>7 DEF InUse

LEMMA PresentUnread ==
    ASSUME Numbers, NEW i, Present(i)
    PROVE  Unread(i)
  BY DEF Numbers, Present, Written, Unread, Untaken

(***************************************************************************)
(* Steps that change one part only.                                        *)
(***************************************************************************)
LEMMA HeadersStill ==
    ASSUME Headers, UNCHANGED <<headers, key, value>>
    PROVE  Headers' /\ SameIndex /\ current' = current /\ Entries' = Entries
  BY DEF Headers, SameIndex, current, Entries

LEMMA EntryFacts ==
    ASSUME Headers, NEW a \in [DOMAIN headers -> Int]
    PROVE  /\ \A j \in DOMAIN headers : \A k \in Int : EntryIn(a, j, k) \in Entries
           /\ \A k \in Int : Entry(a, k) \in Entries
           /\ \A k, l \in Int : k - l = current.capacity => Entry(a, l) = Entry(a, k)
           /\ \A k, l \in Int : /\ Entry(a, k) = Entry(a, l)
                               /\ k - l < current.capacity /\ l - k < current.capacity
                               => k = l
<1>1. ASSUME NEW j \in DOMAIN headers, NEW k \in Int
      PROVE  /\ (k + a[j]) % headers[j].capacity \in 0..(headers[j].capacity - 1)
             /\ EntryIn(a, j, k) \in Entries
  <2>1. /\ headers[j].capacity \in Nat \ {0} /\ k + a[j] \in Int
        /\ headers[j].index \in [0..(headers[j].capacity - 1) -> Entries]
    BY <1>1, HeaderFacts
  <2>2. (k + a[j]) % headers[j].capacity \in 0..(headers[j].capacity - 1)
    BY <2>1, Division
  <2> QED
    BY <2>1, <2>2 DEF EntryIn
<1> DEFINE J == Len(headers)  c == current.capacity
<1>2. J \in DOMAIN headers /\ c \in Nat \ {0} /\ headers[J] = current /\ a[J] \in Int
  BY HeaderFacts
<1>3. ASSUME NEW k \in Int, NEW l \in Int, k - l = c PROVE Entry(a, l) = Entry(a, k)
  <2> DEFINE x == k + a[J]
  <2>1. l + a[J] = x - c /\ x \in Int
    BY <1>2, <1>3
  <2> HIDE DEF x, c
  <2>2. (x - c) % c = x % c
    BY <1>2, <2>1, ModRound
  <2>3. (l + a[J]) % c = (k + a[J]) % c
    BY <2>1, <2>2 DEF x
  <2> QED
    BY <1>2, <2>3 DEF Entry, EntryIn, c
<1>4. ASSUME NEW k \in Int, NEW l \in Int, Entry(a, k) = Entry(a, l), k - l < c, l - k < c
      PROVE  k = l
  <2> DEFINE x == k + a[J]  y == l + a[J]
  <2>1. x \in Int /\ y \in Int /\ x - y < c /\ y - x < c
    BY <1>2, <1>4
  <2>2. x % c = y % c
    BY <1>1, <1>2, <1>4 DEF Headers, Entry, EntryIn
  <2> HIDE DEF x, y, c
  <2>3. x = y
    BY <1>2, <2>1, <2>2, ModNear
  <2> QED
    BY <1>2, <2>3 DEF x, y
<1> QED
  BY <1>1, <1>2, <1>3, <1>4 DEF Entry

\* The place that is d after the tail, and the number of the block at the tail.
Place(d) == (current.tail + d) % current.capacity
TailAt(a, l) == current.tail = (l + a[Len(headers)]) % current.capacity

\* The place of a block, counted from the tail.
LEMMA FromTail ==
    ASSUME Headers, NEW a \in [DOMAIN headers -> Int], NEW l \in Int, NEW d \in Int,
           NEW k \in Int, k = l + d, TailAt(a, l)
    PROVE  /\ Place(d) = (k + a[Len(headers)]) % current.capacity
           /\ Place(d) \in 0..(current.capacity - 1)
           /\ current.index[Place(d)] = Entry(a, k)
<1> DEFINE J == Len(headers)  c == current.capacity
<1>1. J \in DOMAIN headers /\ c \in Nat \ {0} /\ headers[J] = current /\ a[J] \in Int
      /\ current.tail \in 0..(c - 1)
  BY HeaderFacts
<1>2. l + a[J] \in Int /\ (l + a[J]) + d = k + a[J] /\ current.tail + d \in Int
  <2>1. \A x \in Int : (l + x) + d = k + x /\ l + x \in Int
    OBVIOUS
  <2>2. current.tail \in Int
    BY <1>1
  <2> HIDE DEF J
  <2> QED
    BY <1>1, <2>1, <2>2
<1>3. (current.tail + d) % c = (k + a[J]) % c
  <2> DEFINE x == l + a[J]
  <2>1. x \in Int /\ current.tail = x % c /\ x + d = k + a[J]
    BY <1>1, <1>2 DEF TailAt
  <2> HIDE DEF x, c
  <2>2. ((x % c) + d) % c = (x + d) % c
    BY <1>1, <2>1, ModSum
  <2> QED
    BY <2>1, <2>2
<1>4. (current.tail + d) % c \in 0..(c - 1)
  BY <1>1, <1>2, Division
<1> QED
  BY <1>1, <1>3, <1>4 DEF Entry, EntryIn, Place

LEMMA RingsStill ==
    ASSUME NEW a, NEW m, Numbers, Headers, Rings(a, m), UNCHANGED <<headers, key>>,
           AtTail' = AtTail, Last' \in Int, Last <= Last', InUse' \subseteq InUse,
           m[Len(headers)] \in Int,
           \A k : Since(k)' => Since(k)
    PROVE  Rings(a, m)'
<1>1. /\ \A k : Entry(a, k)' = Entry(a, k)
      /\ \A j, k : EntryIn(a, j, k)' = EntryIn(a, j, k)
      /\ current' = current
  BY DEF EntryIn, Entry, current
<1>2. Last \in Int /\ current.capacity \in Int
  BY NumberFacts, HeaderFacts
<1>3. CurrentRing(a, m[Len(headers)])'
  <2>1. CurrentRing(a, m[Len(headers)])
    BY DEF Rings
  <2>2. m[Len(headers)] - current.capacity <= Last'
    BY <1>2, <2>1 DEF CurrentRing
  <2> QED
    BY <1>1, <2>1, <2>2 DEF CurrentRing
<1>4. OldRings(a, m)'
  <2>1. OldRings(a, m)
    BY DEF Rings
  <2> QED
    BY <1>1, <2>1 DEF OldRings
<1> QED
  BY <1>3, <1>4 DEF Rings

LEMMA ReadsOfStill ==
    ASSUME NEW a, NEW b, NEW m, NEW n, Numbers, Claimed, NEW c \in Consumers, ReadsOf(a, m, c),
           m \in [DOMAIN headers -> Int], \A j \in DOMAIN headers : n[j] \in Int,
           UNCHANGED <<local[c], tail[c], slot[c], block[c], where[c], index[c], end[c]>>,
           DOMAIN headers \subseteq DOMAIN headers',
           \A j \in DOMAIN headers :
              headers'[j].capacity = headers[j].capacity /\ b[j] = a[j] /\ m[j] <= n[j],
           where[c] \in {"mark", "remove"} => Home(b, At(c))' = Home(a, At(c))
    PROVE  ReadsOf(b, n, c)'
<1> SUFFICES ASSUME (where[c] \notin {"none", "index"})'
             PROVE  LET j == local[c] IN
        /\ (j \in DOMAIN headers)' /\ BlockOf(end[c] - 1) <= n[j]
        /\ where[c] = "locate" =>
              \E x \in BlockOf(end[c] - 1)..n[j] : (tail[c] = (x + b[j]) % headers[j].capacity)'
        /\ where[c] \notin {"tail", "locate"} => (slot[c] = (At(c) + b[j]) % headers[j].capacity)'
        /\ where[c] \in {"mark", "remove"} => (block[c] = Home(b, At(c)))'
  BY DEF ReadsOf, At
<1>2. At(c)' = At(c) /\ where[c] \notin {"none", "index"}
  BY DEF At
<1> DEFINE j == local[c]
<1>3. /\ j \in DOMAIN headers /\ BlockOf(end[c] - 1) <= m[j]
      /\ BlockOf(end[c] - 1) \in Int /\ m[j] \in Int /\ n[j] \in Int /\ m[j] <= n[j]
      /\ headers'[j].capacity = headers[j].capacity /\ b[j] = a[j]
  BY <1>2, PendingFacts DEF ReadsOf
<1>4. \A x \in BlockOf(end[c] - 1)..m[j] : x \in BlockOf(end[c] - 1)..n[j]
  BY <1>3
<1>5. where[c] = "locate" =>
              \E x \in BlockOf(end[c] - 1)..n[j] : (tail[c] = (x + b[j]) % headers[j].capacity)'
  BY <1>2, <1>3, <1>4 DEF ReadsOf
<1> QED
  BY <1>2, <1>3, <1>5 DEF ReadsOf

LEMMA ReadsStill ==
    ASSUME NEW a, NEW b, NEW m, NEW n, Numbers, Claimed, Headers, Reads(a, m),
           m \in [DOMAIN headers -> Int], \A j \in DOMAIN headers : n[j] \in Int,
           UNCHANGED <<local, tail, slot, block, where, index, end>>,
           DOMAIN headers \subseteq DOMAIN headers',
           \A j \in DOMAIN headers :
              headers'[j].capacity = headers[j].capacity /\ b[j] = a[j] /\ m[j] <= n[j],
           \A k \in InUse : k <= Last => Home(b, k)' = Home(a, k)
    PROVE  Reads(b, n)'
<1>1. ASSUME NEW c \in Consumers PROVE ReadsOf(b, n, c)'
  <2>1. where[c] \in {"mark", "remove"} => At(c) \in InUse /\ At(c) <= Last
    BY PendingFacts DEF Emptied
  <2>2. At(c)' = At(c) /\ ReadsOf(a, m, c)
    BY DEF At, Reads
  <2>3. where[c] \in {"mark", "remove"} => Home(b, At(c))' = Home(a, At(c))
    BY <2>1, <2>2
  <2> QED
    BY <2>2, <2>3, ReadsOfStill
<1> QED
  BY <1>1 DEF Reads

LEMMA OwnedStill ==
    ASSUME NEW a, NEW b, Owned(a), InUse' = InUse, Unlinked' = Unlinked,
           UNCHANGED <<free, block, where>>,
           \A k \in InUse : Home(b, k)' = Home(a, k),
           \A e \in Entries' : value'[e] # Null => \E k \in InUse : e = Entry(b, k)'
    PROVE  Owned(b)'
<1>1. \A c \in Consumers : HeldBy(c)' = HeldBy(c)
  BY DEF HeldBy
<1>2. InIndex(b)' = InIndex(a)
  BY DEF InIndex
<1>3. UNION {HeldBy(c)' : c \in Consumers} = UNION {HeldBy(c) : c \in Consumers}
  BY <1>1
<1> QED
  BY <1>1, <1>2, <1>3 DEF Owned

LEMMA FilledStill ==
    ASSUME NEW a, NEW b, Filled(a), InUse' = InUse, Written' = Written,
           UNCHANGED <<dequeued, content, headIndex, index, end, where>>,
           \A k \in InUse : Home(b, k)' = Home(a, k)
    PROVE  Filled(b)'
<1>1. InIndex(b)' = InIndex(a)
  BY DEF InIndex
<1>2. \A i : Present(i)' = Present(i)
  BY ConsumersStill DEF Present
<1>3. \A k : UnreadOf(k)' = UnreadOf(k)
  BY ConsumersStill
<1> QED
  BY <1>1, <1>2, <1>3 DEF Filled

IInv(a, m) ==
    /\ Numbers /\ Claimed /\ Headers
    /\ a \in [DOMAIN headers -> Int] /\ m \in [DOMAIN headers -> Int]
    /\ Rings(a, m) /\ Reads(a, m) /\ Chained(a) /\ Owned(a) /\ Filled(a)

(***************************************************************************)
(* The producer.                                                           *)
(***************************************************************************)
LEMMA EnqueueStep ==
    ASSUME NEW a, NEW m, IInv(a, m), NEW n \in 1..MaxBulk, Enqueue(n)
    PROVE  IInv(a, m)'
<1> USE DEF IInv
<1>1. /\ step = "idle" /\ step' = "insert" /\ undo = <<>> /\ undo' = <<>>
      /\ UNCHANGED <<tailIndex, headIndex, tailBlock, next, content, where, index, end,
                     headers, key, value, free, dequeued, local, tail, slot, block>>
      /\ count' = n /\ base' = Last * BLOCK_SIZE
      /\ needed' = BlockOf(tailIndex + n - 1) - Last
      /\ startBlock' = tailBlock /\ firstAllocated' = Null
      /\ tailIndex + n <= MaxItems
  BY DEF Enqueue, BeginCall, claimVars, readVars, Last, Numbers
<1>2. Last' = Last /\ Last \in Int /\ tailIndex \in Nat /\ n \in Nat \ {0}
  BY <1>1, NumberFacts, BlockAssumption DEF Last, Numbers
<1>3. BlockOf(base') = Last /\ base' \in Int
  BY <1>1, <1>2, BlockFirst
<1>4. Found' = 0
  BY <1>1, <1>2, <1>3 DEF Found, Last
<1>5. Added = 0 /\ Added' = 0 /\ Removed = 0 /\ Removed' = 0 /\ AtTail' = AtTail
  BY <1>1, <1>2, <1>4, NumberFacts DEF Added, Removed, AtTail
<1>6. BlockOf(tailIndex + n - 1) \in Int /\ Last <= BlockOf(tailIndex + n - 1)
  BY <1>2, BlockMono, BlockTyped DEF Last
<1>7. Numbers'
  BY <1>1, <1>2, <1>3, <1>4, <1>5, <1>6 DEF Numbers
<1>8. /\ Claimed' /\ \A k : Needed(k)' = Needed(k) /\ Since(k)' = Since(k)
  BY <1>1, ConsumersStill
<1>9. InUse' = InUse /\ Written' = Written /\ Unlinked = {} /\ Unlinked' = {}
  BY <1>1, <1>2, <1>5, <1>8 DEF InUse, Written, Unlinked
<1>10. Headers' /\ Entries' = Entries /\ \A k : Home(a, k)' = Home(a, k) /\ Entry(a, k)' = Entry(a, k)
  BY <1>1, HeadersStill DEF Home, Entry, EntryIn
<1>11. Rings(a, m)'
  <2>1. m[Len(headers)] \in Int
    BY HeaderFacts
  <2> QED
    BY <1>1, <1>2, <1>5, <1>8, <1>9, <2>1, RingsStill
<1>12. Reads(a, m)'
  <2>1. \A j \in DOMAIN headers : m[j] \in Int /\ m[j] <= m[j]
    OBVIOUS
  <2> QED
    BY <1>1, <1>10, <2>1, ReadsStill
<1>13. Chained(a)'
  <2>1. CallBlocks' \in [1..0 -> Blocks]
    <3> DEFINE f == [k \in 1..0 |-> Null]
    <3>0. IsPath(firstAllocated', next', 0, f)
      BY DEF IsPath
    <3> HIDE DEF f
    <3>1. Path(firstAllocated', next', 0) = f
      BY <3>0, PathIs
    <3>2. CallBlocks' = f
      BY <1>4, <3>1 DEF CallBlocks
    <3> QED
      BY <3>2 DEF f
  <2>2. Last \in InUse => Home(a, Last) = tailBlock
    BY <1>1 DEF Chained
  <2>3. /\ ({tailBlock, startBlock, firstAllocated} \subseteq Blocks \union {Null})'
        /\ next' \in [Blocks -> Blocks \union {Null}]
    BY <1>1 DEF Chained
  <2>4. Last' \in InUse' => Home(a, Last)' = startBlock'
    BY <1>1, <1>2, <1>9, <1>10, <2>2
  <2>5. \A k \in 1..0 : FALSE
    OBVIOUS
  <2>6. 1..(0 - 1) = {} /\ (0 + 1)..0 = {}
    OBVIOUS
  <2> QED
    BY <1>1, <1>5, <2>1, <2>3, <2>4, <2>5, <2>6 DEF Chained
<1>14. Owned(a)'
  <2>1. \A e \in Entries' : value'[e] # Null => \E k \in InUse : e = Entry(a, k)'
    BY <1>1, <1>10 DEF Owned
  <2> QED
    BY <1>1, <1>9, <1>10, <2>1, OwnedStill
<1>15. Filled(a)'
  BY <1>1, <1>9, <1>10, FilledStill
<1> QED
  BY <1>1, <1>7, <1>8, <1>10, <1>11, <1>12, <1>13, <1>14, <1>15

\* The blocks between the last one in use and the tail are in use themselves.
LEMMA NextNeeded ==
    ASSUME Numbers, NEW k \in Int, k \in 0..(Last + Added), Last + Removed < k
    PROVE  k \in InUse
<1>1. Last \in Int /\ Added \in Nat /\ Removed \in 0..Added
  BY NumberFacts
<1>2. Needed(k)
  BY <1>1, FutureNeeded
<1> QED
  BY <1>1, <1>2 DEF InUse

LEMMA EntryAtTail ==
    ASSUME NEW a, NEW m, IInv(a, m), step = "insert"
    PROVE  /\ AtTail = Last + Added /\ Removed = 0
           /\ NewTail = (AtTail + 1 + a[Len(headers)]) % current.capacity
           /\ NewTail \in 0..(current.capacity - 1)
           /\ NewEntry = Entry(a, AtTail + 1) /\ NewEntry \in Entries
           /\ NewEntry = Entry(a, AtTail + 1 - current.capacity)
           /\ base = AtTail * BLOCK_SIZE
           /\ base + BLOCK_SIZE = (AtTail + 1) * BLOCK_SIZE
<1>1. AtTail = Last + Added /\ Removed = 0 /\ AtTail \in Int /\ Added = Found
  BY NumberFacts DEF IInv
<1>2. Headers /\ a \in [DOMAIN headers -> Int]
      /\ current.tail = (AtTail + a[Len(headers)]) % current.capacity
  BY DEF IInv, Rings, CurrentRing
<1> DEFINE k == AtTail + 1  l == AtTail + 1 - current.capacity
<1>0. k \in Int /\ l \in Int /\ k = AtTail + 1 /\ k - l = current.capacity
  BY <1>1, HeaderFacts, <1>2
<1> HIDE DEF k, l
<1>3. /\ Place(1) = (k + a[Len(headers)]) % current.capacity
      /\ Place(1) \in 0..(current.capacity - 1)
      /\ current.index[Place(1)] = Entry(a, k)
  <2>1. TailAt(a, AtTail) /\ AtTail \in Int /\ k = AtTail + 1
    BY <1>0, <1>1, <1>2 DEF TailAt
  <2>2. Headers /\ a \in [DOMAIN headers -> Int] /\ k \in Int /\ 1 \in Int
    BY <1>0, <1>2
  <2> QED
    BY <2>1, <2>2, FromTail
<1>4. Entry(a, k) \in Entries /\ Entry(a, l) = Entry(a, k)
  BY <1>0, <1>2, EntryFacts
<1>5. base = AtTail * BLOCK_SIZE
  BY <1>1 DEF IInv, Numbers
<1> QED
  BY <1>0, <1>1, <1>3, <1>4, <1>5, BlockFirst DEF NewTail, NewEntry, Place, k, l

\* With room in the index no block in use is overwritten, and the numbers of those in
\* use stay within one round of the index.
LEMMA RoomFree ==
    ASSUME NEW a, NEW m, IInv(a, m), step = "insert", RoomInIndex
    PROVE  /\ AtTail + 1 - current.capacity <= Last
           /\ \A k \in InUse : AtTail + 1 - current.capacity < k
<1> DEFINE L == AtTail  c == current.capacity  J == Len(headers)
<1> USE DEF IInv
<1>1. /\ L = Last + Added /\ Last \in Int /\ -1 <= Last /\ Added \in Nat /\ L \in Int /\ Removed = 0
      /\ InUse \subseteq Nat /\ InUse \subseteq 0..L
  BY EntryAtTail, NumberFacts DEF InUse
<1>2. c \in Nat \ {0} /\ J \in DOMAIN headers /\ m[J] \in Int
  BY HeaderFacts
<1>3. L <= m[J] /\ m[J] - c <= Last /\ \A k \in InUse : m[J] - c < k
  BY DEF Rings, CurrentRing, OldRings
<1>4. L + 1 - c \notin InUse
  <2> SUFFICES ASSUME L + 1 - c \in InUse PROVE FALSE
    OBVIOUS
  <2> DEFINE k == L + 1 - c
  <2>1. k \in Nat /\ k <= m[J] /\ Since(k)
    <3>1. Needed(k) /\ k \in Nat
      BY <1>1 DEF InUse
    <3> QED
      BY <1>1, <1>2, <1>3, <3>1, SinceFacts
  <2>2. key[Entry(a, k)] = k * BLOCK_SIZE
    BY <1>2, <2>1 DEF Rings, CurrentRing, OldRings
  <2>3. NewEntry = Entry(a, k)
    BY EntryAtTail
  <2> HIDE DEF k
  <2>4. key[NewEntry] # INVALID_BLOCK_BASE
    <3>1. k \in Int
      BY <2>1
    <3>2. k * BLOCK_SIZE # 1
      BY <3>1, BlockFirst
    <3> QED
      BY <2>2, <2>3, <3>2 DEF INVALID_BLOCK_BASE
  <2>5. Home(a, k) \in Blocks
    BY DEF Owned, k
  <2>6. value[NewEntry] \in Blocks
    BY <2>3, <2>5 DEF Home
  <2> QED
    BY <2>4, <2>6 DEF RoomInIndex, Blocks, Null
<1>5. \A k \in InUse : L + 1 - c < k
  BY <1>1, <1>2, <1>3, <1>4
<1>6. L + 1 - c <= Last
  <2>1. CASE Added = 0
    BY <1>1, <1>2, <2>1
  <2>2. CASE Added > 0
    <3>1. Last + 1 \in InUse
      BY <1>1, <2>2, NextNeeded
    <3> QED
      BY <1>1, <1>2, <1>5, <3>1
  <2> QED
    BY <1>1, <2>1, <2>2
<1> QED
  BY <1>5, <1>6

LEMMA InsertStep ==
    ASSUME NEW a, NEW m, IInv(a, m), InsertEntry
    PROVE  \E n : IInv(a, n)'
<1>0. PICK L, c, J, n :
         /\ L = AtTail /\ c = current.capacity /\ J = Len(headers)
         /\ n = [m EXCEPT ![J] = IF m[J] < L + 1 THEN L + 1 ELSE m[J]]
  OBVIOUS
<1> USE DEF IInv
<1>1. /\ step = "insert" /\ step' = "block" /\ needed > 0 /\ RoomInIndex
      /\ key' = [key EXCEPT ![NewEntry] = base + BLOCK_SIZE]
      /\ headers' = WithTail(NewTail)
      /\ UNCHANGED <<tailIndex, headIndex, count, needed, base, startBlock, firstAllocated,
                     tailBlock, next, content, where, index, end, value, free, dequeued, undo,
                     local, tail, slot, block>>
  BY DEF InsertEntry, Insert, ProducerOnly, callVars, claimVars, readVars
<1>2. /\ L = Last + Added /\ Last \in Int /\ -1 <= Last /\ Added \in Nat /\ L \in Int /\ Removed = 0
      /\ InUse \subseteq Nat /\ InUse \subseteq 0..L /\ Last <= L
  BY <1>0, <1>1, EntryAtTail, NumberFacts DEF InUse
<1>3. /\ c \in Nat \ {0} /\ J \in DOMAIN headers /\ DOMAIN headers = 1..J /\ J \in Nat \ {0}
      /\ m[J] \in Int /\ n[J] \in Int
      /\ \A j \in DOMAIN headers : n[j] \in Int /\ m[j] <= n[j]
      /\ \A j \in 1..(J - 1) : n[j] = m[j]
      /\ (m[J] < L + 1 => n[J] = L + 1) /\ (~(m[J] < L + 1) => n[J] = m[J])
      /\ n \in [DOMAIN headers -> Int]
  <2>1. c \in Nat \ {0} /\ J \in DOMAIN headers /\ DOMAIN headers = 1..J /\ J \in Nat \ {0}
        /\ m \in [1..J -> Int]
    BY <1>0, HeaderFacts
  <2>2. n = [m EXCEPT ![J] = IF m[J] < L + 1 THEN L + 1 ELSE m[J]]
    BY <1>0
  <2>3. \A j \in 1..J : n[j] = IF j = J THEN IF m[J] < L + 1 THEN L + 1 ELSE m[J] ELSE m[j]
    BY <2>1, <2>2
  <2>4. \A j \in 1..J : n[j] \in Int /\ m[j] <= n[j]
    BY <1>2, <2>1, <2>3
  <2>5. (m[J] < L + 1 => n[J] = L + 1) /\ (~(m[J] < L + 1) => n[J] = m[J])
    BY <2>1, <2>3
  <2>6. \A j \in 1..(J - 1) : n[j] = m[j]
    BY <2>1, <2>3
  <2>7. n \in [1..J -> Int]
    BY <1>2, <2>1, <2>2
  <2> QED
    BY <2>1, <2>4, <2>5, <2>6, <2>7
<1>22. n[J] = L + 1 \/ (n[J] = m[J] /\ L + 1 <= m[J])
  BY <1>2, <1>3
<1>4. /\ SameIndex /\ headers' \in Seq(AnyHeader) /\ headers' # <<>>
      /\ \A j \in 1..(J - 1) : headers'[j].tail = headers[j].tail
      /\ current' = headers'[J] /\ current'.tail = NewTail
      /\ current'.capacity = c /\ current'.index = current.index
  BY <1>0, <1>1, EntryAtTail, TailSet
<1>5. /\ Last' = Last /\ Added' = Added /\ Removed' = Removed /\ AtTail' = L + 1 /\ Found' = Found
      /\ CallBlocks' = CallBlocks /\ Unlinked' = Unlinked /\ Written' = Written
  BY <1>0, <1>1, <1>2 DEF Last, Added, Removed, AtTail, Found, CallBlocks, Unlinked, Written
<1>6. /\ Claimed' /\ \A k : Needed(k)' = Needed(k) /\ Since(k)' = Since(k)
  BY <1>1, ConsumersStill
<1>7. InUse' = InUse
  BY <1>1, <1>5, <1>6 DEF InUse
<1>8. Numbers'
  BY <1>1, <1>5 DEF Numbers
<1>9. /\ \A k : Entry(a, k)' = Entry(a, k) /\ Home(a, k)' = Home(a, k)
      /\ \A j \in DOMAIN headers : \A k : EntryIn(a, j, k)' = EntryIn(a, j, k)
  BY <1>1, <1>4, EntriesStill DEF Home
<1>10. key' \in Seq(Int) /\ Len(key') = Len(key) /\ Entries' = Entries
      /\ \A e \in Entries : key'[e] = IF e = NewEntry THEN (L + 1) * BLOCK_SIZE ELSE key[e]
  <2>1. key \in Seq(Int) /\ DOMAIN key = Entries /\ Entries = 1..Len(key)
    BY HeaderFacts DEF Headers, Entries
  <2>2. NewEntry \in Entries /\ base + BLOCK_SIZE = (L + 1) * BLOCK_SIZE /\ base + BLOCK_SIZE \in Int
    BY <1>0, <1>1, EntryAtTail, BlockSize DEF Numbers
  <2>3. key' \in Seq(Int) /\ Len(key') = Len(key)
    BY <1>1, <2>1, <2>2
  <2> QED
    BY <1>1, <2>1, <2>2, <2>3 DEF Entries
<1>11. Headers'
  <2>1. Len(value') = Len(key') /\ value' \in Seq(Blocks \union {Null})
    BY <1>1, <1>10 DEF Headers
  <2>2. \A j \in DOMAIN headers' : headers'[j].index \in [0..(headers'[j].capacity - 1) -> Entries']
    BY <1>4, <1>10 DEF Headers, SameIndex
  <2>3. /\ Len(key') = current'.capacity
        /\ \A p, q \in 0..(current'.capacity - 1) : current'.index[p] = current'.index[q] => p = q
    BY <1>0, <1>4, <1>10 DEF Headers
  <2> QED
    BY <1>4, <1>10, <2>1, <2>2, <2>3 DEF Headers
<1>12. /\ L <= m[J] /\ m[J] - c <= Last /\ \A k \in InUse : m[J] - c < k
       /\ L + 1 - c <= Last /\ \A k \in InUse : L + 1 - c < k
  BY <1>0, <1>1, RoomFree DEF Rings, CurrentRing
<1>13. L + 1 <= n[J] /\ n[J] - c <= Last /\ \A k \in InUse : n[J] - c < k
  <2>1. CASE n[J] = L + 1
    BY <1>2, <1>3, <1>12, <2>1
  <2>2. CASE n[J] = m[J] /\ L + 1 <= m[J]
    BY <1>2, <1>3, <1>12, <2>2
  <2> QED
    BY <1>22, <2>1, <2>2
<1>14. ASSUME NEW k \in 0..n[J], Since(k) PROVE key'[Entry(a, k)] = k * BLOCK_SIZE
  <2>1. k \in Int /\ Entry(a, k) \in Entries /\ NewEntry = Entry(a, L + 1) /\ L + 1 \in Int
    <3>1. k \in Int /\ L + 1 \in Int /\ NewEntry = Entry(a, L + 1)
      BY <1>0, <1>1, <1>2, <1>3, EntryAtTail
    <3> QED
      BY <3>1, EntryFacts
  <2>2. CASE Entry(a, k) = NewEntry
    <3>1. k - (L + 1) < c
      BY <1>2, <1>3, <1>13
    <3>2. (L + 1) - k < c
      <4>1. PICK l \in 0..k : Needed(l)
        BY <1>14 DEF Since
      <4>2. CASE l <= L
        BY <1>2, <1>3, <1>13, <2>1, <4>1, <4>2 DEF InUse
      <4>3. CASE l > L
        BY <1>2, <1>3, <2>1, <4>1, <4>3
      <4> QED
        BY <1>2, <4>1, <4>2, <4>3
    <3>3. k = L + 1
      BY <1>0, <2>1, <2>2, <3>1, <3>2, EntryFacts
    <3> QED
      BY <1>10, <2>1, <3>3
  <2>3. CASE Entry(a, k) # NewEntry
    <3>1. k # L + 1 /\ 0 <= k /\ k <= n[J]
      BY <1>3, <2>1, <2>3
    <3>3. k <= m[J]
      BY <1>2, <1>3, <1>12, <1>22, <2>1, <3>1
    <3>4. k \in 0..m[J]
      BY <1>3, <2>1, <3>1, <3>3
    <3>2. key[Entry(a, k)] = k * BLOCK_SIZE
      BY <1>0, <1>14, <3>4 DEF Rings, CurrentRing
    <3> QED
      BY <1>10, <2>1, <2>3, <3>2
  <2> QED
    BY <2>2, <2>3
<1>15. Rings(a, n)'
  <2>1. current'.tail = (AtTail' + a[J]) % current'.capacity
    BY <1>0, <1>1, <1>4, <1>5, EntryAtTail
  <2>2. \A j \in 1..(J - 1) :
              /\ headers'[j].tail = (n[j] + a[j]) % headers'[j].capacity
              /\ n[j] <= n[J]
              /\ \A k \in 0..n[j] : Since(k) => EntryIn(a, j, k)' = Entry(a, k)'
    <3> TAKE j \in 1..(J - 1)
    <3>0. j \in DOMAIN headers
      BY <1>3
    <3>1. n[j] = m[j] /\ m[J] <= n[J] /\ m[j] \in Int
          /\ headers'[j].tail = headers[j].tail /\ headers'[j].capacity = headers[j].capacity
      BY <1>3, <1>4, <3>0 DEF SameIndex
    <3>2. m[j] <= m[J] /\ headers[j].tail = (m[j] + a[j]) % headers[j].capacity
      BY <1>0 DEF Rings, OldRings
    <3>3. m[j] <= n[J]
      BY <1>3, <3>1, <3>2
    <3>4. \A k \in 0..m[j] : Since(k) => EntryIn(a, j, k)' = Entry(a, k)'
      BY <1>0, <1>9, <3>0 DEF Rings, OldRings
    <3> QED
      BY <3>1, <3>2, <3>3, <3>4
  <2>3. Len(headers') = J
    BY <1>0, <1>4 DEF SameIndex
  <2>4. CurrentRing(a, n[Len(headers)])'
    <3>1. (AtTail <= n[J] /\ n[J] - current.capacity <= Last)'
      BY <1>4, <1>5, <1>13
    <3>2. (\A k \in InUse : n[J] - current.capacity < k)'
      BY <1>4, <1>7, <1>13
    <3>3. (\A k \in 0..n[J] : Since(k) => key[Entry(a, k)] = k * BLOCK_SIZE)'
      BY <1>6, <1>9, <1>14
    <3> QED
      BY <2>1, <2>3, <3>1, <3>2, <3>3 DEF CurrentRing
  <2>5. OldRings(a, n)'
    BY <1>6, <2>2, <2>3 DEF OldRings
  <2> QED
    BY <2>4, <2>5 DEF Rings
<1>16. Reads(a, n)'
  <2>1. /\ DOMAIN headers \subseteq DOMAIN headers'
        /\ \A j \in DOMAIN headers : n[j] \in Int
        /\ \A j \in DOMAIN headers :
              headers'[j].capacity = headers[j].capacity /\ a[j] = a[j] /\ m[j] <= n[j]
    BY <1>3, <1>4 DEF SameIndex
  <2>2. \A k \in InUse : Home(a, k)' = Home(a, k)
    BY <1>9
  <2> QED
    BY <1>1, <2>1, <2>2, ReadsStill
<1>17. Chained(a)'
  BY <1>1, <1>5, <1>7, <1>9 DEF Chained
<1>18. Owned(a)'
  <2>1. \A e \in Entries' : value'[e] # Null => \E k \in InUse : e = Entry(a, k)'
    BY <1>1, <1>9, <1>10 DEF Owned
  <2> QED
    BY <1>1, <1>5, <1>7, <1>9, <2>1, OwnedStill
<1>19. Filled(a)'
  BY <1>1, <1>5, <1>7, <1>9, FilledStill
<1>20. (a \in [DOMAIN headers -> Int] /\ n \in [DOMAIN headers -> Int])'
  <2>1. DOMAIN headers' = DOMAIN headers
    BY <1>4 DEF SameIndex
  <2> QED
    BY <1>3, <2>1
<1>21. IInv(a, n)'
  <2>1. Claimed'
    BY <1>6
  <2> QED
    BY <2>1, <1>8, <1>11, <1>15, <1>16, <1>17, <1>18, <1>19, <1>20
<1> QED
  BY <1>21

LEMMA ChainedStill ==
    ASSUME NEW a, NEW b, Numbers, Chained(a), Last' = Last, InUse' = InUse,
           UNCHANGED <<step, tailIndex, base, tailBlock, startBlock, firstAllocated, next, undo>>,
           \A k \in InUse : Home(b, k)' = Home(a, k)
    PROVE  Chained(b)'
<1>1. Added' = Added /\ Removed' = Removed /\ CallBlocks' = CallBlocks
  BY DEF Added, Removed, CallBlocks, Found
<1>2. \A k \in (Removed + 1)..Added : Last + k \in InUse
  <2> TAKE k \in (Removed + 1)..Added
  <2>1. Last \in Int /\ -1 <= Last /\ Added \in Nat /\ Removed \in 0..Added
    BY NumberFacts
  <2>2. Last + k \in Int /\ Last + k \in 0..(Last + Added) /\ Last + Removed < Last + k
    BY <2>1
  <2> QED
    BY <2>2, NextNeeded
<1>3. \A k \in (Removed + 1)..Added : CallBlocks[k] = Home(b, Last + k)'
  BY <1>2 DEF Chained
<1>4. Last \in InUse => Home(b, Last)' = IF step = "idle" THEN tailBlock ELSE startBlock
  BY DEF Chained
<1> QED
  BY <1>1, <1>3, <1>4 DEF Chained

LEMMA GrowStep ==
    ASSUME NEW a, NEW m, IInv(a, m), GrowIndex
    PROVE  \E b, n : IInv(b, n)'
<1>0. PICK L, c, J, f, h, b, n :
         /\ L = AtTail /\ c = current.capacity /\ J = Len(headers)
         /\ f = [i \in 0..(2 * c - 1) |->
                   IF i < c THEN current.index[(current.tail + 1 + i) % c] ELSE i + 1]
         /\ h = [capacity |-> 2 * c, tail |-> c - 1, index |-> f]
         /\ b = [j \in 1..(J + 1) |-> IF j <= J THEN a[j] ELSE c - 1 - L]
         /\ n = [j \in 1..(J + 1) |-> IF j <= J THEN m[j] ELSE L]
  OBVIOUS
<1> USE DEF IInv
<1>1. /\ c \in Nat \ {0} /\ J \in Nat \ {0} /\ J \in 1..J /\ DOMAIN headers = 1..J
      /\ m[J] \in Int /\ Entries = 1..c /\ Len(key) = c /\ Len(value) = c
      /\ current = headers[J] /\ current \in AnyHeader
      /\ current.tail \in 0..(c - 1) /\ current.index \in [0..(c - 1) -> 1..c]
  BY <1>0, HeaderFacts DEF Entries, Headers
<1>2. /\ step = "insert" /\ needed > 0 /\ ~RoomInIndex
      /\ UNCHANGED <<tailIndex, headIndex, step, count, needed, base, startBlock, firstAllocated,
                     tailBlock, next, content, where, index, end, free, dequeued, undo,
                     local, tail, slot, block>>
      /\ key' = key \o [i \in 1..c |-> INVALID_BLOCK_BASE]
      /\ value' = value \o [i \in 1..c |-> Null]
  BY <1>0 DEF GrowIndex, ProducerOnly, callVars, claimVars, readVars
<1>3. headers' = Append(headers, h)
  <2>1. f = [i \in 0..(2 * c - 1) |-> IF i < c THEN current.index[(current.tail + 1 + i) % c]
                                      ELSE Len(key) + 1 + i - c]
    <3>1. \A i \in 0..(2 * c - 1) : i + 1 = Len(key) + 1 + i - c
      BY <1>1
    <3> QED
      BY <1>0, <3>1
  <2> QED
    BY <1>0, <2>1 DEF GrowIndex, Header
<1>4. /\ L = Last + Added /\ Last \in Int /\ -1 <= Last /\ Added \in Nat /\ L \in Int /\ Removed = 0
      /\ InUse \subseteq Nat /\ InUse \subseteq 0..L /\ Last <= L
  BY <1>0, <1>2, EntryAtTail, NumberFacts DEF InUse
<1>5. /\ L <= m[J] /\ m[J] - c <= Last
      /\ current.tail = (L + a[J]) % c
      /\ \A k \in InUse : m[J] - c < k
  BY <1>0 DEF Rings, CurrentRing
<1>6. m[J] = L
  <2>1. value[NewEntry] # Null /\ NewEntry \in Entries
    BY <1>2, EntryAtTail DEF RoomInIndex
  <2>2. PICK k \in InUse : NewEntry = Entry(a, k)
    BY <2>1 DEF Owned
  <2>3. Entry(a, L + 1) = Entry(a, k) /\ k \in Int /\ L + 1 \in Int /\ k <= L
    <3>1. NewEntry = Entry(a, L + 1)
      BY <1>0, <1>2, EntryAtTail
    <3>2. k \in 0..L
      BY <1>4
    <3> QED
      BY <1>4, <2>2, <3>1, <3>2
  <2>4. L + 1 - c >= k
    <3>0. L \in Int /\ c \in Nat \ {0}
      BY <1>1, <1>4
    <3>1. k - (L + 1) < c /\ k # L + 1
      BY <2>3, <3>0
    <3>2. ~((L + 1) - k < c)
      <4>1. PICK l : l = L + 1
        OBVIOUS
      <4> QED
        BY <1>0, <2>3, <3>1, <4>1, EntryFacts
    <3> QED
      BY <2>3, <3>0, <3>2
  <2>5. m[J] - c < k /\ L <= m[J]
    BY <1>5
  <2> QED
    <3>1. m[J] \in Int /\ L \in Int /\ c \in Int /\ k \in Int
      BY <1>1, <1>4, <2>3
    <3>2. m[J] < L + 1
      BY <2>4, <2>5, <3>1
    <3> QED
      BY <2>5, <3>1, <3>2
<1>7. /\ Len(headers') = J + 1 /\ DOMAIN headers' = 1..(J + 1)
      /\ headers'[J + 1] = h /\ current' = h
      /\ \A j \in 1..J : headers'[j] = headers[j]
  BY <1>1, <1>3 DEF current, Headers
<1>8. h \in HeaderOf(2 * c) /\ h.capacity = 2 * c /\ h.tail = c - 1 /\ h.index = f
      /\ f \in [0..(2 * c - 1) -> 1..(2 * c)] /\ 2 * c \in Nat \ {0}
  <2>1. \A i \in 0..(2 * c - 1) : f[i] \in 1..(2 * c)
    <3> TAKE i \in 0..(2 * c - 1)
    <3>1. PICK x : x = current.tail + 1 + i
      OBVIOUS
    <3>2. x \in Int /\ i \in Int /\ i < 2 * c /\ 0 <= i
      <4>1. current.tail \in Int /\ c \in Int
        BY <1>1
      <4>2. i \in Int /\ i < 2 * c /\ 0 <= i
        BY <4>1
      <4> QED
        BY <3>1, <4>1, <4>2
    <3>3. x % c \in 0..(c - 1)
      BY <1>1, <3>2, Division
    <3>4. f[i] = IF i < c THEN current.index[x % c] ELSE i + 1
      BY <1>0, <3>1
    <3>5. current.index[x % c] \in 1..c
      BY <1>1, <3>3
    <3> QED
      <4>1. CASE i < c
        <5>1. f[i] \in 1..c
          BY <3>4, <3>5, <4>1
        <5>2. 1..c \subseteq 1..(2 * c)
          BY <1>1
        <5> QED
          BY <5>1, <5>2
      <4>2. CASE ~(i < c)
        BY <1>1, <3>2, <3>4, <4>2
      <4> QED
        BY <4>1, <4>2
  <2>2. f \in [0..(2 * c - 1) -> 1..(2 * c)]
    BY <1>0, <2>1
  <2>3. f \in [0..(2 * c - 1) -> Nat] /\ c - 1 \in 0..(2 * c - 1)
    <3>1. 1..(2 * c) \subseteq Nat /\ c - 1 \in 0..(2 * c - 1)
      BY <1>1
    <3> QED
      BY <2>2, <3>1
  <2> QED
    <3>1. PICK g : g = 2 * c
      OBVIOUS
    <3>2. h = [capacity |-> g, tail |-> c - 1, index |-> f]
      BY <1>0, <3>1
    <3>3. h \in HeaderOf(g)
      BY <2>3, <3>1, <3>2 DEF HeaderOf
    <3>4. 2 * c \in Nat \ {0}
      BY <1>1
    <3> QED
      BY <2>2, <3>1, <3>2, <3>3, <3>4
<1>9. /\ key' \in Seq(Int) /\ Len(key') = 2 * c /\ Entries' = 1..(2 * c)
      /\ value' \in Seq(Blocks \union {Null}) /\ Len(value') = 2 * c
      /\ \A e \in 1..c : key'[e] = key[e] /\ value'[e] = value[e]
      /\ \A e \in 1..(2 * c) : e \notin 1..c => value'[e] = Null
  <2>0. PICK s, t : s = [i \in 1..c |-> INVALID_BLOCK_BASE] /\ t = [i \in 1..c |-> Null]
    OBVIOUS
  <2>1. /\ s \in Seq(Int) /\ Len(s) = c
        /\ t \in Seq(Blocks \union {Null}) /\ Len(t) = c
        /\ \A i \in 1..c : t[i] = Null
    BY <1>1, <2>0 DEF INVALID_BLOCK_BASE
  <2>3. key \in Seq(Int) /\ value \in Seq(Blocks \union {Null})
    BY DEF Headers
  <2>4. key' \in Seq(Int) /\ Len(key') = c + c /\ \A e \in 1..(c + c) : e <= c => key'[e] = key[e]
    BY <1>1, <1>2, <2>0, <2>1, <2>3, ConcatProperties
  <2>5. /\ value' \in Seq(Blocks \union {Null}) /\ Len(value') = c + c
        /\ \A e \in 1..(c + c) : (e <= c => value'[e] = value[e]) /\ (~(e <= c) => value'[e] = t[e - c])
    <3>1. PICK S : S = Blocks \union {Null}
      OBVIOUS
    <3>2. value \in Seq(S) /\ t \in Seq(S) /\ Len(value) = c /\ Len(t) = c /\ value' = value \o t
      BY <1>1, <1>2, <2>0, <2>1, <2>3, <3>1
    <3>3. /\ value' \in Seq(S) /\ Len(value') = c + c
          /\ \A e \in 1..(c + c) : value'[e] = IF e <= c THEN value[e] ELSE t[e - c]
      <4>1. /\ value \o t \in Seq(S) /\ Len(value \o t) = Len(value) + Len(t)
            /\ \A e \in 1..(Len(value) + Len(t)) :
                  (value \o t)[e] = IF e <= Len(value) THEN value[e] ELSE t[e - Len(value)]
        BY <3>2, ConcatProperties
      <4> QED
        BY <3>2, <4>1
    <3> QED
      BY <3>1, <3>3
  <2>6. \A e \in 1..(c + c) : e \notin 1..c => e - c \in 1..c /\ ~(e <= c)
    BY <1>1
  <2> QED
    <3>1. c + c = 2 * c /\ \A e \in 1..c : e \in 1..(c + c) /\ e <= c
      BY <1>1
    <3>2. \A e \in 1..c : key'[e] = key[e] /\ value'[e] = value[e]
      BY <2>4, <2>5, <3>1
    <3>3. \A e \in 1..(2 * c) : e \notin 1..c => value'[e] = Null
      BY <2>1, <2>5, <2>6, <3>1
    <3> QED
      BY <2>4, <2>5, <3>1, <3>2, <3>3 DEF Entries
<1>10. Headers'
  <2>1. h \in AnyHeader
    BY <1>8 DEF AnyHeader
  <2>2. headers' \in Seq(AnyHeader) /\ headers' # <<>>
    <3>1. headers \in Seq(AnyHeader)
      BY DEF Headers
    <3>2. Append(headers, h) \in Seq(AnyHeader) /\ Append(headers, h) # <<>>
      BY <2>1, <3>1, AppendProperties
    <3> QED
      BY <1>3, <3>2
  <2>3. \A j \in DOMAIN headers' : headers'[j].index \in [0..(headers'[j].capacity - 1) -> Entries']
    <3> TAKE j \in DOMAIN headers'
    <3>1. CASE j = J + 1
      BY <1>7, <1>8, <1>9, <3>1
    <3>2. CASE j \in 1..J
      <4>1. headers[j].index \in [0..(headers[j].capacity - 1) -> 1..c]
        BY <1>1, <3>2, HeaderFacts
      <4>2. 1..c \subseteq 1..(2 * c)
        BY <1>1
      <4> QED
        BY <1>7, <1>9, <3>2, <4>1, <4>2
    <3> QED
      BY <1>1, <1>7, <3>1, <3>2
  <2>4. ASSUME NEW p \in 0..(2 * c - 1), NEW q \in 0..(2 * c - 1), f[p] = f[q] PROVE p = q
    <3> DEFINE x(i) == current.tail + 1 + i
    <3>1. \A i \in 0..(2 * c - 1) :
             /\ x(i) \in Int /\ x(i) % c \in 0..(c - 1) /\ current.index[x(i) % c] \in 1..c
             /\ f[i] = IF i < c THEN current.index[x(i) % c] ELSE i + 1
      <4> TAKE i \in 0..(2 * c - 1)
      <4>1. x(i) \in Int
        BY <1>1
      <4>2. x(i) % c \in 0..(c - 1)
        BY <1>1, <4>1, Division
      <4> QED
        BY <1>0, <1>1, <4>1, <4>2
    <3>2. CASE p < c /\ q < c
      <4>1. x(p) % c = x(q) % c
        BY <1>0, <2>4, <3>1, <3>2 DEF Headers
      <4>2. x(p) \in Int /\ x(q) \in Int /\ x(p) - x(q) < c /\ x(q) - x(p) < c
        <5>1. PICK t : t = current.tail /\ t \in Int
          BY <1>1
        <5>2. p \in Int /\ q \in Int /\ 0 <= p /\ 0 <= q /\ c \in Int
          BY <1>1
        <5>3. /\ t + 1 + p \in Int /\ t + 1 + q \in Int
              /\ (t + 1 + p) - (t + 1 + q) < c /\ (t + 1 + q) - (t + 1 + p) < c
          BY <3>2, <5>1, <5>2
        <5> QED
          BY <5>1, <5>3
      <4>3. x(p) = x(q)
        BY <1>1, <4>1, <4>2, ModNear
      <4> QED
        BY <1>1, <4>3
    <3>3. CASE ~(p < c) \/ ~(q < c)
      <4>1. \A i \in 0..(2 * c - 1) : (i < c => f[i] \in 1..c) /\ (~(i < c) => f[i] = i + 1)
        BY <3>1
      <4> HIDE DEF x
      <4>2. p \in Int /\ q \in Int /\ c \in Int
        BY <1>1
      <4> QED
        BY <2>4, <3>3, <4>1, <4>2
    <3> QED
      BY <3>2, <3>3
  <2>5. \A p, q \in 0..(current'.capacity - 1) : current'.index[p] = current'.index[q] => p = q
    BY <1>7, <1>8, <2>4
  <2>6. Len(key') = current'.capacity /\ Len(value') = Len(key')
    BY <1>7, <1>8, <1>9
  <2> QED
    BY <1>9, <2>2, <2>3, <2>5, <2>6 DEF Headers
<1>11. /\ b \in [1..(J + 1) -> Int] /\ n \in [1..(J + 1) -> Int]
       /\ b[J + 1] = c - 1 - L /\ n[J + 1] = L /\ \A j \in 1..J : b[j] = a[j] /\ n[j] = m[j]
  <2>1. a \in [1..J -> Int] /\ m \in [1..J -> Int]
    BY <1>1
  <2>2. c - 1 - L \in Int /\ L \in Int /\ J \in Nat
    BY <1>1, <1>4
  <2>3. /\ b = [j \in 1..(J + 1) |-> IF j <= J THEN a[j] ELSE c - 1 - L]
        /\ n = [j \in 1..(J + 1) |-> IF j <= J THEN m[j] ELSE L]
    BY <1>0
  <2>4. b \in [1..(J + 1) -> Int]
    BY <2>1, <2>2, <2>3
  <2>5. n \in [1..(J + 1) -> Int]
    BY <2>1, <2>2, <2>3
  <2>6. J + 1 \in 1..(J + 1) /\ ~(J + 1 <= J) /\ \A j \in 1..J : j \in 1..(J + 1) /\ j <= J
    BY <2>2
  <2>7. b[J + 1] = c - 1 - L /\ \A j \in 1..J : b[j] = a[j]
    BY <2>3, <2>6
  <2>8. n[J + 1] = L /\ \A j \in 1..J : n[j] = m[j]
    BY <2>3, <2>6
  <2> QED
    BY <2>4, <2>5, <2>7, <2>8
<1>12. /\ \A j \in 1..J : \A k : EntryIn(b, j, k)' = EntryIn(a, j, k)
       /\ \A k : Entry(b, k)' = f[(k + b[J + 1]) % (2 * c)]
  BY <1>7, <1>8, <1>11 DEF EntryIn, Entry
<1>13. ASSUME NEW k \in Int, L - c < k, k <= L
       PROVE  Entry(b, k)' = Entry(a, k) /\ Entry(a, k) \in 1..c
  <2>0. PICK p, d : p = k + (c - 1 - L) /\ d = k + c - L
    OBVIOUS
  <2>1. p \in 0..(2 * c - 1) /\ p < c /\ p \in Int /\ p = (2 * c) * 0 + p /\ d \in Int
    BY <1>1, <1>4, <1>13, <2>0
  <2>2. p = p % (2 * c)
    BY <1>8, <2>1, DivisionUnique
  <2>3. Entry(b, k)' = f[p]
    BY <1>11, <1>12, <2>0, <2>2
  <2>4. f[p] = current.index[(current.tail + d) % c]
    <3>1. current.tail + 1 + p = current.tail + d
      BY <1>1, <1>4, <2>0
    <3> QED
      BY <1>0, <2>1, <3>1
  <2>5. k + c \in Int /\ k + c = L + d /\ (k + c) - k = c
    BY <1>1, <1>4, <2>0
  <2>6. current.index[(current.tail + d) % c] = Entry(a, k + c)
    <3>1. PICK l : l = k + c
      OBVIOUS
    <3> QED
      <4>1. TailAt(a, L)
        BY <1>0, <1>5 DEF TailAt
      <4>2. l \in Int /\ d \in Int /\ l = L + d /\ L \in Int
        BY <1>4, <2>1, <2>5, <3>1
      <4>3. current.index[Place(d)] = Entry(a, l)
        BY <4>1, <4>2, FromTail
      <4> QED
        BY <1>0, <3>1, <4>3 DEF Place
  <2>7. Entry(a, k) = Entry(a, k + c) /\ Entry(a, k) \in Entries
    BY <1>0, <2>5, EntryFacts
  <2> QED
    BY <1>1, <2>3, <2>4, <2>6, <2>7
<1>14. /\ Last' = Last /\ Added' = Added /\ Removed' = Removed /\ AtTail' = L /\ Found' = Found
       /\ Unlinked' = Unlinked /\ Written' = Written
  BY <1>0, <1>2 DEF Last, Added, Removed, AtTail, Found, CallBlocks, Unlinked, Written
<1>15. /\ Claimed' /\ \A k : Needed(k)' = Needed(k) /\ Since(k)' = Since(k)
  BY <1>2, ConsumersStill
<1>16. InUse' = InUse
  BY <1>2, <1>14, <1>15 DEF InUse
<1>17. Numbers'
  BY <1>2, <1>14 DEF Numbers
<1>18. ASSUME NEW k \in Int, k <= L, Since(k) PROVE L - c < k
  <2>1. PICK l \in 0..k : Needed(l)
    BY <1>18 DEF Since
  <2>2. l \in InUse
    BY <1>4, <1>18, <2>1 DEF InUse
  <2>3. L - c < l
    BY <1>5, <1>6, <2>2
  <2>4. L \in Int /\ c \in Int /\ l \in Int /\ l <= k
    BY <1>1, <1>4, <2>1
  <2> QED
    BY <1>18, <2>3, <2>4
<1>19. ASSUME NEW k \in InUse
       PROVE  Entry(b, k)' = Entry(a, k) /\ Home(b, k)' = Home(a, k) /\ k \in Int
  <2>1. k \in Int /\ k <= L /\ Since(k)
    BY <1>4, <1>19, SinceFacts DEF InUse
  <2>2. Entry(b, k)' = Entry(a, k) /\ Entry(a, k) \in 1..c
    BY <1>13, <1>18, <2>1
  <2> QED
    BY <1>9, <2>1, <2>2 DEF Home
<1>20. Rings(b, n)'
  <2>1. (c - 1) = (L + b[J + 1]) % (2 * c)
    <3>1. c - 1 \in 0..(2 * c - 1) /\ c - 1 \in Int /\ c - 1 = (2 * c) * 0 + (c - 1) /\ L + b[J + 1] = c - 1
      BY <1>1, <1>4, <1>11
    <3>2. PICK x : x = c - 1
      OBVIOUS
    <3>3. x = x % (2 * c)
      BY <1>8, <3>1, <3>2, DivisionUnique
    <3> QED
      BY <3>1, <3>2, <3>3
  <2>2. (AtTail <= n[J + 1] /\ n[J + 1] - current.capacity <= Last)'
    <3>1. L - 2 * c <= Last /\ L <= L
      <4>1. L \in Int /\ c \in Nat /\ Last \in Int /\ L - c <= Last
        BY <1>1, <1>4, <1>5, <1>6
      <4> QED
        BY <4>1
    <3> QED
      BY <1>7, <1>8, <1>11, <1>14, <3>1
  <2>3. (\A k \in InUse : n[J + 1] - current.capacity < k)'
    <3>1. ASSUME NEW k \in InUse PROVE L - 2 * c < k
      <4>1. k \in Int /\ L - c < k /\ L \in Int /\ c \in Nat
        BY <1>1, <1>4, <1>5, <1>6
      <4> QED
        BY <4>1
    <3> QED
      BY <1>7, <1>8, <1>11, <1>16, <3>1
  <2>4. ASSUME NEW k \in 0..L, Since(k)
        PROVE  key'[Entry(b, k)'] = k * BLOCK_SIZE
    <3>1. k \in Int /\ k <= L
      BY <1>4
    <3>2. Entry(b, k)' = Entry(a, k) /\ Entry(a, k) \in 1..c
      BY <1>13, <1>18, <2>4, <3>1
    <3>3. key[Entry(a, k)] = k * BLOCK_SIZE
      BY <1>0, <1>6, <2>4 DEF Rings, CurrentRing
    <3> QED
      BY <1>9, <3>2, <3>3
  <2>5. CurrentRing(b, n[Len(headers)])'
    <3>1. (\A k \in 0..n[J + 1] : Since(k) => key[Entry(b, k)] = k * BLOCK_SIZE)'
      BY <1>11, <1>15, <2>4
    <3>2. (current.tail = (AtTail + b[J + 1]) % current.capacity)'
      BY <1>7, <1>8, <1>14, <2>1
    <3> QED
      BY <1>7, <2>2, <2>3, <3>1, <3>2 DEF CurrentRing
  <2>6. \A j \in 1..J :
          /\ headers[j].tail = (n[j] + b[j]) % headers[j].capacity
          /\ n[j] <= L
          /\ \A k \in 0..n[j] : Since(k) => EntryIn(b, j, k)' = Entry(b, k)'
    <3> TAKE j \in 1..J
    <3>1. n[j] = m[j] /\ b[j] = a[j] /\ n[j] \in Int
      <4>1. j \in 1..(J + 1)
        BY <1>1
      <4> QED
        BY <1>11, <4>1
    <3>2. /\ headers[j].tail = (m[j] + a[j]) % headers[j].capacity /\ m[j] <= L
          /\ \A k \in 0..m[j] : Since(k) => EntryIn(a, j, k) = Entry(a, k)
      <4>1. CASE j = J
        BY <1>0, <1>1, <1>4, <1>5, <1>6, <4>1 DEF Entry
      <4>2. CASE j \in 1..(J - 1)
        BY <1>0, <1>6, <4>2 DEF Rings, OldRings
      <4> QED
        BY <1>1, <4>1, <4>2
    <3>3. ASSUME NEW k \in 0..n[j], Since(k) PROVE EntryIn(b, j, k)' = Entry(b, k)'
      <4>1. k \in Int /\ k <= L
        BY <1>4, <3>1, <3>2
      <4>2. Entry(b, k)' = Entry(a, k)
        BY <1>13, <1>18, <3>3, <4>1
      <4> QED
        BY <1>12, <3>1, <3>2, <3>3, <4>2
    <3> QED
      BY <3>1, <3>2, <3>3
  <2>7. OldRings(b, n)'
    <3>1. Len(headers') - 1 = J /\ n[Len(headers')] = L
      BY <1>1, <1>7, <1>11
    <3> QED
      BY <1>7, <1>15, <2>6, <3>1 DEF OldRings
  <2> QED
    BY <2>5, <2>7 DEF Rings
<1>21. Reads(b, n)'
  <2>1. DOMAIN headers \subseteq DOMAIN headers'
    BY <1>1, <1>7
  <2>2. \A j \in DOMAIN headers : n[j] \in Int
    BY <1>1, <1>11
  <2>3. \A j \in DOMAIN headers :
              headers'[j].capacity = headers[j].capacity /\ b[j] = a[j] /\ m[j] <= n[j]
    <3> TAKE j \in DOMAIN headers
    <3>1. j \in 1..J
      BY <1>1
    <3>2. headers'[j] = headers[j] /\ b[j] = a[j] /\ n[j] = m[j]
      BY <1>7, <1>11, <3>1
    <3>3. n[j] \in Int
      BY <2>2
    <3> QED
      BY <3>2, <3>3
  <2>4. \A k \in InUse : Home(b, k)' = Home(a, k)
    BY <1>19
  <2> QED
    BY <1>2, <2>1, <2>2, <2>3, <2>4, ReadsStill
<1>22. Chained(b)'
  BY <1>2, <1>14, <1>16, <1>19, ChainedStill
<1>23. Owned(b)'
  <2>1. \A e \in Entries' : value'[e] # Null => \E k \in InUse : e = Entry(b, k)'
    BY <1>1, <1>9, <1>19 DEF Owned
  <2> QED
    BY <1>2, <1>14, <1>16, <1>19, <2>1, OwnedStill
<1>24. Filled(b)'
  BY <1>2, <1>14, <1>16, <1>19, FilledStill
<1>25. IInv(b, n)'
  <2>1. (b \in [DOMAIN headers -> Int] /\ n \in [DOMAIN headers -> Int])'
    BY <1>7, <1>11
  <2>2. Claimed'
    BY <1>15
  <2> QED
    BY <1>10, <1>17, <1>20, <1>21, <1>22, <1>23, <1>24, <2>1, <2>2
<1> QED
  BY <1>25

LEMMA FutureAbsent ==
    ASSUME Numbers, Claimed, NEW i \in Int, Written <= i
    PROVE  ~Present(i)
<1>1. ASSUME NEW c \in Consumers, i \in Untaken(c) PROVE FALSE
  <2>1. i \in Pending(c) /\ index[c] \in Nat /\ end[c] \in Nat /\ end[c] <= headIndex
    BY <1>1 DEF Untaken, Claimed, Numbers
  <2>2. headIndex \in Nat /\ tailIndex \in Nat /\ count \in Nat /\ headIndex <= tailIndex
    BY DEF Numbers
  <2>3. i <= end[c] - 1
    BY <2>1 DEF Pending
  <2>4. Written \in Nat /\ tailIndex <= Written
    BY <2>2 DEF Written
  <2> QED
    BY <2>1, <2>2, <2>3, <2>4
<1>2. i \notin headIndex..(Written - 1)
  <2>1. Written \in Int /\ headIndex \in Int
    BY DEF Numbers, Written
  <2> QED
    BY <2>1
<1> QED
  BY <1>1, <1>2 DEF Present

LEMMA FutureItems ==
    ASSUME Numbers, NEW k \in Int, Last < k, NEW i \in Items(k)
    PROVE  i \in Int /\ tailIndex <= i
<1>1. i \in Int /\ BlockOf(i) = k /\ tailIndex \in Nat /\ Last \in Int
  BY ItemsTyped, NumberFacts DEF Numbers
<1>2. ASSUME i <= tailIndex - 1 PROVE FALSE
  <2>1. tailIndex - 1 \in Int
    BY <1>1
  <2>2. BlockOf(i) <= BlockOf(tailIndex - 1)
    BY <1>1, <1>2, <2>1, BlockMono
  <2> QED
    BY <1>1, <2>2 DEF Last
<1> QED
  BY <1>1, <1>2

LEMMA ItemsCount ==
    ASSUME NEW k \in Int
    PROVE  IsFiniteSet(Items(k)) /\ Cardinality(Items(k)) = BLOCK_SIZE
<1>1. PICK x, y : x = k * BLOCK_SIZE /\ y = x + BLOCK_SIZE - 1
  OBVIOUS
<1>2. x \in Int /\ y \in Int /\ y - x + 1 = BLOCK_SIZE /\ ~(x > y)
  BY <1>1, BlockFirst, BlockSize
<1>3. IsFiniteSet(x..y) /\ Cardinality(x..y) = BLOCK_SIZE
  BY <1>2, FS_Interval
<1> QED
  BY <1>1, <1>3 DEF Items

LEMMA AddBlockStep ==
    ASSUME NEW a, NEW m, IInv(a, m), AddBlock
    PROVE  IInv(a, m)'
<1>0. PICK L, c, J :
         /\ L = AtTail /\ c = current.capacity /\ J = Len(headers)
  OBVIOUS
<1> USE DEF IInv
<1>1. PICK b \in free :
        /\ step = "block" /\ step' = "insert"
        /\ base' = base + BLOCK_SIZE /\ needed' = needed - 1 /\ tailBlock' = b
        /\ firstAllocated' = IF firstAllocated = Null THEN b ELSE firstAllocated
        /\ free' = free \ {b}
        /\ dequeued' = [dequeued EXCEPT ![b] = 0]
        /\ value' = [value EXCEPT ![current.index[current.tail]] = b]
        /\ next' = IF tailIndex % BLOCK_SIZE # 0 \/ firstAllocated # Null
                   THEN [next EXCEPT ![b] = Null, ![tailBlock] = b]
                   ELSE [next EXCEPT ![b] = Null]
        /\ UNCHANGED <<tailIndex, headIndex, count, startBlock, content, where, index, end,
                       headers, key, undo, local, tail, slot, block>>
  BY DEF AddBlock, FoundBlock, ProducerOnly, claimVars, readVars
<1>2. /\ Last \in Int /\ -1 <= Last /\ Added \in Nat /\ Removed = 0 /\ L \in Nat
      /\ L = Last + Added + 1 /\ Last < L /\ Added = Found /\ count \in Nat \ {0}
      /\ base = (Last + Added) * BLOCK_SIZE /\ needed \in Nat \ {0}
      /\ needed + Added = BlockOf(tailIndex + count - 1) - Last
  <2>1. /\ Last \in Int /\ -1 <= Last /\ Added \in Nat /\ Removed \in 0..Added /\ Removed = 0
        /\ AtTail = Last + Added - Removed + 1 /\ Added = Found /\ count \in Nat \ {0}
    BY <1>1, NumberFacts
  <2>2. /\ base = (Last + Found) * BLOCK_SIZE /\ needed \in Nat \ {0}
        /\ needed + Found = BlockOf(tailIndex + count - 1) - Last
    BY <1>1 DEF Numbers
  <2>3. L \in Nat /\ L = Last + Added + 1 /\ Last < L
    BY <1>0, <2>1
  <2> QED
    BY <2>1, <2>2, <2>3
<1>3. base' = L * BLOCK_SIZE /\ base' \in Int /\ BlockOf(base') = L
  <2>1. PICK x : x = Last + Added /\ x \in Int /\ x + 1 = L
    BY <1>2
  <2>2. (x + 1) * BLOCK_SIZE = x * BLOCK_SIZE + BLOCK_SIZE
    BY <2>1, BlockFirst
  <2> QED
    BY <1>1, <1>2, <2>1, <2>2, BlockFirst
<1>4. /\ Last' = Last /\ Found' = Added + 1 /\ Added' = Added + 1 /\ Removed' = 0 /\ AtTail' = L
      /\ Unlinked = {} /\ Unlinked' = {} /\ Written' = Written /\ Written = tailIndex
  <2>1. Last' = Last /\ Found' = L - Last
    BY <1>1, <1>3 DEF Last, Found
  <2>2. Added' = Added + 1 /\ Removed' = 0
    BY <1>1, <1>2, <2>1 DEF Added, Removed
  <2>3. AtTail' = L
    BY <1>1, <1>2, <2>1, <2>2 DEF AtTail
  <2> QED
    <3>1. Written' = Written /\ Written = tailIndex
      BY <1>1 DEF Written, Numbers
    <3>2. 1..0 = {}
      OBVIOUS
    <3>3. Unlinked = {} /\ Unlinked' = {}
      BY <1>2, <2>2, <3>2 DEF Unlinked
    <3> QED
      BY <1>2, <2>1, <2>2, <2>3, <3>1, <3>3
<1>5. Numbers'
  <2>1. needed' \in Nat /\ needed' + Found' = BlockOf(tailIndex + count - 1) - Last
        /\ Found' \in Nat /\ Last + Found' = L
    BY <1>1, <1>2, <1>4
  <2>2. (undo \in Seq(Blocks) /\ Len(undo) <= Added)'
    BY <1>1, <1>2, <1>4 DEF Numbers
  <2> QED
    BY <1>1, <1>2, <1>3, <1>4, <2>1, <2>2 DEF Numbers
<1>6. /\ Claimed' /\ \A k : UnreadOf(k)' = UnreadOf(k) /\ Needed(k)' = Needed(k) /\ Since(k)' = Since(k)
      /\ \A k \in Consumers : Untaken(k)' = Untaken(k)
  BY <1>1, ConsumersStill
<1>7. /\ InUse' = InUse \union {L} /\ L \notin InUse /\ InUse \subseteq 0..(L - 1)
      /\ Needed(L) /\ UnreadOf(L) = Items(L)
  <2>1. Needed(L) /\ UnreadOf(L) = Items(L)
    BY <1>2, FutureNeeded
  <2>2. InUse = {k \in 0..(L - 1) : Needed(k)}
    BY <1>2 DEF InUse
  <2>3. InUse' = {k \in 0..L : Needed(k)}
    BY <1>1, <1>2, <1>4, <1>6 DEF InUse
  <2> QED
    BY <1>2, <2>1, <2>2, <2>3
<1>8. /\ c \in Nat \ {0} /\ J \in DOMAIN headers /\ m[J] \in Int
      /\ L <= m[J] /\ m[J] - c <= Last /\ \A k \in InUse : m[J] - c < k
      /\ current.tail = (L + a[J]) % c
      /\ current.index[current.tail] = Entry(a, L) /\ Entry(a, L) \in Entries
  <2>1. c \in Nat \ {0} /\ J \in DOMAIN headers /\ m[J] \in Int
    BY <1>0, HeaderFacts
  <2>2. /\ L <= m[J] /\ m[J] - c <= Last /\ \A k \in InUse : m[J] - c < k
        /\ current.tail = (L + a[J]) % c
    BY <1>0 DEF Rings, CurrentRing
  <2>3. current.index[current.tail] = Entry(a, L)
    BY <1>0, <2>2, HeaderFacts DEF Entry, EntryIn
  <2>4. Entry(a, L) \in Entries
    BY <1>2, EntryFacts
  <2> QED
    BY <2>1, <2>2, <2>3, <2>4
<1>9. ASSUME NEW k \in InUse PROVE Entry(a, k) # Entry(a, L) /\ Entry(a, k) \in Entries /\ k \in Int
  <2>1. k \in Int /\ k < L /\ m[J] - c < k
    BY <1>2, <1>7, <1>8
  <2>2. k - L < c /\ L - k < c /\ k # L
    BY <1>2, <1>8, <2>1
  <2>3. Entry(a, k) # Entry(a, L)
    BY <1>0, <1>2, <2>1, <2>2, EntryFacts
  <2> QED
    BY <2>1, <2>3, EntryFacts
<1>10. Headers' /\ SameIndex /\ Entries' = Entries /\ current' = current
       /\ \A e \in Entries : value'[e] = IF e = Entry(a, L) THEN b ELSE value[e]
  <2>1. /\ value \in Seq(Blocks \union {Null}) /\ DOMAIN value = Entries /\ b \in Blocks \union {Null}
        /\ Entries = 1..Len(value)
    BY HeaderFacts DEF Headers, Owned, Entries
  <2>2. value' = [value EXCEPT ![Entry(a, L)] = b]
    BY <1>1, <1>8
  <2>3. value' \in Seq(Blocks \union {Null}) /\ Len(value') = Len(value)
    <3>1. PICK S : S = Blocks \union {Null}
      OBVIOUS
    <3>2. value \in Seq(S) /\ b \in S /\ Entry(a, L) \in 1..Len(value)
      BY <1>8, <2>1, <3>1
    <3> QED
      BY <2>2, <3>1, <3>2, ExceptSeq
  <2>4. \A e \in Entries : value'[e] = IF e = Entry(a, L) THEN b ELSE value[e]
    BY <2>1, <2>2
  <2>5. SameIndex /\ Entries' = Entries /\ current' = current
    BY <1>1 DEF SameIndex, Entries, current
  <2>6. Headers'
    BY <1>1, <2>3, <2>5 DEF Headers
  <2> QED
    BY <2>4, <2>5, <2>6
<1>11. /\ \A k : Entry(a, k)' = Entry(a, k)
       /\ \A j, k : EntryIn(a, j, k)' = EntryIn(a, j, k)
       /\ Home(a, L)' = b
       /\ \A k \in InUse : Home(a, k)' = Home(a, k)
  <2>1. /\ \A k : Entry(a, k)' = Entry(a, k)
        /\ \A j, k : EntryIn(a, j, k)' = EntryIn(a, j, k)
    BY <1>1 DEF EntryIn, Entry
  <2> QED
    BY <1>8, <1>9, <1>10, <2>1 DEF Home
<1>12. Rings(a, m)'
  <2>1. \A k \in InUse' : m[J] - c < k
    BY <1>2, <1>7, <1>8
  <2> QED
    BY <1>0, <1>1, <1>4, <1>6, <1>10, <1>11, <2>1 DEF Rings, CurrentRing, OldRings
<1>13. Reads(a, m)'
  <2>1. \A j \in DOMAIN headers : m[j] \in Int /\ m[j] <= m[j]
    OBVIOUS
  <2> QED
    BY <1>1, <1>11, <2>1, ReadsStill
<1>14. b \in Blocks /\ b \notin InIndex(a) /\ b # Null
       /\ \A k \in InUse : Home(a, k) # b /\ Home(a, k) \in Blocks
  <2>1. b \in Blocks /\ b \notin InIndex(a)
    BY DEF Owned
  <2>2. \A k \in InUse : Home(a, k) # b /\ Home(a, k) \in Blocks
    BY <2>1 DEF InIndex, Owned
  <2> QED
    BY <2>1, <2>2 DEF Blocks, Null
<1>15. PICK g : g = [k \in 1..(Added + 1) |-> IF k <= Added THEN CallBlocks[k] ELSE b]
  OBVIOUS
<1>16. /\ \A k \in 1..Added : /\ k \in 1..(Added + 1) /\ Last + k \in InUse
                              /\ g[k] = CallBlocks[k] /\ CallBlocks[k] = Home(a, Last + k)
                              /\ CallBlocks[k] # b /\ CallBlocks[k] \in Blocks
       /\ g[Added + 1] = b
       /\ Added = 0 <=> firstAllocated = Null
       /\ Added > 0 => CallBlocks[1] = firstAllocated /\ tailBlock = CallBlocks[Added]
       /\ Added = 0 => tailBlock = startBlock
  <2>1. ASSUME NEW k \in 1..Added PROVE Last + k \in InUse /\ k \in 1..(Added + 1) /\ k <= Added
    <3>1. Last + k \in Int /\ Last + k \in 0..(Last + Added) /\ Last + Removed < Last + k
      BY <1>2
    <3> QED
      BY <1>2, <3>1, NextNeeded
  <2>2. \A k \in 1..Added : CallBlocks[k] = Home(a, Last + k)
    BY <1>2 DEF Chained
  <2>3. \A k \in 1..Added : g[k] = CallBlocks[k]
    BY <1>15, <2>1
  <2>4. g[Added + 1] = b
    BY <1>2, <1>15
  <2>5. /\ Added = 0 <=> firstAllocated = Null
        /\ Added > 0 => CallBlocks[1] = firstAllocated /\ tailBlock = CallBlocks[Added]
        /\ Added = 0 => tailBlock = startBlock
    BY <1>1, <1>2 DEF Chained
  <2> QED
    BY <1>14, <2>1, <2>2, <2>3, <2>4, <2>5
<1>17. /\ next' \in [Blocks -> Blocks \union {Null}]
       /\ Added > 0 => next'[tailBlock] = b
       /\ \A e \in Blocks : e # b /\ e # tailBlock => next'[e] = next[e]
  <2>1. next \in [Blocks -> Blocks \union {Null}]
    BY DEF Chained
  <2>2. CASE firstAllocated # Null
    <3>1. Added > 0 /\ tailBlock = CallBlocks[Added] /\ tailBlock # b /\ tailBlock \in Blocks
      BY <1>2, <1>16, <2>2
    <3>2. next' = [next EXCEPT ![b] = Null, ![tailBlock] = b]
      BY <1>1, <2>2
    <3> QED
      BY <1>14, <2>1, <3>1, <3>2
  <2>3. CASE firstAllocated = Null
    <3>1. ~(Added > 0)
      BY <1>2, <1>16, <2>3
    <3>2. next' = [next EXCEPT ![b] = Null, ![tailBlock] = b] \/ next' = [next EXCEPT ![b] = Null]
      BY <1>1
    <3>3. next' \in [Blocks -> Blocks \union {Null}]
      BY <1>14, <2>1, <3>2
    <3>4. \A e \in Blocks : e # b /\ e # tailBlock => next'[e] = next[e]
      BY <1>14, <2>1, <3>2
    <3> QED
      BY <3>1, <3>3, <3>4
  <2> QED
    BY <2>2, <2>3
<1>20. \A k \in 1..(Added + 1) : k \in 1..Added \/ k = Added + 1
  BY <1>2
<1>18. g = [k \in 1..(Added + 1) |-> g[k]] /\ g[1] = firstAllocated'
       /\ \A k \in 1..Added : g[k + 1] = next'[g[k]]
  <2>1. g = [k \in 1..(Added + 1) |-> g[k]]
    BY <1>15
  <2>2. g[1] = firstAllocated'
    <3>1. CASE Added = 0
      BY <1>1, <1>16, <3>1
    <3>2. CASE Added > 0
      <4>1. 1 \in 1..Added /\ Added # 0
        BY <1>2, <3>2
      <4> QED
        BY <1>1, <1>16, <3>2, <4>1
    <3> QED
      BY <1>2, <3>1, <3>2
  <2>3. ASSUME NEW k \in 1..Added PROVE g[k + 1] = next'[g[k]]
    <3>0. Added > 0
      BY <1>2
    <3>1. CASE k = Added
      BY <1>16, <1>17, <3>0, <3>1
    <3>2. CASE k < Added
      <4>1. k + 1 \in 1..Added /\ k \in 1..(Added - 1) /\ Added \in 1..Added /\ k # Added
        BY <1>2, <3>0, <3>2
      <4>2. CallBlocks[k + 1] = next[CallBlocks[k]] /\ CallBlocks[k] # CallBlocks[Added]
        BY <3>0, <4>1 DEF Chained
      <4> QED
        BY <1>16, <1>17, <3>0, <4>1, <4>2
    <3> QED
      BY <1>2, <3>0, <3>1, <3>2
  <2> QED
    BY <2>1, <2>2, <2>3
<1>19. CallBlocks' = g
  <2>1. PICK z : z = Added + 1
    OBVIOUS
  <2>2. z \in Nat /\ z - 1 = Added
    BY <1>2, <2>1
  <2>3. IsPath(firstAllocated', next', z, g)
    <3>1. DOMAIN g = 1..z /\ g = [k \in 1..z |-> g[k]]
      BY <1>15, <1>18, <2>1
    <3> QED
      BY <1>18, <2>2, <3>1 DEF IsPath
  <2>4. Path(firstAllocated', next', z) = g
    BY <2>2, <2>3, PathIs
  <2> QED
    BY <1>4, <2>1, <2>4 DEF CallBlocks
<1>21. Chained(a)'
  <2>1. ({tailBlock, startBlock, firstAllocated} \subseteq Blocks \union {Null})'
    BY <1>1, <1>14 DEF Chained
  <2>2. Added' # 0 /\ firstAllocated' # Null
    BY <1>1, <1>2, <1>4, <1>14
  <2>3. CallBlocks' \in [1..Added' -> Blocks]
    <3>1. \A k \in 1..(Added + 1) : g[k] \in Blocks
      BY <1>14, <1>16, <1>20
    <3> QED
      BY <1>4, <1>15, <1>19, <3>1
  <2>4. \A k, l \in 1..(Added + 1) : g[k] = g[l] => k = l
    <3>1. \A k, l \in 1..Added : CallBlocks[k] = CallBlocks[l] => k = l
      BY DEF Chained
    <3> QED
      BY <1>16, <1>20, <3>1
  <2>5. CallBlocks'[1] = firstAllocated' /\ \A k \in 1..(Added' - 1) : CallBlocks'[k + 1] = next'[CallBlocks'[k]]
    <3>1. Added' - 1 = Added
      BY <1>2, <1>4
    <3> QED
      BY <1>18, <1>19, <3>1
  <2>6. (\A k \in (Removed + 1)..Added : CallBlocks[k] = Home(a, Last + k))'
    <3>1. ASSUME NEW k \in 1..(Added + 1) PROVE g[k] = Home(a, Last + k)'
      <4>1. PICK x : x = Last + k
        OBVIOUS
      <4>2. g[k] = Home(a, x)'
        <5>1. CASE k \in 1..Added
          BY <1>11, <1>16, <4>1, <5>1
        <5>2. CASE k = Added + 1
          <6>1. x = L
            BY <1>2, <4>1, <5>2
          <6> QED
            BY <1>11, <1>16, <5>2, <6>1
        <5> QED
          BY <1>20, <5>1, <5>2
      <4>3. x = Last' + k
        BY <1>4, <4>1
      <4> QED
        BY <4>2, <4>3
    <3>2. Removed' + 1 = 1
      BY <1>4
    <3> QED
      BY <1>4, <1>19, <3>1, <3>2
  <2>7. tailBlock' = CallBlocks'[Added']
    BY <1>1, <1>4, <1>16, <1>19
  <2>8. Last' \in InUse' => Home(a, Last)' = startBlock'
    <3>1. Last # L
      BY <1>2
    <3> QED
      BY <1>1, <1>4, <1>7, <1>11, <3>1 DEF Chained
  <2>9. \A k, l \in 1..Added' : CallBlocks'[k] = CallBlocks'[l] => k = l
    BY <1>4, <1>19, <2>4
  <2> QED
    BY <1>1, <1>4, <1>17, <2>1, <2>2, <2>3, <2>5, <2>6, <2>7, <2>8, <2>9 DEF Chained
<1>22. /\ InIndex(a)' = InIndex(a) \union {b}
       /\ \A k \in Consumers : HeldBy(k)' = HeldBy(k)
       /\ UNION {HeldBy(k)' : k \in Consumers} = UNION {HeldBy(k) : k \in Consumers}
  <2>1. InIndex(a)' = {Home(a, k)' : k \in InUse \union {L}}
    BY <1>7 DEF InIndex
  <2>2. InIndex(a)' = InIndex(a) \union {b}
    BY <1>11, <2>1 DEF InIndex
  <2>3. \A k \in Consumers : HeldBy(k)' = HeldBy(k)
    BY <1>1 DEF HeldBy
  <2> QED
    BY <2>2, <2>3
<1>23. Owned(a)'
  <2>1. PICK H : H = UNION {HeldBy(k) : k \in Consumers} /\ H = UNION {HeldBy(k)' : k \in Consumers}
    BY <1>22
  <2>2. /\ Blocks = free \union InIndex(a) \union H
        /\ free \intersect (InIndex(a) \union H) = {} /\ InIndex(a) \intersect H = {}
    BY <1>4, <2>1 DEF Owned
  <2>3. /\ Blocks = free' \union InIndex(a)' \union H
        /\ free' \intersect (InIndex(a)' \union H) = {} /\ InIndex(a)' \intersect H = {}
    BY <1>1, <1>14, <1>22, <2>2
  <2>4. \A k \in InUse' : Home(a, k)' \in Blocks
    BY <1>7, <1>11, <1>14
  <2>5. \A k, l \in InUse' : Home(a, k)' = Home(a, l)' => k = l
    <3>1. \A k, l \in InUse : Home(a, k) = Home(a, l) => k = l
      BY DEF Owned
    <3> QED
      BY <1>7, <1>11, <1>14, <3>1
  <2>6. \A e \in Entries' : value'[e] # Null => \E k \in InUse' : e = Entry(a, k)'
    <3>1. ASSUME NEW e \in Entries, value'[e] # Null
          PROVE  \E k \in InUse' : e = Entry(a, k)'
      <4>1. CASE e = Entry(a, L)
        BY <1>7, <1>11, <4>1
      <4>2. CASE e # Entry(a, L)
        <5>1. value[e] # Null
          BY <1>10, <3>1, <4>2
        <5>2. PICK k \in InUse : e = Entry(a, k)
          BY <5>1 DEF Owned
        <5> QED
          BY <1>7, <1>11, <5>2
      <4> QED
        BY <4>1, <4>2
    <3> QED
      BY <1>10, <3>1
  <2>7. /\ (free \subseteq Blocks)' /\ (block \in [Consumers -> Blocks \union {Null}])'
        /\ (\A k \in Consumers : where[k] = "free" => block[k] \in Blocks)'
        /\ (\A k \in Consumers : HeldBy(k) \intersect Unlinked = {})'
        /\ (\A k, l \in Consumers : k # l => HeldBy(k) \intersect HeldBy(l) = {})'
    BY <1>1, <1>4, <1>22 DEF Owned
  <2> QED
    BY <1>4, <2>1, <2>3, <2>4, <2>5, <2>6, <2>7 DEF Owned
<1>24. Filled(a)'
  <2>1. /\ dequeued \in [Blocks -> 0..BLOCK_SIZE] /\ content \in [Blocks -> [Offsets -> Int]]
        /\ \A k \in InUse : dequeued[Home(a, k)] + Cardinality(UnreadOf(k)) = BLOCK_SIZE
        /\ \A k \in InUse : \A i \in Items(k) :
              content[Home(a, k)][i % BLOCK_SIZE] = IF Present(i) THEN i ELSE Nothing
        /\ \A e \in Blocks \ InIndex(a) : \A o \in Offsets : content[e][o] = Nothing
    BY DEF Filled
  <2>2. dequeued' \in [Blocks -> 0..BLOCK_SIZE]
    <3>1. 0 \in 0..BLOCK_SIZE
      BY BlockSize
    <3> QED
      BY <1>1, <2>1, <3>1
  <2>3. \A k \in InUse' : dequeued'[Home(a, k)'] + Cardinality(UnreadOf(k)) = BLOCK_SIZE
    <3>1. \A k \in InUse : dequeued'[Home(a, k)'] + Cardinality(UnreadOf(k)) = BLOCK_SIZE
      BY <1>1, <1>11, <1>14, <2>1
    <3>2. dequeued'[b] = 0 /\ Cardinality(UnreadOf(L)) = BLOCK_SIZE
      BY <1>1, <1>2, <1>7, <1>14, <2>1, ItemsCount
    <3>3. dequeued'[Home(a, L)'] + Cardinality(UnreadOf(L)) = BLOCK_SIZE
      BY <1>11, <3>2, BlockSize
    <3> QED
      BY <1>7, <3>1, <3>3
  <2>4. \A i : Present(i)' = Present(i)
    BY <1>1, <1>4, <1>6 DEF Present
  <2>5. ASSUME NEW i \in Items(L) PROVE ~Present(i) /\ i % BLOCK_SIZE \in Offsets
    <3>1. i \in Int /\ tailIndex <= i
      BY <1>2, <2>5, FutureItems
    <3> QED
      BY <1>2, <1>4, <2>5, <3>1, FutureAbsent, ItemsTyped
  <2>6. \A k \in InUse' : \A i \in Items(k) :
              content[Home(a, k)'][i % BLOCK_SIZE] = IF Present(i) THEN i ELSE Nothing
    <3>1. \A i \in Items(L) : content[Home(a, L)'][i % BLOCK_SIZE] = IF Present(i) THEN i ELSE Nothing
      BY <1>11, <1>14, <2>1, <2>5
    <3>2. \A k \in InUse : \A i \in Items(k) :
              content[Home(a, k)'][i % BLOCK_SIZE] = IF Present(i) THEN i ELSE Nothing
      BY <1>11, <2>1
    <3> QED
      BY <1>7, <3>1, <3>2
  <2>7. \A e \in Blocks \ InIndex(a)' : \A o \in Offsets : content[e][o] = Nothing
    BY <1>22, <2>1
  <2>8. Items(0)' = Items(0) /\ \A k : Items(k)' = Items(k)
    BY DEF Items
  <2> QED
    BY <1>1, <1>6, <2>1, <2>2, <2>3, <2>4, <2>6, <2>7, <2>8 DEF Filled
<1> QED
  <2>1. Claimed'
    BY <1>6
  <2> QED
    BY <1>1, <1>5, <1>10, <1>12, <1>13, <1>21, <1>23, <1>24, <2>1

\* The tail goes back, or stays.
LEMMA RingsBack ==
    ASSUME NEW a, NEW m, Numbers, Headers, Rings(a, m), SameIndex, key' = key, Last' = Last,
           InUse' \subseteq InUse, \A k : Since(k)' => Since(k),
           m[Len(headers)] \in Int, AtTail' \in Int, AtTail' <= AtTail,
           current'.tail = (AtTail' + a[Len(headers)]) % current.capacity,
           \A j \in 1..(Len(headers) - 1) : headers'[j].tail = headers[j].tail
    PROVE  Rings(a, m)'
<1>1. PICK J : J = Len(headers) /\ J = Len(headers')
  BY DEF SameIndex
<1>2. /\ J \in DOMAIN headers /\ \A j \in 1..(J - 1) : j \in DOMAIN headers
      /\ current' = headers'[J] /\ current = headers[J]
      /\ current'.capacity = current.capacity
  BY <1>1, HeaderFacts DEF SameIndex, current
<1>3. /\ \A k : Entry(a, k)' = Entry(a, k)
      /\ \A j \in DOMAIN headers : \A k : EntryIn(a, j, k)' = EntryIn(a, j, k)
  BY EntriesStill
<1>4. CurrentRing(a, m[J])'
  <2>1. CurrentRing(a, m[J])
    BY <1>1 DEF Rings
  <2>2. AtTail' <= m[J]
    <3>1. AtTail <= m[J] /\ AtTail \in Int /\ m[J] \in Int
      BY <1>1, <2>1, NumberFacts DEF CurrentRing
    <3> QED
      BY <3>1
  <2> QED
    BY <1>1, <1>2, <1>3, <2>1, <2>2 DEF CurrentRing
<1>5. OldRings(a, m)'
  <2>1. ASSUME NEW j \in 1..(J - 1)
        PROVE  /\ headers'[j].tail = (m[j] + a[j]) % headers'[j].capacity
               /\ m[j] <= m[J]
               /\ \A k \in 0..m[j] : Since(k)' => EntryIn(a, j, k)' = Entry(a, k)'
    <3>1. /\ headers[j].tail = (m[j] + a[j]) % headers[j].capacity
          /\ m[j] <= m[J]
          /\ \A k \in 0..m[j] : Since(k) => EntryIn(a, j, k) = Entry(a, k)
      BY <1>1 DEF Rings, OldRings
    <3>2. j \in DOMAIN headers
      BY <1>2
    <3>3. headers'[j].tail = headers[j].tail /\ headers'[j].capacity = headers[j].capacity
      BY <1>1, <3>2 DEF SameIndex
    <3>4. \A k \in 0..m[j] : Since(k)' => EntryIn(a, j, k)' = Entry(a, k)'
      BY <1>3, <3>1, <3>2
    <3> QED
      BY <3>1, <3>3, <3>4
  <2> QED
    BY <1>1, <2>1 DEF OldRings
<1> QED
  BY <1>1, <1>4, <1>5 DEF Rings

LEMMA RewoundFacts ==
    ASSUME NEW a, NEW m, IInv(a, m), headers' = Rewound
    PROVE  /\ SameIndex /\ headers' \in Seq(AnyHeader) /\ headers' # <<>>
           /\ current'.tail = ((AtTail - 1) + a[Len(headers)]) % current.capacity
           /\ current'.capacity = current.capacity /\ current'.index = current.index
           /\ \A j \in 1..(Len(headers) - 1) : headers'[j].tail = headers[j].tail
<1> USE DEF IInv
<1>1. PICK L, k, d : L = AtTail /\ k = L - 1 /\ d = -1
  OBVIOUS
<1>2. L \in Int /\ k \in Int /\ d \in Int /\ k = L + d /\ TailAt(a, L)
  <2>1. L \in Int
    BY <1>1, NumberFacts
  <2>2. TailAt(a, L)
    BY <1>1 DEF Rings, CurrentRing, TailAt
  <2> QED
    BY <1>1, <2>1, <2>2
<1>3. Place(d) = (k + a[Len(headers)]) % current.capacity /\ Place(d) \in 0..(current.capacity - 1)
  BY <1>2, FromTail
<1>4. current.tail - 1 = current.tail + d
  <2>1. current.tail \in Int
    BY HeaderFacts
  <2> QED
    BY <1>1, <2>1
<1>5. headers' = WithTail(Place(d))
  BY <1>4 DEF Rewound, Place
<1> QED
  BY <1>1, <1>3, <1>5, TailSet

LEMMA HeadersMoved ==
    ASSUME Headers, SameIndex, UNCHANGED key, headers' \in Seq(AnyHeader), headers' # <<>>,
           value' \in Seq(Blocks \union {Null}), Len(value') = Len(value)
    PROVE  Headers' /\ Entries' = Entries
           /\ current'.capacity = current.capacity /\ current'.index = current.index
<1>1. Len(headers) \in DOMAIN headers
  BY HeaderFacts
<1>2. current'.capacity = current.capacity /\ current'.index = current.index
  BY <1>1 DEF SameIndex, current
<1> QED
  BY <1>2 DEF Headers, SameIndex, Entries

LEMMA BeginUndoStep ==
    ASSUME NEW a, NEW m, IInv(a, m), BeginUndo, step \in {"insert", "block", "fill"},
           IF step = "block" THEN headers' = Rewound ELSE UNCHANGED headers
    PROVE  IInv(a, m)'
<1> USE DEF IInv
<1>1. /\ undo' = Chain /\ tailBlock' = startBlock /\ step' = "undo"
      /\ UNCHANGED <<tailIndex, headIndex, count, needed, base, startBlock, firstAllocated,
                     next, content, where, index, end, key, value, free, dequeued,
                     local, tail, slot, block>>
  BY DEF BeginUndo, ProducerOnly, claimVars, readVars, callVars
<1>2. /\ Last \in Int /\ -1 <= Last /\ Added \in Nat /\ Removed = 0 /\ Added = Found
      /\ CallBlocks \in [1..Added -> Blocks]
  BY NumberFacts DEF Chained
<1>3. undo' \in Seq(Blocks) /\ Len(undo') = Added
  <2>1. Chain = [k \in 1..Added |-> CallBlocks[k]] /\ \A k \in 1..Added : CallBlocks[k] \in Blocks
    BY <1>2 DEF Chain
  <2> QED
    BY <1>1, <1>2, <2>1
<1>4. /\ Last' = Last /\ Found' = Found /\ Added' = Added /\ Removed' = 0
      /\ CallBlocks' = CallBlocks /\ Written' = Written /\ Unlinked' = Unlinked
      /\ AtTail' = Last + Added
  <2>1. Last' = Last /\ Found' = Found
    BY <1>1 DEF Last, Found
  <2>2. Added' = Added
    BY <1>1, <1>2, <2>1 DEF Added
  <2>3. Removed' = 0
    BY <1>1, <1>2, <1>3, <2>2 DEF Removed
  <2>4. AtTail' = Last + Added
    BY <1>1, <1>2, <2>1, <2>2, <2>3 DEF AtTail
  <2>5. CallBlocks' = CallBlocks /\ Unlinked' = Unlinked
    BY <1>1, <1>2, <2>1, <2>3 DEF CallBlocks, Unlinked
  <2>6. Written' = Written
    BY <1>1 DEF Written
  <2> QED
    BY <2>1, <2>2, <2>3, <2>4, <2>5, <2>6
<1>5. /\ SameIndex /\ headers' \in Seq(AnyHeader) /\ headers' # <<>>
      /\ current'.tail = (AtTail' + a[Len(headers)]) % current.capacity
      /\ \A j \in 1..(Len(headers) - 1) : headers'[j].tail = headers[j].tail
      /\ AtTail' \in Int /\ AtTail' <= AtTail
  <2>1. CASE step = "block"
    <3>1. AtTail' = AtTail - 1 /\ AtTail \in Int
      BY <1>2, <1>4, <2>1, NumberFacts
    <3> QED
      BY <2>1, <3>1, RewoundFacts
  <2>2. CASE step # "block"
    <3>1. AtTail' = AtTail /\ AtTail \in Int
      BY <1>2, <1>4, <2>2, NumberFacts
    <3>2. headers' = headers
      BY <2>2
    <3> QED
      BY <3>1, <3>2 DEF SameIndex, Headers, Rings, CurrentRing, current
  <2> QED
    BY <2>1, <2>2
<1>6. /\ Claimed' /\ \A k : Needed(k)' = Needed(k) /\ Since(k)' = Since(k)
  BY <1>1, ConsumersStill
<1>7. InUse' = InUse
  BY <1>1, <1>2, <1>4, <1>6 DEF InUse
<1>8. Numbers'
  <2>1. Len(undo') <= Added'
    BY <1>2, <1>3, <1>4
  <2> QED
    BY <1>1, <1>2, <1>3, <1>4, <2>1 DEF Numbers
<1>9. Headers' /\ Entries' = Entries
  BY <1>1, <1>5, HeadersMoved DEF Headers
<1>10. \A k : Entry(a, k)' = Entry(a, k) /\ Home(a, k)' = Home(a, k)
  BY <1>1, <1>5, EntriesStill DEF Home
<1>11. Rings(a, m)'
  <2>1. m[Len(headers)] \in Int
    BY HeaderFacts
  <2> QED
    BY <1>1, <1>4, <1>5, <1>6, <1>7, <2>1, RingsBack
<1>12. Reads(a, m)'
  <2>1. \A j \in DOMAIN headers : m[j] \in Int /\ m[j] <= m[j]
    OBVIOUS
  <2>2. \A j \in DOMAIN headers : headers'[j].capacity = headers[j].capacity
    BY <1>5 DEF SameIndex
  <2> QED
    BY <1>1, <1>5, <1>10, <2>1, <2>2, ReadsStill DEF SameIndex
<1>13. Chained(a)'
  <2>1. /\ ({tailBlock, startBlock, firstAllocated} \subseteq Blocks \union {Null})'
        /\ next' \in [Blocks -> Blocks \union {Null}]
        /\ Added' = 0 <=> firstAllocated' = Null
    BY <1>1, <1>4 DEF Chained
  <2>2. (\A k \in (Removed + 1)..Added : CallBlocks[k] = Home(a, Last + k))'
    BY <1>2, <1>4, <1>10 DEF Chained
  <2>3. Last \in InUse => Home(a, Last) = startBlock
    BY DEF Chained
  <2> QED
    BY <1>1, <1>2, <1>4, <1>7, <1>10, <2>1, <2>2, <2>3 DEF Chained
<1>14. Owned(a)'
  <2>1. \A e \in Entries' : value'[e] # Null => \E k \in InUse : e = Entry(a, k)'
    BY <1>1, <1>9, <1>10 DEF Owned
  <2> QED
    BY <1>1, <1>4, <1>7, <1>10, <2>1, OwnedStill
<1>15. Filled(a)'
  BY <1>1, <1>4, <1>7, <1>10, FilledStill
<1> QED
  <2>1. (a \in [DOMAIN headers -> Int] /\ m \in [DOMAIN headers -> Int])'
    BY <1>5 DEF SameIndex
  <2>2. Claimed'
    BY <1>6
  <2> QED
    BY <1>8, <1>9, <1>11, <1>12, <1>13, <1>14, <1>15, <2>1, <2>2

LEMMA ItemAt ==
    ASSUME NEW k \in Int, NEW o \in Offsets
    PROVE  k * BLOCK_SIZE + o \in Items(k) /\ (k * BLOCK_SIZE + o) % BLOCK_SIZE = o
<1>1. PICK i : i = k * BLOCK_SIZE + o
  OBVIOUS
<1>2. k * BLOCK_SIZE \in Int /\ i \in Int /\ i = BLOCK_SIZE * k + o /\ o \in 0..(BLOCK_SIZE - 1)
  BY <1>1, BlockFirst, BlockSize DEF Offsets
<1>3. k = BlockOf(i) /\ o = i % BLOCK_SIZE
  BY <1>2, BlockSize, DivisionUnique DEF BlockOf
<1> QED
  BY <1>1, <1>2, <1>3, BlockIs

\* A block with no item present is empty.
LEMMA EmptyBlock ==
    ASSUME NEW a, Filled(a), NEW k \in InUse, k \in Int, \A i \in Items(k) : ~Present(i)
    PROVE  \A o \in Offsets : content[Home(a, k)][o] = Nothing
<1> TAKE o \in Offsets
<1>1. PICK i \in Items(k) : i % BLOCK_SIZE = o
  BY ItemAt
<1> QED
  BY <1>1 DEF Filled

LEMMA UndoOneStep ==
    ASSUME NEW a, NEW m, IInv(a, m), UndoOne
    PROVE  IInv(a, m)'
<1> USE DEF IInv
<1>0. PICK r, b : r = Last + 1 + Removed /\ b = Home(a, r)
  OBVIOUS
<1>1. /\ step = "undo" /\ undo # <<>>
      /\ value' = [value EXCEPT ![EntryOf(UndoBase)] = Null]
      /\ headers' = Rewound /\ undo' = Tail(undo)
      /\ UNCHANGED <<tailIndex, headIndex, step, count, needed, base, startBlock, firstAllocated,
                     tailBlock, next, content, where, index, end, key, free, dequeued,
                     local, tail, slot, block>>
  BY DEF UndoOne, ProducerOnly, claimVars, readVars, callVars
<1>2. /\ undo \in Seq(Blocks) /\ Len(undo) \in Nat \ {0}
      /\ undo' \in Seq(Blocks) /\ Len(undo') = Len(undo) - 1
  <2>1. undo \in Seq(Blocks)
    BY DEF Numbers
  <2> QED
    BY <1>1, <2>1, HeadTailProperties
<1>3. /\ Last \in Int /\ -1 <= Last /\ Added \in Nat /\ Removed \in Nat /\ Removed < Added
      /\ Removed = Added - Len(undo) /\ Added = Found
      /\ AtTail = Last + Added - Removed /\ AtTail \in Int /\ Last < AtTail
  <2>1. Removed = Added - Len(undo)
    BY <1>1 DEF Removed
  <2>2. /\ Last \in Int /\ -1 <= Last /\ Added \in Nat /\ Removed \in 0..Added /\ Added = Found
        /\ AtTail = Last + Added - Removed + 0
    BY <1>1, NumberFacts
  <2> QED
    BY <1>2, <2>1, <2>2
<1>4. /\ Last' = Last /\ Found' = Found /\ Added' = Added /\ Removed' = Removed + 1
      /\ CallBlocks' = CallBlocks /\ Written' = Written /\ Written = tailIndex
      /\ AtTail' = AtTail - 1
  <2>1. Last' = Last /\ Found' = Found
    BY <1>1 DEF Last, Found
  <2>2. Added' = Added
    BY <1>1, <1>3, <2>1 DEF Added
  <2>3. Removed' = Removed + 1
    BY <1>1, <1>2, <1>3, <2>2 DEF Removed
  <2>4. AtTail' = AtTail - 1
    BY <1>1, <1>3, <2>1, <2>2, <2>3 DEF AtTail
  <2>5. CallBlocks' = CallBlocks
    BY <1>1, <2>1 DEF CallBlocks
  <2>6. Written' = Written /\ Written = tailIndex
    BY <1>1 DEF Written, Numbers
  <2> QED
    BY <2>1, <2>2, <2>3, <2>4, <2>5, <2>6
<1>5. /\ SameIndex /\ headers' \in Seq(AnyHeader) /\ headers' # <<>>
      /\ current'.tail = (AtTail' + a[Len(headers)]) % current.capacity
      /\ \A j \in 1..(Len(headers) - 1) : headers'[j].tail = headers[j].tail
      /\ AtTail' \in Int /\ AtTail' <= AtTail
  <2>1. AtTail' \in Int /\ AtTail' <= AtTail /\ AtTail' = AtTail - 1
    BY <1>3, <1>4
  <2>2. headers' = Rewound
    BY <1>1
  <2>3. /\ SameIndex /\ headers' \in Seq(AnyHeader) /\ headers' # <<>>
        /\ current'.tail = ((AtTail - 1) + a[Len(headers)]) % current.capacity
        /\ \A j \in 1..(Len(headers) - 1) : headers'[j].tail = headers[j].tail
    BY <2>2, RewoundFacts
  <2> QED
    BY <2>1, <2>3
<1>6. /\ Claimed' /\ \A k : Needed(k)' = Needed(k) /\ Since(k)' = Since(k)
  BY <1>1, ConsumersStill
<1>7. /\ r \in InUse /\ r \in Int /\ Last < r /\ r \in Nat
      /\ InUse' = InUse \ {r}
  <2>1. r \in Int /\ r \in 0..(Last + Added) /\ Last + Removed < r /\ Last < r
    BY <1>0, <1>3
  <2>2. r \in InUse
    BY <2>1, NextNeeded
  <2>3. \A k \in 0..(Last + Added) :
           (k <= Last \/ k > Last + Removed + 1) <=> ((k <= Last \/ k > Last + Removed) /\ k # r)
    <3>1. PICK x, y : x = Last /\ y = Last + Removed
      OBVIOUS
    <3>2. x \in Int /\ y \in Int /\ x <= y /\ r = y + 1 /\ Last + Removed + 1 = y + 1
      BY <1>0, <1>3, <3>1
    <3>3. 0..(Last + Added) \subseteq Int
      BY <1>3
    <3>4. \A k \in Int : (k <= x \/ k > y + 1) <=> ((k <= x \/ k > y) /\ k # r)
      BY <3>2
    <3> QED
      BY <3>1, <3>2, <3>3, <3>4
  <2>4. InUse' = InUse \ {r}
    BY <1>1, <1>3, <1>4, <1>6, <2>3 DEF InUse
  <2> QED
    BY <2>1, <2>2, <2>4
<1>8. EntryOf(UndoBase) = Entry(a, r)
  <2>1. UndoBase = r * BLOCK_SIZE
    <3>1. Chain = [k \in 1..Added |-> CallBlocks[k]]
      BY <1>1 DEF Chain, Chained
    <3>2. Len(Chain) = Added
      BY <1>3, <3>1
    <3>3. (BlockOf(tailIndex - 1) + 1 + Len(Chain) - Len(undo)) = r
      BY <1>0, <1>2, <1>3, <3>2 DEF Last
    <3> QED
      BY <3>3 DEF UndoBase
  <2>2. BlockOf(UndoBase) = r
    BY <1>7, <2>1, BlockFirst
  <2>3. PICK L, d : L = AtTail /\ d = r - L
    OBVIOUS
  <2>4. /\ L \in Int /\ d \in Int /\ r = L + d /\ L \in Nat
        /\ current.tail = (L + a[Len(headers)]) % current.capacity
    BY <1>3, <1>7, <2>3 DEF Rings, CurrentRing
  <2>5. current.index[current.tail] = Entry(a, L)
    BY <2>4, HeaderFacts DEF Entry, EntryIn
  <2>6. key[Entry(a, L)] = L * BLOCK_SIZE
    <3>1. m[Len(headers)] \in Int
      BY HeaderFacts
    <3>2. L <= m[Len(headers)]
      BY <2>3 DEF Rings, CurrentRing
    <3>3. L \in 0..m[Len(headers)]
      BY <2>4, <3>1, <3>2
    <3>4. Since(L)
      BY <1>3, <2>3, <2>4, SinceFacts
    <3> QED
      BY <3>3, <3>4 DEF Rings, CurrentRing
  <2>7. BlockOf(key[current.index[current.tail]]) = L
    BY <2>4, <2>5, <2>6, BlockFirst
  <2>8. EntryOf(UndoBase) = current.index[(current.tail + r - L) % current.capacity]
    BY <2>2, <2>7 DEF EntryOf
  <2>9. current.tail + r - L = current.tail + d
    <3>1. current.tail \in Int
      BY HeaderFacts
    <3> QED
      BY <1>7, <2>3, <2>4, <3>1
  <2> QED
    <3>1. current.index[(current.tail + d) % current.capacity] = Entry(a, r)
      <4>1. TailAt(a, L)
        BY <2>4 DEF TailAt
      <4>2. current.index[Place(d)] = Entry(a, r)
        BY <1>7, <2>4, <4>1, FromTail
      <4> QED
        BY <4>2 DEF Place
    <3> QED
      BY <2>8, <2>9, <3>1
<1>9. ASSUME NEW k \in InUse, k # r PROVE Entry(a, k) # Entry(a, r) /\ Entry(a, k) \in Entries
  <2>1. Home(a, k) # Home(a, r)
    BY <1>7, <1>9 DEF Owned
  <2>2. k \in Int
    BY NumberFacts
  <2> QED
    BY <2>1, <2>2, EntryFacts DEF Home
<1>10. Headers' /\ Entries' = Entries
       /\ \A e \in Entries : value'[e] = IF e = Entry(a, r) THEN Null ELSE value[e]
  <2>1. value \in Seq(Blocks \union {Null}) /\ DOMAIN value = Entries /\ Entries = 1..Len(value)
    BY HeaderFacts DEF Headers, Entries
  <2>2. value' = [value EXCEPT ![Entry(a, r)] = Null] /\ Entry(a, r) \in Entries
    BY <1>1, <1>7, <1>8, EntryFacts
  <2>3. value' \in Seq(Blocks \union {Null}) /\ Len(value') = Len(value)
    <3>1. PICK S : S = Blocks \union {Null}
      OBVIOUS
    <3>2. value \in Seq(S) /\ Null \in S /\ Entry(a, r) \in 1..Len(value)
      BY <2>1, <2>2, <3>1
    <3> QED
      BY <2>2, <3>1, <3>2, ExceptSeq
  <2> QED
    BY <1>1, <1>5, <2>1, <2>2, <2>3, HeadersMoved
<1>11. \A k : Entry(a, k)' = Entry(a, k)
  BY <1>5, EntriesStill
<1>12. \A k \in InUse : k # r => Home(a, k)' = Home(a, k)
  BY <1>9, <1>10, <1>11 DEF Home
<1>13. Rings(a, m)'
  <2>1. m[Len(headers)] \in Int
    BY HeaderFacts
  <2>2. InUse' \subseteq InUse
    BY <1>7
  <2> QED
    BY <1>1, <1>4, <1>5, <1>6, <2>1, <2>2, RingsBack
<1>14. Reads(a, m)'
  <2>1. \A j \in DOMAIN headers : m[j] \in Int /\ m[j] <= m[j]
    OBVIOUS
  <2>2. \A j \in DOMAIN headers : headers'[j].capacity = headers[j].capacity
    BY <1>5 DEF SameIndex
  <2>3. \A k \in InUse : k <= Last => k # r
    BY <1>3, <1>7
  <2>4. \A k \in InUse : k <= Last => Home(a, k)' = Home(a, k)
    BY <1>12, <2>3
  <2> QED
    BY <1>1, <1>5, <2>1, <2>2, <2>4, ReadsStill DEF SameIndex
<1>15. CallBlocks[Removed + 1] = b /\ b \in Blocks
  <2>1. Removed + 1 \in (Removed + 1)..Added /\ r = Last + (Removed + 1)
    BY <1>0, <1>3
  <2>2. CallBlocks[Removed + 1] = Home(a, Last + (Removed + 1))
    BY <2>1 DEF Chained
  <2> QED
    BY <1>0, <1>7, <2>1, <2>2 DEF Owned
<1>16. Unlinked' = Unlinked \union {b}
  <2>1. 1..(Removed + 1) = (1..Removed) \union {Removed + 1}
    BY <1>3
  <2> QED
    BY <1>4, <1>15, <2>1 DEF Unlinked
<1>17. Chained(a)'
  <2>1. (\A k \in (Removed + 1)..Added : CallBlocks[k] = Home(a, Last + k))'
    <3>1. ASSUME NEW k \in (Removed + 1 + 1)..Added PROVE CallBlocks[k] = Home(a, Last + k)'
      <4>1. PICK x : x = Last + k
        OBVIOUS
      <4>2. x \in InUse /\ x # r /\ x = Last' + k
        <5>1. x \in 0..(Last + Added) /\ x \in Int /\ Last + Removed < x /\ x # r
          BY <1>0, <1>3, <4>1
        <5> QED
          BY <1>4, <4>1, <5>1, NextNeeded
      <4>3. CallBlocks[k] = Home(a, x)
        <5>1. k \in (Removed + 1)..Added
          BY <1>3
        <5> QED
          BY <4>1, <5>1 DEF Chained
      <4> QED
        BY <1>12, <4>2, <4>3
    <3> QED
      BY <1>4, <3>1
  <2>2. Last \in InUse => Home(a, Last) = startBlock /\ Last # r
    BY <1>1, <1>3, <1>7 DEF Chained
  <2>3. Last' \in InUse' => Home(a, Last)' = startBlock'
    BY <1>1, <1>4, <1>7, <1>12, <2>2
  <2> QED
    BY <1>1, <1>4, <2>1, <2>3 DEF Chained
<1>18. InIndex(a)' = InIndex(a) \ {b} /\ b \in InIndex(a)
       /\ \A k \in Consumers : HeldBy(k)' = HeldBy(k)
  <2>1. InIndex(a)' = {Home(a, k) : k \in InUse \ {r}}
    BY <1>7, <1>12 DEF InIndex
  <2>2. b \in InIndex(a) /\ \A k \in InUse \ {r} : Home(a, k) # b
    BY <1>0, <1>7 DEF InIndex, Owned
  <2>3. InIndex(a) = {Home(a, k) : k \in InUse}
    BY DEF InIndex
  <2>4. InIndex(a) = {Home(a, k) : k \in InUse \ {r}} \union {b}
    BY <1>0, <1>7, <2>3
  <2> QED
    BY <1>1, <2>1, <2>2, <2>4 DEF HeldBy
<1>19. Owned(a)'
  <2>1. PICK H : H = UNION {HeldBy(k) : k \in Consumers} /\ H = UNION {HeldBy(k)' : k \in Consumers}
    BY <1>18
  <2>2. /\ Blocks = free \union InIndex(a) \union Unlinked \union H
        /\ free \intersect (InIndex(a) \union Unlinked \union H) = {}
        /\ InIndex(a) \intersect (Unlinked \union H) = {}
    BY <2>1 DEF Owned
  <2>3. /\ Blocks = free' \union InIndex(a)' \union Unlinked' \union H
        /\ free' \intersect (InIndex(a)' \union Unlinked' \union H) = {}
        /\ InIndex(a)' \intersect (Unlinked' \union H) = {}
    BY <1>1, <1>16, <1>18, <2>2
  <2>4. \A k \in InUse' : Home(a, k)' \in Blocks
    BY <1>7, <1>12 DEF Owned
  <2>5. \A k, l \in InUse' : Home(a, k)' = Home(a, l)' => k = l
    BY <1>7, <1>12 DEF Owned
  <2>6. \A e \in Entries' : value'[e] # Null => \E k \in InUse' : e = Entry(a, k)'
    <3>1. \A e \in Entries : value[e] # Null => \E k \in InUse : e = Entry(a, k)
      BY DEF Owned
    <3> QED
      BY <1>7, <1>10, <1>11, <3>1
  <2>7. \A k \in Consumers : HeldBy(k)' \intersect Unlinked' = {}
    <3>1. \A k \in Consumers : HeldBy(k) \intersect Unlinked = {} /\ b \notin HeldBy(k)
      BY <1>18, <2>1, <2>2 DEF Owned
    <3> QED
      BY <1>16, <1>18, <3>1
  <2>8. /\ (free \subseteq Blocks)' /\ (block \in [Consumers -> Blocks \union {Null}])'
        /\ (\A k \in Consumers : where[k] = "free" => block[k] \in Blocks)'
        /\ (\A k, l \in Consumers : k # l => HeldBy(k) \intersect HeldBy(l) = {})'
    BY <1>1, <1>18 DEF Owned
  <2> QED
    BY <2>1, <2>3, <2>4, <2>5, <2>6, <2>7, <2>8 DEF Owned
<1>20. Filled(a)'
  <2>1. /\ dequeued \in [Blocks -> 0..BLOCK_SIZE] /\ content \in [Blocks -> [Offsets -> Int]]
        /\ \A k \in InUse : dequeued[Home(a, k)] + Cardinality(UnreadOf(k)) = BLOCK_SIZE
        /\ \A k \in InUse : \A i \in Items(k) :
              content[Home(a, k)][i % BLOCK_SIZE] = IF Present(i) THEN i ELSE Nothing
        /\ \A e \in Blocks \ InIndex(a) : \A o \in Offsets : content[e][o] = Nothing
    BY DEF Filled
  <2>2. \A i : Present(i)' = Present(i)
    BY <1>1, <1>4, ConsumersStill DEF Present
  <2>3. \A k : UnreadOf(k)' = UnreadOf(k) /\ Items(k)' = Items(k)
    BY <1>1, ConsumersStill DEF Items
  <2>4. \A o \in Offsets : content[b][o] = Nothing
    <3>1. ASSUME NEW i \in Items(r) PROVE ~Present(i)
      <4>1. i \in Int /\ tailIndex <= i
        BY <1>7, FutureItems
      <4> QED
        BY <1>4, <4>1, FutureAbsent
    <3> QED
      BY <1>0, <1>7, <3>1, EmptyBlock
  <2>5. \A e \in Blocks \ InIndex(a)' : \A o \in Offsets : content[e][o] = Nothing
    BY <1>18, <2>1, <2>4
  <2>6. \A k \in InUse' : k \in InUse /\ Home(a, k)' = Home(a, k)
    BY <1>7, <1>12
  <2> QED
    BY <1>1, <2>1, <2>2, <2>3, <2>5, <2>6 DEF Filled
<1> QED
  <2>1. (a \in [DOMAIN headers -> Int] /\ m \in [DOMAIN headers -> Int])'
    BY <1>5 DEF SameIndex
  <2>2. Claimed'
    BY <1>6
  <2>3. Numbers'
    <3>1. Len(undo') <= Added'
      BY <1>2, <1>3, <1>4
    <3> QED
      BY <1>1, <1>2, <1>3, <1>4, <3>1 DEF Numbers
  <2> QED
    BY <1>10, <1>13, <1>14, <1>17, <1>19, <1>20, <2>1, <2>2, <2>3

LEMMA EndUndoStep ==
    ASSUME NEW a, NEW m, IInv(a, m), EndUndo
    PROVE  IInv(a, m)'
<1> USE DEF IInv
<1>1. /\ step = "undo" /\ undo = <<>> /\ step' = "idle"
      /\ count' = 0 /\ needed' = 0 /\ base' = 0 /\ startBlock' = Null /\ firstAllocated' = Null
      /\ free' = free \union {CallBlocks[k] : k \in DOMAIN CallBlocks}
      /\ next' = [b \in Blocks |-> Null]
      /\ UNCHANGED <<tailIndex, headIndex, tailBlock, content, where, index, end, headers, key,
                     value, dequeued, undo, local, tail, slot, block>>
  BY DEF EndUndo, EndCall, Unchain, ProducerOnly, claimVars, readVars
<1>2. /\ Last \in Int /\ -1 <= Last /\ Added \in Nat /\ Removed = Added /\ AtTail = Last
      /\ CallBlocks \in [1..Added -> Blocks]
  <2>1. Len(undo) = 0
    BY <1>1
  <2> QED
    BY <1>1, <2>1, NumberFacts DEF Removed, AtTail, Chained
<1>3. /\ Last' = Last /\ Added' = 0 /\ Removed' = 0 /\ AtTail' = AtTail /\ Written' = Written
  BY <1>1, <1>2 DEF Last, Added, Removed, AtTail, Written
<1>4. Unlinked' = {} /\ free' = free \union Unlinked
  <2>1. 1..0 = {} /\ DOMAIN CallBlocks = 1..Added
    BY <1>2
  <2> QED
    BY <1>1, <1>2, <1>3, <2>1 DEF Unlinked
<1>5. /\ Claimed' /\ \A k : Needed(k)' = Needed(k) /\ Since(k)' = Since(k)
  BY <1>1, ConsumersStill
<1>6. InUse' = InUse
  <2>1. \A k \in Int : k \in 0..(Last + Added) /\ (k <= Last \/ k > Last + Added)
                       <=> k \in 0..Last
    BY <1>2
  <2>2. InUse = {k \in 0..Last : Needed(k)}
    BY <1>2, <2>1 DEF InUse
  <2>3. InUse' = {k \in 0..Last : Needed(k)}
    BY <1>2, <1>3, <1>5 DEF InUse
  <2> QED
    BY <2>2, <2>3
<1>7. Numbers'
  <2>1. tailIndex' \in Nat /\ headIndex' \in 0..tailIndex' /\ tailIndex' + count' <= MaxItems
    BY <1>1, BlockAssumption DEF Numbers
  <2>2. undo' \in Seq(Blocks) /\ Len(undo') <= Added'
    BY <1>1, <1>3 DEF Numbers
  <2> QED
    BY <1>1, <1>3, <2>1, <2>2 DEF Numbers
<1>8. Headers' /\ Entries' = Entries /\ \A k : Home(a, k)' = Home(a, k) /\ Entry(a, k)' = Entry(a, k)
  BY <1>1, HeadersStill DEF Home, Entry, EntryIn
<1>9. Rings(a, m)'
  <2>1. m[Len(headers)] \in Int
    BY HeaderFacts
  <2> QED
    BY <1>1, <1>2, <1>3, <1>5, <1>6, <2>1, RingsStill
<1>10. Reads(a, m)'
  <2>1. \A j \in DOMAIN headers : m[j] \in Int /\ m[j] <= m[j]
    OBVIOUS
  <2> QED
    BY <1>1, <1>8, <2>1, ReadsStill
<1>11. Chained(a)'
  <2>1. ({tailBlock, startBlock, firstAllocated} \subseteq Blocks \union {Null})'
        /\ next' \in [Blocks -> Blocks \union {Null}]
    BY <1>1 DEF Chained
  <2>2. Last \in InUse => Home(a, Last)' = tailBlock'
    BY <1>1, <1>3, <1>8 DEF Chained
  <2>3. 1..0 = {} /\ 1..(0 - 1) = {} /\ (0 + 1)..0 = {} /\ ~(0 > 0)
    OBVIOUS
  <2>4. Last' \in InUse' => Home(a, Last)' = tailBlock'
    BY <1>3, <1>6, <2>2
  <2> QED
    BY <1>1, <1>3, <2>1, <2>3, <2>4 DEF Chained
<1>12. Owned(a)'
  <2>1. InIndex(a)' = InIndex(a) /\ \A k \in Consumers : HeldBy(k)' = HeldBy(k)
    BY <1>1, <1>6, <1>8 DEF InIndex, HeldBy
  <2>2. PICK H : H = UNION {HeldBy(k) : k \in Consumers} /\ H = UNION {HeldBy(k)' : k \in Consumers}
    BY <2>1
  <2>3. /\ Blocks = free \union InIndex(a) \union Unlinked \union H
        /\ free \intersect (InIndex(a) \union Unlinked \union H) = {}
        /\ InIndex(a) \intersect (Unlinked \union H) = {}
        /\ \A k \in Consumers : HeldBy(k) \intersect Unlinked = {}
    BY <2>2 DEF Owned
  <2>4. H \intersect Unlinked = {} /\ Unlinked \subseteq Blocks
    BY <2>2, <2>3
  <2>5. /\ Blocks = free' \union InIndex(a)' \union Unlinked' \union H
        /\ free' \intersect (InIndex(a)' \union Unlinked' \union H) = {}
        /\ InIndex(a)' \intersect (Unlinked' \union H) = {}
        /\ \A k \in Consumers : HeldBy(k)' \intersect Unlinked' = {}
        /\ free' \subseteq Blocks
    BY <1>4, <2>1, <2>3, <2>4
  <2>6. (\A e \in Entries : value[e] # Null => \E k \in InUse : e = Entry(a, k))'
    BY <1>1, <1>6, <1>8 DEF Owned
  <2>7. /\ (block \in [Consumers -> Blocks \union {Null}])'
        /\ (\A k \in Consumers : where[k] = "free" => block[k] \in Blocks)'
        /\ (\A k, l \in Consumers : k # l => HeldBy(k) \intersect HeldBy(l) = {})'
        /\ (\A k \in InUse : Home(a, k) \in Blocks)'
        /\ (\A k, l \in InUse : Home(a, k) = Home(a, l) => k = l)'
    BY <1>1, <1>6, <1>8, <2>1 DEF Owned
  <2> QED
    BY <2>2, <2>5, <2>6, <2>7 DEF Owned
<1>13. Filled(a)'
  BY <1>1, <1>3, <1>6, <1>8, FilledStill
<1> QED
  BY <1>1, <1>5, <1>7, <1>8, <1>9, <1>10, <1>11, <1>12, <1>13

\* A step of the producer that only goes on to the next part of its call.
LEMMA AllocatedStep ==
    ASSUME NEW a, NEW m, IInv(a, m), Allocated
    PROVE  IInv(a, m)'
<1> USE DEF IInv
<1>1. /\ step = "insert" /\ needed = 0 /\ step' = "fill"
      /\ UNCHANGED <<tailIndex, headIndex, count, needed, base, startBlock, firstAllocated,
                     tailBlock, next, content, where, index, end, headers, key, value, free,
                     dequeued, undo, local, tail, slot, block>>
  BY DEF Allocated, ProducerOnly, claimVars, readVars, callVars
<1>2. /\ Last' = Last /\ Found' = Found /\ Added' = Added /\ Removed' = Removed /\ AtTail' = AtTail
      /\ CallBlocks' = CallBlocks /\ Unlinked' = Unlinked /\ Written' = Written /\ Last \in Int
  <2>1. Last' = Last /\ Found' = Found /\ Written' = Written /\ Last \in Int
    BY <1>1, NumberFacts DEF Last, Found, Written
  <2>2. Added' = Added /\ Removed' = Removed
    BY <1>1, <2>1 DEF Added, Removed
  <2> QED
    BY <1>1, <2>1, <2>2 DEF AtTail, CallBlocks, Unlinked
<1>3. /\ Claimed' /\ \A k : Needed(k)' = Needed(k) /\ Since(k)' = Since(k)
  BY <1>1, ConsumersStill
<1>4. InUse' = InUse
  BY <1>1, <1>2, <1>3 DEF InUse
<1>5. Numbers'
  BY <1>1, <1>2 DEF Numbers
<1>6. Headers' /\ Entries' = Entries /\ \A k : Home(a, k)' = Home(a, k) /\ Entry(a, k)' = Entry(a, k)
  BY <1>1, HeadersStill DEF Home, Entry, EntryIn
<1>7. Rings(a, m)'
  <2>1. m[Len(headers)] \in Int
    BY HeaderFacts
  <2> QED
    BY <1>1, <1>2, <1>3, <1>4, <2>1, RingsStill
<1>8. Reads(a, m)'
  <2>1. \A j \in DOMAIN headers : m[j] \in Int /\ m[j] <= m[j]
    OBVIOUS
  <2> QED
    BY <1>1, <1>6, <2>1, ReadsStill
<1>9. Chained(a)'
  BY <1>1, <1>2, <1>4, <1>6 DEF Chained
<1>10. Owned(a)'
  <2>1. \A e \in Entries' : value'[e] # Null => \E k \in InUse : e = Entry(a, k)'
    BY <1>1, <1>6 DEF Owned
  <2> QED
    BY <1>1, <1>2, <1>4, <1>6, <2>1, OwnedStill
<1>11. Filled(a)'
  BY <1>1, <1>2, <1>4, <1>6, FilledStill
<1> QED
  BY <1>1, <1>3, <1>5, <1>6, <1>7, <1>8, <1>9, <1>10, <1>11

LEMMA PublishStep ==
    ASSUME NEW a, NEW m, IInv(a, m), Publish
    PROVE  IInv(a, m)'
<1> USE DEF IInv
<1>1. /\ step = "publish" /\ step' = "idle" /\ tailIndex' = tailIndex + count
      /\ count' = 0 /\ needed' = 0 /\ base' = 0 /\ startBlock' = Null /\ firstAllocated' = Null
      /\ next' = [b \in Blocks |-> Null]
      /\ UNCHANGED <<headIndex, tailBlock, content, where, index, end, headers, key,
                     value, free, dequeued, undo, local, tail, slot, block>>
  BY DEF Publish, PublishItems, Claims!Publish, EndCall, Unchain, readVars
<1>2. /\ Last \in Int /\ -1 <= Last /\ Added \in Nat /\ Removed = 0 /\ AtTail = Last + Added
      /\ Last + Added = BlockOf(tailIndex + count - 1)
      /\ tailIndex \in Nat /\ count \in Nat /\ headIndex \in 0..tailIndex
      /\ tailIndex + count <= MaxItems
  <2>1. needed = 0 /\ Added = Found /\ Added \in Nat /\ needed + Found = BlockOf(tailIndex + count - 1) - Last
    BY <1>1, NumberFacts DEF Numbers
  <2>2. BlockOf(tailIndex + count - 1) \in Int
    BY BlockTyped DEF Numbers
  <2> QED
    BY <1>1, <2>1, <2>2, NumberFacts DEF Numbers
<1>3. /\ Last' = Last + Added /\ Added' = 0 /\ Removed' = 0 /\ AtTail' = AtTail /\ Written' = Written
      /\ Last' \in Int /\ Last <= Last'
  <2>1. Last' = Last + Added
    BY <1>1, <1>2 DEF Last
  <2>2. Added' = 0 /\ Removed' = 0
    BY <1>1 DEF Added, Removed
  <2>3. Written' = Written
    BY <1>1, <1>2 DEF Written
  <2> QED
    BY <1>1, <1>2, <2>1, <2>2, <2>3 DEF AtTail
<1>4. Unlinked' = {} /\ Unlinked = {}
  <2>1. 1..0 = {}
    OBVIOUS
  <2> QED
    BY <1>2, <1>3, <2>1 DEF Unlinked
<1>5. /\ Claimed' /\ \A k : Needed(k)' = Needed(k) /\ Since(k)' = Since(k)
  BY <1>1, ConsumersStill
<1>6. InUse' = InUse
  <2>1. InUse = {k \in 0..(Last + Added) : Needed(k)}
    BY <1>2 DEF InUse
  <2>2. InUse' = {k \in 0..(Last + Added) : Needed(k)}
    BY <1>2, <1>3, <1>5 DEF InUse
  <2> QED
    BY <2>1, <2>2
<1>7. Numbers'
  <2>1. tailIndex' \in Nat /\ headIndex' \in 0..tailIndex' /\ tailIndex' + count' <= MaxItems
    BY <1>1, <1>2
  <2> QED
    BY <1>1, <1>3, <2>1 DEF Numbers
<1>8. Headers' /\ Entries' = Entries /\ \A k : Home(a, k)' = Home(a, k) /\ Entry(a, k)' = Entry(a, k)
  BY <1>1, HeadersStill DEF Home, Entry, EntryIn
<1>9. Rings(a, m)'
  <2>1. m[Len(headers)] \in Int
    BY HeaderFacts
  <2> QED
    BY <1>1, <1>2, <1>3, <1>5, <1>6, <2>1, RingsStill
<1>10. Reads(a, m)'
  <2>1. \A j \in DOMAIN headers : m[j] \in Int /\ m[j] <= m[j]
    OBVIOUS
  <2> QED
    BY <1>1, <1>8, <2>1, ReadsStill
<1>11. Chained(a)'
  <2>1. ({tailBlock, startBlock, firstAllocated} \subseteq Blocks \union {Null})'
        /\ next' \in [Blocks -> Blocks \union {Null}]
    BY <1>1 DEF Chained
  <2>2. PICK l : l = Last + Added
    OBVIOUS
  <2>3. l \in InUse => Home(a, l) = tailBlock
    <3>1. CASE Added = 0
      <4>1. l = Last
        BY <1>2, <2>2, <3>1
      <4> QED
        BY <1>1, <3>1, <4>1 DEF Chained
    <3>2. CASE Added > 0
      <4>1. Added \in (Removed + 1)..Added
        BY <1>2, <3>2
      <4>2. CallBlocks[Added] = Home(a, l) /\ tailBlock = CallBlocks[Added]
        BY <1>1, <2>2, <3>2, <4>1 DEF Chained
      <4> QED
        BY <4>2
    <3> QED
      BY <1>2, <3>1, <3>2
  <2>4. Last' \in InUse' => Home(a, Last)' = tailBlock'
    BY <1>1, <1>3, <1>6, <1>8, <2>2, <2>3
  <2>5. 1..0 = {} /\ 1..(0 - 1) = {} /\ (0 + 1)..0 = {} /\ ~(0 > 0)
    OBVIOUS
  <2> QED
    BY <1>1, <1>3, <2>1, <2>4, <2>5 DEF Chained
<1>12. Owned(a)'
  <2>1. \A e \in Entries' : value'[e] # Null => \E k \in InUse : e = Entry(a, k)'
    BY <1>1, <1>8 DEF Owned
  <2> QED
    BY <1>1, <1>4, <1>6, <1>8, <2>1, OwnedStill
<1>13. Filled(a)'
  BY <1>1, <1>3, <1>6, <1>8, FilledStill
<1> QED
  BY <1>1, <1>5, <1>7, <1>8, <1>9, <1>10, <1>11, <1>12, <1>13

LEMMA TargetIs ==
    ASSUME NEW a, NEW m, IInv(a, m), step = "fill", NEW i \in NewItems
    PROVE  /\ i \in Nat /\ BlockOf(i) \in InUse /\ BlockOf(i) \in Nat
           /\ Target(i) = Home(a, BlockOf(i)) /\ Target(i) \in Blocks
           /\ ~Present(i) /\ i < MaxItems
<1> USE DEF IInv
<1>1. PICK k : k = BlockOf(i)
  OBVIOUS
<1>2. /\ tailIndex \in Nat /\ count \in Nat /\ headIndex \in 0..tailIndex
      /\ tailIndex + count <= MaxItems /\ MaxItems \in Nat
      /\ i \in Nat /\ tailIndex <= i /\ i <= tailIndex + count - 1 /\ i < MaxItems
  <2>1. tailIndex \in Nat /\ count \in Nat /\ headIndex \in 0..tailIndex
        /\ tailIndex + count <= MaxItems /\ MaxItems \in Nat
    BY BlockAssumption DEF Numbers
  <2>2. i \in tailIndex..(tailIndex + count - 1)
    BY DEF NewItems
  <2> QED
    BY <2>1, <2>2
<1>3. /\ Last \in Int /\ -1 <= Last /\ Added \in Nat /\ Removed = 0
      /\ Last + Added = BlockOf(tailIndex + count - 1)
  <2>1. needed = 0 /\ Added = Found /\ Added \in Nat /\ needed + Found = BlockOf(tailIndex + count - 1) - Last
    BY NumberFacts DEF Numbers
  <2>2. BlockOf(tailIndex + count - 1) \in Int
    BY <1>2, BlockTyped
  <2> QED
    BY <2>1, <2>2, NumberFacts
<1>4. k \in Nat /\ Last <= k /\ k <= Last + Added
  <2>1. k \in Nat /\ tailIndex - 1 \in Int /\ tailIndex - 1 <= i /\ tailIndex + count - 1 \in Int
    BY <1>1, <1>2, BlockNat
  <2> QED
    BY <1>1, <1>2, <1>3, <2>1, BlockMono DEF Last
<1>5. k \in InUse
  <2>1. Needed(k)
    <3>1. Unread(i)
      BY <1>2 DEF Unread
    <3> QED
      BY <1>1, <1>2, <3>1, UnreadNeeds
  <2> QED
    BY <1>3, <1>4, <2>1 DEF InUse
<1>6. Target(i) = Home(a, k)
  <2>1. CASE k = Last
    <3>1. Target(i) = startBlock
      BY <1>1, <1>3, <2>1 DEF Target, Last
    <3> QED
      BY <1>5, <2>1, <3>1 DEF Chained
  <2>2. CASE k # Last
    <3>1. PICK l : l = k - Last
      OBVIOUS
    <3>2. l \in (Removed + 1)..Added /\ l # 0 /\ k = Last + l
      BY <1>3, <1>4, <2>2, <3>1
    <3>3. Target(i) = CallBlocks[l]
      BY <1>1, <3>1, <3>2 DEF Target, Last
    <3> QED
      BY <3>2, <3>3 DEF Chained
  <2> QED
    BY <2>1, <2>2
<1>7. ~Present(i)
  <2>1. Written <= i
    BY <1>2 DEF Written
  <2> QED
    BY <1>2, <2>1, FutureAbsent
<1> QED
  BY <1>1, <1>2, <1>4, <1>5, <1>6, <1>7 DEF Owned

LEMMA FillStep ==
    ASSUME NEW a, NEW m, IInv(a, m), Fill
    PROVE  IInv(a, m)'
<1> USE DEF IInv
<1>1. /\ step = "fill" /\ step' = "publish"
      /\ content' = [b \in Blocks |-> [o \in Offsets |->
             IF \E i \in NewItems : Target(i) = b /\ i % BLOCK_SIZE = o
             THEN CHOOSE i \in NewItems : Target(i) = b /\ i % BLOCK_SIZE = o
             ELSE content[b][o]]]
      /\ UNCHANGED <<tailIndex, headIndex, count, needed, base, startBlock, firstAllocated,
                     tailBlock, next, where, index, end, headers, key, value, free,
                     dequeued, undo, local, tail, slot, block>>
  <2>1. step \in {"fill", "try"} => step = "fill"
    BY DEF Numbers
  <2> QED
    BY <2>1 DEF Fill, ConstructItems, claimVars, readVars, callVars
<1>2. /\ Last' = Last /\ Found' = Found /\ Added' = Added /\ Removed' = Removed /\ AtTail' = AtTail
      /\ CallBlocks' = CallBlocks /\ Unlinked' = Unlinked /\ Last \in Int
  <2>1. Last' = Last /\ Found' = Found /\ Last \in Int
    BY <1>1, NumberFacts DEF Last, Found
  <2>2. Added' = Added /\ Removed' = Removed
    BY <1>1, <2>1 DEF Added, Removed
  <2> QED
    BY <1>1, <2>1, <2>2 DEF AtTail, CallBlocks, Unlinked
<1>3. /\ Claimed' /\ \A k : Needed(k)' = Needed(k) /\ Since(k)' = Since(k) /\ UnreadOf(k)' = UnreadOf(k)
      /\ \A c \in Consumers : Untaken(c)' = Untaken(c)
  BY <1>1, ConsumersStill
<1>4. InUse' = InUse
  BY <1>1, <1>2, <1>3 DEF InUse
<1>5. Numbers'
  BY <1>1, <1>2 DEF Numbers
<1>6. Headers' /\ Entries' = Entries /\ \A k : Home(a, k)' = Home(a, k) /\ Entry(a, k)' = Entry(a, k)
  BY <1>1, HeadersStill DEF Home, Entry, EntryIn
<1>7. Rings(a, m)'
  <2>1. m[Len(headers)] \in Int
    BY HeaderFacts
  <2> QED
    BY <1>1, <1>2, <1>3, <1>4, <2>1, RingsStill
<1>8. Reads(a, m)'
  <2>1. \A j \in DOMAIN headers : m[j] \in Int /\ m[j] <= m[j]
    OBVIOUS
  <2> QED
    BY <1>1, <1>6, <2>1, ReadsStill
<1>9. Chained(a)'
  BY <1>1, <1>2, <1>4, <1>6 DEF Chained
<1>10. Owned(a)'
  <2>1. \A e \in Entries' : value'[e] # Null => \E k \in InUse : e = Entry(a, k)'
    BY <1>1, <1>6 DEF Owned
  <2> QED
    BY <1>1, <1>2, <1>4, <1>6, <2>1, OwnedStill
<1>11. \A i \in Int : Present(i)' <=> Present(i) \/ i \in NewItems
  <2>1. tailIndex \in Nat /\ count \in Nat /\ headIndex \in 0..tailIndex
    BY DEF Numbers
  <2>2. Written = tailIndex /\ Written' = tailIndex + count
    BY <1>1, <2>1 DEF Written
  <2>3. \A i \in Int : i \in headIndex..(tailIndex + count - 1)
                       <=> i \in headIndex..(tailIndex - 1) \/ i \in tailIndex..(tailIndex + count - 1)
    BY <2>1
  <2>4. ASSUME NEW i \in Int PROVE Present(i)' <=> Present(i) \/ i \in NewItems
    <3>1. Present(i) <=> i \in headIndex..(tailIndex - 1) \/ \E c \in Consumers : i \in Untaken(c)
      BY <2>2 DEF Present
    <3>2. Present(i)' <=> i \in headIndex..(tailIndex + count - 1) \/ \E c \in Consumers : i \in Untaken(c)
      <4>1. (\E c \in Consumers : i \in Untaken(c))' <=> \E c \in Consumers : i \in Untaken(c)
        BY <1>3
      <4>2. headIndex'..(Written' - 1) = headIndex..(tailIndex + count - 1)
        <5>1. headIndex' = headIndex
          BY <1>1
        <5>2. Written' - 1 = tailIndex + count - 1
          BY <2>1, <2>2
        <5> QED
          BY <5>1, <5>2
      <4> QED
        BY <4>1, <4>2 DEF Present
    <3> QED
      BY <2>3, <3>1, <3>2 DEF NewItems
  <2> QED
    BY <2>4
<1>12. ASSUME NEW i \in NewItems, NEW k \in InUse, NEW j \in Items(k),
              Target(i) = Home(a, k), i % BLOCK_SIZE = j % BLOCK_SIZE
       PROVE  i = j
  <2>1. i \in Int /\ BlockOf(i) \in InUse /\ Target(i) = Home(a, BlockOf(i))
    BY <1>1, TargetIs
  <2>2. BlockOf(i) = k /\ k \in Int
    <3>1. \A l \in InUse : Home(a, l) = Home(a, k) => l = k
      BY DEF Owned
    <3>2. k \in Int
      BY NumberFacts
    <3> QED
      BY <1>12, <2>1, <3>1, <3>2
  <2>3. i = k * BLOCK_SIZE + (i % BLOCK_SIZE) /\ j = k * BLOCK_SIZE + (j % BLOCK_SIZE)
    BY <2>1, <2>2, BlockTyped, ItemsTyped
  <2> QED
    BY <1>12, <2>3
<1>13. ASSUME NEW b \in Blocks, NEW o \in Offsets
       PROVE  content'[b][o] = IF \E i \in NewItems : Target(i) = b /\ i % BLOCK_SIZE = o
                               THEN CHOOSE i \in NewItems : Target(i) = b /\ i % BLOCK_SIZE = o
                               ELSE content[b][o]
  BY <1>1
<1>14. ASSUME NEW k \in InUse, NEW j \in Items(k)
       PROVE  content'[Home(a, k)][j % BLOCK_SIZE] = IF Present(j)' THEN j ELSE Nothing
  <2>1. Home(a, k) \in Blocks /\ j % BLOCK_SIZE \in Offsets /\ j \in Int /\ k \in Int /\ BlockOf(j) = k
    <3>1. k \in Int
      BY NumberFacts
    <3> QED
      BY <3>1, ItemsTyped DEF Owned
  <2>2. content[Home(a, k)][j % BLOCK_SIZE] = IF Present(j) THEN j ELSE Nothing
    BY DEF Filled
  <2>3. CASE j \in NewItems
    <3>1. Target(j) = Home(a, k) /\ Present(j)'
      BY <1>1, <1>11, <2>1, <2>3, TargetIs
    <3>2. \A i \in NewItems : Target(i) = Home(a, k) /\ i % BLOCK_SIZE = j % BLOCK_SIZE => i = j
      BY <1>12
    <3>3. (CHOOSE i \in NewItems : Target(i) = Home(a, k) /\ i % BLOCK_SIZE = j % BLOCK_SIZE) = j
      BY <2>3, <3>1, <3>2
    <3> QED
      BY <1>13, <2>1, <2>3, <3>1, <3>3
  <2>4. CASE j \notin NewItems
    <3>1. ~\E i \in NewItems : Target(i) = Home(a, k) /\ i % BLOCK_SIZE = j % BLOCK_SIZE
      BY <1>12, <2>4
    <3>2. content'[Home(a, k)][j % BLOCK_SIZE] = content[Home(a, k)][j % BLOCK_SIZE]
      BY <1>13, <2>1, <3>1
    <3> QED
      BY <1>11, <2>1, <2>2, <2>4, <3>2
  <2> QED
    BY <2>3, <2>4
<1>15. Filled(a)'
  <2>1. InIndex(a)' = InIndex(a)
    BY <1>4, <1>6 DEF InIndex
  <2>2. content' \in [Blocks -> [Offsets -> Int]]
    <3>1. ASSUME NEW b \in Blocks, NEW o \in Offsets PROVE content'[b][o] \in Int
      <4>1. CASE \E i \in NewItems : Target(i) = b /\ i % BLOCK_SIZE = o
        <5>1. (CHOOSE i \in NewItems : Target(i) = b /\ i % BLOCK_SIZE = o) \in NewItems
          BY <4>1
        <5> QED
          BY <1>1, <1>13, <4>1, <5>1, TargetIs
      <4>2. CASE ~\E i \in NewItems : Target(i) = b /\ i % BLOCK_SIZE = o
        BY <1>13, <4>2 DEF Filled
      <4> QED
        BY <4>1, <4>2
    <3> QED
      BY <1>1, <3>1
  <2>3. ASSUME NEW b \in Blocks \ InIndex(a), NEW o \in Offsets PROVE content'[b][o] = Nothing
    <3>1. ASSUME NEW i \in NewItems, Target(i) = b PROVE FALSE
      BY <1>1, <3>1, TargetIs DEF InIndex
    <3> QED
      BY <1>13, <3>1 DEF Filled
  <2>4. \A k : Items(k)' = Items(k)
    BY DEF Items
  <2>5. dequeued' \in [Blocks -> 0..BLOCK_SIZE]
        /\ \A k \in InUse : dequeued'[Home(a, k)'] + Cardinality(UnreadOf(k)') = BLOCK_SIZE
    BY <1>1, <1>3, <1>6 DEF Filled
  <2>6. \A k \in InUse : \A j \in Items(k) :
           content'[Home(a, k)'][j % BLOCK_SIZE] = IF Present(j)' THEN j ELSE Nothing
    BY <1>6, <1>14
  <2> QED
    BY <1>4, <2>1, <2>2, <2>3, <2>4, <2>5, <2>6 DEF Filled
<1> QED
  BY <1>1, <1>3, <1>5, <1>6, <1>7, <1>8, <1>9, <1>10, <1>15

(***************************************************************************)
(* The consumers.                                                          *)
(***************************************************************************)
LEMMA ProducerStill ==
    ASSUME Numbers, headIndex' \in 0..tailIndex,
           UNCHANGED <<step, tailIndex, count, needed, base, firstAllocated, next, undo>>
    PROVE  /\ Last' = Last /\ Found' = Found /\ Added' = Added /\ Removed' = Removed
           /\ AtTail' = AtTail /\ CallBlocks' = CallBlocks /\ Unlinked' = Unlinked
           /\ Written' = Written /\ Last' \in Int /\ Last <= Last' /\ Numbers'
<1>1. Last' = Last /\ Found' = Found /\ Written' = Written /\ Last \in Int
  BY NumberFacts DEF Last, Found, Written
<1>2. Added' = Added /\ Removed' = Removed
  BY <1>1 DEF Added, Removed
<1>3. AtTail' = AtTail /\ CallBlocks' = CallBlocks /\ Unlinked' = Unlinked
  BY <1>1, <1>2 DEF AtTail, CallBlocks, Unlinked
<1>4. Numbers'
  BY <1>1, <1>2 DEF Numbers
<1> QED
  BY <1>1, <1>2, <1>3, <1>4

Places == {"none", "index", "tail", "locate", "read", "mark", "remove", "free"}

\* A consumer on its way to its items.
LEMMA ClaimedMove ==
    ASSUME Claimed, UNCHANGED <<headIndex, index, end>>, NEW c \in Consumers, NEW to,
           where' = [where EXCEPT ![c] = to],
           where[c] \in {"index", "tail", "locate", "read"},
           to \in {"tail", "locate", "read", "mark"}
    PROVE  /\ Claimed'
           /\ \A d \in Consumers : Pending(d)' = Pending(d)
           /\ \A d \in Consumers : Emptied(d)' = Emptied(d)
           /\ \A d \in Consumers : At(d)' = At(d)
           /\ \A d \in Consumers : (d # c \/ to # "mark") => Untaken(d)' = Untaken(d)
           /\ \A d \in Consumers : where'[d] = (IF d = c THEN to ELSE where[d])
           /\ \A i : Unread(i)' = Unread(i)
           /\ \A k : UnreadOf(k)' = UnreadOf(k) /\ Needed(k)' = Needed(k) /\ Since(k)' = Since(k)
<1>1. where \in [Consumers -> Places]
  BY DEF Claimed, Places
<1>2. \A d \in Consumers : where'[d] = IF d = c THEN to ELSE where[d]
  BY <1>1
<1>3. where' \in [Consumers -> Places]
  BY <1>1 DEF Places
<1>4. \A d \in Consumers :
         /\ Emptied(d)' = Emptied(d) /\ At(d)' = At(d)
         /\ where'[d] = "remove" <=> where[d] = "remove"
         /\ where'[d] = "none" <=> where[d] = "none"
  BY <1>2 DEF Emptied, At
<1>5. \A d \in Consumers : Pending(d)' = Pending(d)
  BY <1>4 DEF Pending
<1>6. \A d \in Consumers : (d # c \/ to # "mark") => Untaken(d)' = Untaken(d)
  BY <1>2, <1>4, <1>5 DEF Untaken
<1>7. \A i : Unread(i)' = Unread(i)
  BY <1>5 DEF Unread
<1>8. \A k : UnreadOf(k)' = UnreadOf(k)
  BY <1>7 DEF UnreadOf, Items
<1>9. \A k : Needed(k)' = Needed(k)
  BY <1>4, <1>8 DEF Needed
<1>10. \A k : Since(k)' = Since(k)
  BY <1>9 DEF Since
<1>11. Claimed'
  BY <1>3, <1>4, <1>8 DEF Claimed, Places
<1> QED
  BY <1>2, <1>4, <1>5, <1>6, <1>7, <1>8, <1>9, <1>10, <1>11

LEMMA OwnedHeld ==
    ASSUME NEW a, Owned(a), InUse' = InUse, Unlinked' = Unlinked, free' = free,
           block' \in [Consumers -> Blocks \union {Null}],
           \A d \in Consumers : HeldBy(d)' = HeldBy(d) /\ (where'[d] = "free" => block'[d] \in Blocks),
           \A k \in InUse : Home(a, k)' = Home(a, k),
           \A e \in Entries' : value'[e] # Null => \E k \in InUse : e = Entry(a, k)'
    PROVE  Owned(a)'
<1>1. InIndex(a)' = InIndex(a)
  BY DEF InIndex
<1>2. UNION {HeldBy(c)' : c \in Consumers} = UNION {HeldBy(c) : c \in Consumers}
  OBVIOUS
<1> QED
  BY <1>1, <1>2 DEF Owned

LEMMA MoveStep ==
    ASSUME NEW a, NEW m, IInv(a, m), NEW c \in Consumers, NEW to, ConsumerOnly,
           UNCHANGED <<content, index, end, value, free, dequeued, block>>,
           where' = [where EXCEPT ![c] = to],
           where[c] \in {"index", "tail", "locate"}, to \in {"tail", "locate", "read"},
           DOMAIN local' = DOMAIN local, DOMAIN tail' = DOMAIN tail, DOMAIN slot' = DOMAIN slot,
           \A d \in Consumers : d # c => local'[d] = local[d] /\ tail'[d] = tail[d] /\ slot'[d] = slot[d],
           ReadsOf(a, m, c)'
    PROVE  IInv(a, m)'
<1> USE DEF IInv
<1>1. UNCHANGED <<tailIndex, headIndex, step, count, needed, base, startBlock, firstAllocated,
                  tailBlock, next, headers, key, undo>>
  BY DEF ConsumerOnly, claimVars, callVars
<1>2. /\ Last' = Last /\ Found' = Found /\ Added' = Added /\ Removed' = Removed
      /\ AtTail' = AtTail /\ CallBlocks' = CallBlocks /\ Unlinked' = Unlinked
      /\ Written' = Written /\ Last' \in Int /\ Last <= Last' /\ Numbers'
  <2>1. headIndex' \in 0..tailIndex
    BY <1>1 DEF Numbers
  <2> QED
    BY <1>1, <2>1, ProducerStill
<1>3. /\ Claimed'
      /\ \A d \in Consumers : Emptied(d)' = Emptied(d)
      /\ \A d \in Consumers : At(d)' = At(d)
      /\ \A d \in Consumers : Untaken(d)' = Untaken(d)
      /\ \A d \in Consumers : where'[d] = (IF d = c THEN to ELSE where[d])
      /\ \A k : UnreadOf(k)' = UnreadOf(k) /\ Needed(k)' = Needed(k) /\ Since(k)' = Since(k)
  <2>1. /\ where[c] \in {"index", "tail", "locate", "read"} /\ where[c] # "mark"
        /\ to \in {"tail", "locate", "read", "mark"} /\ to # "mark"
    OBVIOUS
  <2>2. UNCHANGED <<headIndex, index, end>>
    BY <1>1
  <2>3. Claimed' /\ \A k : UnreadOf(k)' = UnreadOf(k) /\ Needed(k)' = Needed(k) /\ Since(k)' = Since(k)
    BY <2>1, <2>2, ClaimedMove
  <2>4. \A d \in Consumers : Emptied(d)' = Emptied(d)
    BY <2>1, <2>2, ClaimedMove
  <2>5. \A d \in Consumers : At(d)' = At(d)
    BY <2>1, <2>2, ClaimedMove
  <2>6. \A d \in Consumers : (d # c \/ to # "mark") => Untaken(d)' = Untaken(d)
    BY <2>1, <2>2, ClaimedMove
  <2>7. \A d \in Consumers : where'[d] = (IF d = c THEN to ELSE where[d])
    BY DEF Claimed
  <2> QED
    BY <2>1, <2>3, <2>4, <2>5, <2>6, <2>7
<1>4. InUse' = InUse
  BY <1>1, <1>2, <1>3 DEF InUse
<1>5. Headers' /\ Entries' = Entries /\ \A k : Home(a, k)' = Home(a, k) /\ Entry(a, k)' = Entry(a, k)
  BY <1>1, HeadersStill DEF Home, Entry, EntryIn
<1>6. Rings(a, m)'
  <2>1. m[Len(headers)] \in Int
    BY HeaderFacts
  <2> QED
    BY <1>1, <1>2, <1>3, <1>4, <2>1, RingsStill
<1>7. Reads(a, m)'
  <2>1. \A j \in DOMAIN headers : m[j] \in Int /\ m[j] <= m[j]
    OBVIOUS
  <2>2. ASSUME NEW d \in Consumers, d # c PROVE ReadsOf(a, m, d)'
    <3>1. ReadsOf(a, m, d)
      BY DEF Reads
    <3>2. UNCHANGED <<local[d], tail[d], slot[d], block[d], where[d], index[d], end[d]>>
      BY <1>3, <2>2
    <3>3. Home(a, At(d))' = Home(a, At(d))
      BY <1>3, <1>5
    <3> QED
      BY <1>1, <2>1, <3>1, <3>2, <3>3, ReadsOfStill
  <2> QED
    BY <2>2 DEF Reads
<1>8. Chained(a)'
  BY <1>1, <1>2, <1>4, <1>5, ChainedStill
<1>9. Owned(a)'
  <2>1. \A e \in Entries' : value'[e] # Null => \E k \in InUse : e = Entry(a, k)'
    BY <1>5 DEF Owned
  <2>2. block' \in [Consumers -> Blocks \union {Null}]
    BY DEF Owned
  <2>3. \A d \in Consumers : HeldBy(d)' = HeldBy(d) /\ (where'[d] = "free" => block'[d] \in Blocks)
    BY <1>3 DEF HeldBy, Owned
  <2> QED
    BY <1>2, <1>4, <1>5, <2>1, <2>2, <2>3, OwnedHeld
<1>10. Filled(a)'
  <2>1. InIndex(a)' = InIndex(a)
    BY <1>4, <1>5 DEF InIndex
  <2>2. \A i : Present(i)' = Present(i)
    BY <1>1, <1>2, <1>3 DEF Present
  <2>3. \A k : Items(k)' = Items(k)
    BY DEF Items
  <2> QED
    BY <1>3, <1>4, <1>5, <2>1, <2>2, <2>3 DEF Filled
<1> QED
  BY <1>1, <1>2, <1>3, <1>5, <1>6, <1>7, <1>8, <1>9, <1>10

\* An index leads to the same entries as the current one, up to where its tail got.
LEMMA SameEntry ==
    ASSUME NEW a, NEW m, Headers, Rings(a, m), m \in [DOMAIN headers -> Int],
           NEW j \in DOMAIN headers, NEW x \in Int, 0 <= x, x <= m[j], Since(x)
    PROVE  EntryIn(a, j, x) = Entry(a, x) /\ key[Entry(a, x)] = x * BLOCK_SIZE
<1>1. PICK J : J = Len(headers)
  OBVIOUS
<1>2. J \in Nat \ {0} /\ DOMAIN headers = 1..J /\ J \in DOMAIN headers
  BY <1>1, HeaderFacts
<1>3. m[j] \in Int /\ m[J] \in Int
  BY <1>2
<1>4. m[j] <= m[J] /\ EntryIn(a, j, x) = Entry(a, x)
  <2>1. CASE j = J
    BY <1>1, <1>3, <2>1 DEF Entry
  <2>2. CASE j # J
    <3>1. j \in 1..(J - 1)
      BY <1>2, <2>2
    <3>2. x \in 0..m[j]
      BY <1>3
    <3> QED
      BY <1>1, <3>1, <3>2 DEF Rings, OldRings
  <2> QED
    BY <2>1, <2>2
<1>5. x \in 0..m[J]
  BY <1>3, <1>4
<1> QED
  BY <1>1, <1>4, <1>5 DEF Rings, CurrentRing

LEMMA EntryRead ==
    ASSUME NEW a, NEW m, IInv(a, m), NEW c \in Consumers, where[c] \in {"read", "mark", "remove"}
    PROVE  EntryToRead(c) = Entry(a, At(c)) /\ At(c) \in InUse
<1> USE DEF IInv
<1>1. At(c) \in InUse /\ At(c) \in Nat /\ At(c) <= BlockOf(end[c] - 1) /\ BlockOf(end[c] - 1) \in Int
  BY PendingFacts DEF Emptied
<1>2. PICK j : j = local[c]
  OBVIOUS
<1>3. /\ j \in DOMAIN headers /\ BlockOf(end[c] - 1) <= m[j]
      /\ slot[c] = (At(c) + a[j]) % headers[j].capacity /\ m[j] \in Int
  BY <1>2 DEF Reads, ReadsOf
<1>4. EntryToRead(c) = EntryIn(a, j, At(c))
  BY <1>2, <1>3 DEF EntryToRead, EntryIn
<1>5. Since(At(c))
  BY <1>1, SinceFacts DEF InUse
<1> QED
  BY <1>1, <1>3, <1>4, <1>5, SameEntry

LEMMA LoadIndexStep ==
    ASSUME NEW a, NEW m, IInv(a, m), NEW c \in Consumers, LoadIndex(c)
    PROVE  IInv(a, m)'
<1> USE DEF IInv
<1>1. /\ where[c] = "index" /\ where' = [where EXCEPT ![c] = "tail"]
      /\ local' = [local EXCEPT ![c] = Len(headers)]
      /\ UNCHANGED <<content, index, end, value, free, dequeued, tail, slot, block, headers>>
      /\ ConsumerOnly
  BY DEF LoadIndex, Step, ConsumerOnly
<1>2. where'[c] = "tail"
  BY <1>1 DEF Claimed
<1>3. ReadsOf(a, m, c)'
  <2>1. Len(headers) \in DOMAIN headers /\ m[Len(headers)] \in Int
    BY HeaderFacts
  <2>2. BlockOf(end[c] - 1) <= m[Len(headers)]
    <3>1. BlockOf(end[c] - 1) <= Last /\ BlockOf(end[c] - 1) \in Int
      BY <1>1, PendingFacts
    <3>2. Last <= AtTail /\ AtTail \in Int /\ Last \in Int /\ AtTail <= m[Len(headers)]
      BY NumberFacts DEF Rings, CurrentRing
    <3> QED
      BY <2>1, <3>1, <3>2
  <2>3. local'[c] = Len(headers) /\ DOMAIN headers' = DOMAIN headers /\ end'[c] = end[c]
    BY <1>1 DEF Reads
  <2> QED
    BY <1>1, <1>2, <2>1, <2>2, <2>3 DEF ReadsOf
<1>4. \A d \in Consumers : d # c => local'[d] = local[d] /\ tail'[d] = tail[d] /\ slot'[d] = slot[d]
  BY <1>1
<1> QED
  BY <1>1, <1>3, <1>4, MoveStep

LEMMA LoadTailStep ==
    ASSUME NEW a, NEW m, IInv(a, m), NEW c \in Consumers, LoadTail(c)
    PROVE  IInv(a, m)'
<1> USE DEF IInv
<1>1. /\ where[c] = "tail" /\ where' = [where EXCEPT ![c] = "locate"]
      /\ tail' = [tail EXCEPT ![c] = headers[local[c]].tail]
      /\ UNCHANGED <<content, index, end, value, free, dequeued, local, slot, block, headers>>
      /\ ConsumerOnly
  BY DEF LoadTail, Step, ConsumerOnly
<1>2. where'[c] = "locate" /\ tail'[c] = headers[local[c]].tail
  BY <1>1 DEF Claimed, Reads
<1>3. PICK j : j = local[c]
  OBVIOUS
<1>4. j \in DOMAIN headers /\ BlockOf(end[c] - 1) <= m[j] /\ BlockOf(end[c] - 1) <= Last
      /\ BlockOf(end[c] - 1) \in Int /\ m[j] \in Int
  BY <1>1, <1>3, PendingFacts DEF Reads, ReadsOf
<1>5. \E x \in BlockOf(end[c] - 1)..m[j] : headers[j].tail = (x + a[j]) % headers[j].capacity
  <2>1. Len(headers) \in DOMAIN headers /\ DOMAIN headers = 1..Len(headers) /\ Len(headers) \in Nat \ {0}
        /\ current = headers[Len(headers)]
    BY HeaderFacts
  <2>2. CASE j = Len(headers)
    <3>1. AtTail \in Int /\ Last <= AtTail /\ Last \in Int /\ AtTail <= m[j]
      BY <2>1, <2>2, NumberFacts DEF Rings, CurrentRing
    <3>2. AtTail \in BlockOf(end[c] - 1)..m[j]
      BY <1>4, <3>1
    <3>3. headers[j].tail = (AtTail + a[j]) % headers[j].capacity
      BY <2>1, <2>2 DEF Rings, CurrentRing
    <3> QED
      BY <3>2, <3>3
  <2>3. CASE j # Len(headers)
    <3>1. j \in 1..(Len(headers) - 1)
      BY <1>4, <2>1, <2>3
    <3>2. headers[j].tail = (m[j] + a[j]) % headers[j].capacity
      BY <3>1 DEF Rings, OldRings
    <3>3. m[j] \in BlockOf(end[c] - 1)..m[j]
      BY <1>4
    <3> QED
      BY <3>2, <3>3
  <2> QED
    BY <2>2, <2>3
<1>6. ReadsOf(a, m, c)'
  BY <1>1, <1>2, <1>3, <1>4, <1>5 DEF ReadsOf
<1>7. /\ \A d \in Consumers : d # c => local'[d] = local[d] /\ tail'[d] = tail[d] /\ slot'[d] = slot[d]
      /\ DOMAIN local' = DOMAIN local /\ DOMAIN tail' = DOMAIN tail /\ DOMAIN slot' = DOMAIN slot
  BY <1>1
<1> QED
  BY <1>1, <1>6, <1>7, MoveStep

LEMMA LocateStep ==
    ASSUME NEW a, NEW m, IInv(a, m), NEW c \in Consumers, Locate(c)
    PROVE  IInv(a, m)'
<1> USE DEF IInv
<1>1. /\ where[c] = "locate" /\ where' = [where EXCEPT ![c] = "read"]
      /\ UNCHANGED <<content, index, end, value, free, dequeued, local, tail, block, headers>>
      /\ ConsumerOnly
  BY DEF Locate, Step, ConsumerOnly
<1>2. PICK j : j = local[c]
  OBVIOUS
<1>3. PICK tailBase : tailBase = key[headers[j].index[tail[c]]]
  OBVIOUS
<1>4. where'[c] = "read" /\ slot' = [slot EXCEPT ![c] =
         (tail[c] + (BlockOf(index[c]) - BlockOf(tailBase))) % headers[j].capacity]
  BY <1>1, <1>2, <1>3 DEF Locate, Claimed
<1>5. /\ j \in DOMAIN headers /\ BlockOf(end[c] - 1) <= m[j] /\ BlockOf(end[c] - 1) \in Int
      /\ m[j] \in Int /\ At(c) \in Nat /\ At(c) <= BlockOf(end[c] - 1) /\ At(c) \in InUse
      /\ a[j] \in Int /\ headers[j].capacity \in Nat \ {0}
  BY <1>1, <1>2, PendingFacts, HeaderFacts DEF Reads, ReadsOf, Emptied
<1>6. PICK x \in BlockOf(end[c] - 1)..m[j] : tail[c] = (x + a[j]) % headers[j].capacity
  BY <1>1, <1>2 DEF Reads, ReadsOf
<1>7. BlockOf(tailBase) = x
  <2>1. x \in Int /\ 0 <= x /\ x <= m[j] /\ At(c) <= x
    BY <1>5, <1>6
  <2>2. Since(x)
    <3>1. Needed(At(c)) /\ At(c) \in 0..x
      BY <1>5, <2>1 DEF InUse
    <3> QED
      BY <3>1 DEF Since
  <2>3. tailBase = x * BLOCK_SIZE
    <3>1. EntryIn(a, j, x) = headers[j].index[tail[c]]
      BY <1>6 DEF EntryIn
    <3> QED
      BY <1>3, <1>5, <2>1, <2>2, <3>1, SameEntry
  <2> QED
    BY <2>1, <2>3, BlockFirst
<1>8. (tail[c] + (BlockOf(index[c]) - BlockOf(tailBase))) % headers[j].capacity
      = (At(c) + a[j]) % headers[j].capacity
  <2>1. PICK n, y, d : n = headers[j].capacity /\ y = x + a[j] /\ d = At(c) - x
    OBVIOUS
  <2>2. n \in Nat \ {0} /\ y \in Int /\ d \in Int /\ y + d = At(c) + a[j]
    BY <1>5, <1>6, <2>1
  <2>3. ((y % n) + d) % n = (y + d) % n
    BY <2>2, ModSum
  <2> QED
    BY <1>6, <1>7, <2>1, <2>2, <2>3 DEF At
<1>9. ReadsOf(a, m, c)'
  <2>1. slot'[c] = (At(c) + a[j]) % headers[j].capacity /\ At(c)' = At(c)
    BY <1>1, <1>4, <1>8 DEF Reads, At
  <2> QED
    BY <1>1, <1>2, <1>4, <1>5, <2>1 DEF ReadsOf
<1>10. /\ \A d \in Consumers : d # c => local'[d] = local[d] /\ tail'[d] = tail[d] /\ slot'[d] = slot[d]
       /\ DOMAIN local' = DOMAIN local /\ DOMAIN tail' = DOMAIN tail /\ DOMAIN slot' = DOMAIN slot
  BY <1>1, <1>4
<1> QED
  BY <1>1, <1>9, <1>10, MoveStep

\* Steps of a consumer that leave the index alone.
LEMMA ConsumerKeeps ==
    ASSUME NEW a, NEW m, IInv(a, m), headIndex' \in 0..tailIndex,
           UNCHANGED <<step, tailIndex, count, needed, base, startBlock, firstAllocated,
                       tailBlock, next, undo, headers, key, value, free>>,
           \A k \in Int : Needed(k)' <=> Needed(k),
           block' \in [Consumers -> Blocks \union {Null}],
           \A d \in Consumers : HeldBy(d)' = HeldBy(d) /\ (where'[d] = "free" => block'[d] \in Blocks)
    PROVE  /\ Numbers' /\ Headers' /\ Rings(a, m)' /\ Chained(a)' /\ Owned(a)'
           /\ InUse' = InUse /\ InIndex(a)' = InIndex(a) /\ Written' = Written
           /\ \A k : Home(a, k)' = Home(a, k)
<1> USE DEF IInv
<1>1. /\ Last' = Last /\ Added' = Added /\ Removed' = Removed
      /\ AtTail' = AtTail /\ CallBlocks' = CallBlocks /\ Unlinked' = Unlinked
      /\ Written' = Written /\ Last' \in Int /\ Last <= Last' /\ Numbers'
  BY ProducerStill
<1>2. InUse' = InUse
  <2>1. \A k \in 0..(Last + Added) : Needed(k)' <=> Needed(k)
    BY NumberFacts
  <2> QED
    BY <1>1, <2>1 DEF InUse
<1>3. \A k : Since(k)' => Since(k)
  BY DEF Since
<1>4. Headers' /\ Entries' = Entries /\ \A k : Home(a, k)' = Home(a, k) /\ Entry(a, k)' = Entry(a, k)
  BY HeadersStill DEF Home, Entry, EntryIn
<1>5. Rings(a, m)'
  <2>1. m[Len(headers)] \in Int
    BY HeaderFacts
  <2> QED
    BY <1>1, <1>2, <1>3, <2>1, RingsStill
<1>6. Chained(a)'
  BY <1>1, <1>2, <1>4, ChainedStill
<1>7. Owned(a)'
  <2>1. \A e \in Entries' : value'[e] # Null => \E k \in InUse : e = Entry(a, k)'
    BY <1>4 DEF Owned
  <2> QED
    BY <1>1, <1>2, <1>4, <2>1, OwnedHeld
<1>8. InIndex(a)' = InIndex(a)
  BY <1>2, <1>4 DEF InIndex
<1> QED
  BY <1>1, <1>2, <1>4, <1>5, <1>6, <1>7, <1>8

LEMMA ClaimFacts ==
    ASSUME Numbers, Claimed, NEW c \in Consumers, NEW i \in index[c]..(end[c] - 1)
    PROVE  /\ i \in Nat /\ i < headIndex /\ where[c] # "none"
           /\ \A d \in Consumers : d # c => i \notin index[d]..(end[d] - 1)
           /\ \A d \in Consumers : d # c => i \notin Pending(d) /\ i \notin Untaken(d)
<1>1. index[c] \in Nat /\ end[c] \in Nat /\ headIndex \in Nat
  BY DEF Numbers, Claimed
<1>2. i \in Nat /\ index[c] <= i /\ i < end[c]
  BY <1>1
<1>3. where[c] # "none" /\ end[c] <= headIndex
  BY <1>1, <1>2 DEF Claimed
<1>4. ASSUME NEW d \in Consumers, d # c PROVE i \notin index[d]..(end[d] - 1)
  <2>1. index[d] \in Nat /\ end[d] \in Nat
    BY DEF Claimed
  <2>2. CASE where[d] = "none"
    <3>1. index[d] = 0 /\ end[d] = 0
      BY <2>2 DEF Claimed
    <3> QED
      BY <3>1
  <2>3. CASE where[d] # "none"
    <3>1. end[c] <= index[d] \/ end[d] <= index[c]
      BY <1>3, <1>4, <2>3 DEF Claimed
    <3> QED
      BY <1>1, <1>2, <2>1, <3>1
  <2> QED
    BY <2>2, <2>3
<1>5. \A d \in Consumers : d # c => i \notin Pending(d) /\ i \notin Untaken(d)
  BY <1>4 DEF Pending, Untaken
<1> QED
  BY <1>1, <1>2, <1>3, <1>4, <1>5

LEMMA DequeueStep ==
    ASSUME NEW a, NEW m, IInv(a, m), NEW c \in Consumers, Dequeue(c)
    PROVE  IInv(a, m)'
<1> USE DEF IInv
<1>1. PICK n \in 1..MaxBulk :
        /\ headIndex + n <= tailIndex /\ headIndex' = headIndex + n
        /\ end' = [end EXCEPT ![c] = headIndex + n]
  BY DEF Dequeue, ClaimItems, Claims!Claim
<1>2. /\ where[c] = "none" /\ where' = [where EXCEPT ![c] = "index"]
      /\ index' = [index EXCEPT ![c] = headIndex]
      /\ UNCHANGED <<tailIndex, step, count, needed, base, startBlock, firstAllocated, tailBlock,
                     next, content, headers, key, value, free, dequeued, undo,
                     local, tail, slot, block>>
  BY <1>1 DEF Dequeue, ClaimItems, Step, Claims!Claim, callVars, readVars
<1>3. /\ tailIndex \in Nat /\ headIndex \in Nat /\ n \in Nat /\ 0 < n /\ headIndex' \in 0..tailIndex
      /\ headIndex + n \in Nat
  BY <1>1, BlockAssumption DEF Numbers
<1>4. /\ where \in [Consumers -> Places] /\ index \in [Consumers -> Nat] /\ end \in [Consumers -> Nat]
      /\ index[c] = 0 /\ end[c] = 0
  BY <1>2 DEF Claimed, Places
<1>5. /\ where'[c] = "index" /\ index'[c] = headIndex /\ end'[c] = headIndex + n
      /\ \A d \in Consumers : d # c => where'[d] = where[d] /\ index'[d] = index[d] /\ end'[d] = end[d]
  BY <1>1, <1>2, <1>4
<1>6. /\ Pending(c) = {} /\ Untaken(c) = {}
      /\ Pending(c)' = headIndex..(headIndex + n - 1) /\ Untaken(c)' = headIndex..(headIndex + n - 1)
      /\ \A d \in Consumers : d # c => Pending(d)' = Pending(d) /\ Untaken(d)' = Untaken(d)
      /\ \A d \in Consumers : d # c => At(d)' = At(d) /\ Emptied(d)' = Emptied(d)
      /\ ~Emptied(c) /\ ~Emptied(c)'
  <2>1. 0..(0 - 1) = {}
    OBVIOUS
  <2>2. ~Emptied(c) /\ ~Emptied(c)'
    BY <1>2, <1>5 DEF Emptied
  <2>3. Pending(c) = {} /\ Untaken(c) = {}
    BY <1>4, <2>1 DEF Pending, Untaken
  <2>4. Pending(c)' = headIndex..(headIndex + n - 1) /\ Untaken(c)' = headIndex..(headIndex + n - 1)
    <3>1. PICK S : S = headIndex..(headIndex + n - 1)
      OBVIOUS
    <3>2. S = index'[c]..(end'[c] - 1)
      <4>1. index'[c] = headIndex /\ end'[c] - 1 = headIndex + n - 1
        BY <1>3, <1>5
      <4> QED
        BY <3>1, <4>1
    <3>3. Pending(c)' = S
      BY <2>2, <3>2 DEF Pending
    <3>4. where'[c] # "mark"
      BY <1>5
    <3>5. Untaken(c)' = S
      BY <3>3, <3>4 DEF Untaken
    <3> QED
      BY <3>1, <3>3, <3>5
  <2>5. \A d \in Consumers : d # c => At(d)' = At(d) /\ Emptied(d)' = Emptied(d)
    BY <1>5 DEF At, Emptied
  <2>6. \A d \in Consumers : d # c => Pending(d)' = Pending(d)
    BY <1>5, <2>5 DEF Pending
  <2>7. \A d \in Consumers : d # c => Untaken(d)' = Untaken(d)
    BY <1>5, <2>5, <2>6 DEF Untaken
  <2> QED
    BY <2>2, <2>3, <2>4, <2>5, <2>6, <2>7
<1>7. ASSUME NEW i \in Int PROVE Unread(i)' <=> Unread(i)
  <2>1. i >= headIndex <=> i >= headIndex' \/ i \in headIndex..(headIndex + n - 1)
    BY <1>1, <1>3
  <2>2. (\E d \in Consumers : i \in Pending(d))' <=>
        i \in headIndex..(headIndex + n - 1) \/ \E d \in Consumers : i \in Pending(d)
    BY <1>6
  <2> QED
    BY <2>1, <2>2 DEF Unread
<1>8. Written' = Written /\ Written \in Int /\ tailIndex <= Written
  BY <1>2, <1>3 DEF Written, Numbers
<1>9. ASSUME NEW i \in Int PROVE Present(i)' <=> Present(i)
  <2>1. i \in headIndex..(Written - 1)
        <=> i \in headIndex'..(Written - 1) \/ i \in headIndex..(headIndex + n - 1)
    BY <1>1, <1>3, <1>8
  <2>2. (\E d \in Consumers : i \in Untaken(d))' <=>
        i \in headIndex..(headIndex + n - 1) \/ \E d \in Consumers : i \in Untaken(d)
    BY <1>6
  <2> QED
    BY <1>8, <2>1, <2>2 DEF Present
<1>10. \A k \in Int : UnreadOf(k)' = UnreadOf(k) /\ (Needed(k)' <=> Needed(k))
  <2>1. \A k \in Int : UnreadOf(k)' = UnreadOf(k)
    BY <1>7, ItemsTyped DEF UnreadOf, Items
  <2>2. \A k \in Int : (\E d \in Consumers : where[d] = "remove" /\ At(d) = k)'
                       <=> \E d \in Consumers : where[d] = "remove" /\ At(d) = k
    BY <1>2, <1>5, <1>6
  <2> QED
    BY <2>1, <2>2 DEF Needed
<1>11. Claimed'
  <2>1. /\ where' \in [Consumers -> Places]
        /\ index' \in [Consumers -> Nat] /\ end' \in [Consumers -> Nat]
    BY <1>1, <1>2, <1>3, <1>4 DEF Places
  <2>2. ASSUME NEW d \in Consumers
        PROVE  IF where'[d] = "none" THEN index'[d] = 0 /\ end'[d] = 0
               ELSE index'[d] < end'[d] /\ end'[d] <= headIndex'
    <3>1. CASE d = c
      BY <1>1, <1>3, <1>5, <3>1
    <3>2. CASE d # c
      <4>1. IF where[d] = "none" THEN index[d] = 0 /\ end[d] = 0
            ELSE index[d] < end[d] /\ end[d] <= headIndex
        BY DEF Claimed
      <4>2. end[d] \in Nat
        BY <1>4
      <4> QED
        BY <1>1, <1>3, <1>5, <3>2, <4>1, <4>2
    <3> QED
      BY <3>1, <3>2
  <2>3. \A d, e \in Consumers : d # e =>
          \/ where'[d] = "none" \/ where'[e] = "none"
          \/ end'[d] <= index'[e] \/ end'[e] <= index'[d]
    <3>1. \A d \in Consumers : d # c => where'[d] = "none" \/ end'[d] <= index'[c]
      BY <1>5 DEF Claimed
    <3>2. \A d, e \in Consumers : d # e /\ d # c /\ e # c =>
          \/ where'[d] = "none" \/ where'[e] = "none"
          \/ end'[d] <= index'[e] \/ end'[e] <= index'[d]
      BY <1>5 DEF Claimed
    <3> QED
      BY <3>1, <3>2
  <2>4. \A d \in Consumers : Emptied(d)' => UnreadOf(At(d))' = {}
    <3>1. ASSUME NEW d \in Consumers, Emptied(d)' PROVE UnreadOf(At(d))' = {}
      <4>0. index[d] \in Int
        BY <1>4
      <4>5. At(d) \in Int
        BY <4>0, BlockTyped DEF At
      <4>1. d # c /\ Emptied(d) /\ At(d)' = At(d) /\ At(d) \in Int
        BY <1>6, <3>1, <4>5
      <4>2. UnreadOf(At(d)) = {}
        BY <4>1 DEF Claimed
      <4>3. PICK k \in Int : k = At(d)
        BY <4>1
      <4>4. UnreadOf(k)' = {} /\ At(d)' = k
        BY <1>10, <4>1, <4>2, <4>3
      <4> QED
        BY <4>4 DEF UnreadOf
    <3> QED
      BY <3>1
  <2>5. \A d, e \in Consumers :
          d # e /\ where'[d] = "remove" /\ where'[e] = "remove" => At(d)' # At(e)'
    <3>1. ASSUME NEW d \in Consumers, NEW e \in Consumers, d # e,
                 where'[d] = "remove", where'[e] = "remove"
          PROVE  At(d)' # At(e)'
      <4>1. d # c /\ e # c
        BY <1>5, <3>1
      <4>2. where[d] = "remove" /\ where[e] = "remove"
        BY <1>5, <3>1, <4>1
      <4>3. At(d) # At(e)
        BY <3>1, <4>2 DEF Claimed
      <4>4. At(d)' = At(d) /\ At(e)' = At(e)
        BY <1>6, <4>1
      <4> QED
        BY <4>3, <4>4
    <3> QED
      BY <3>1
  <2> QED
    BY <2>1, <2>2, <2>3, <2>4, <2>5 DEF Claimed, Places
<1>12. /\ Numbers' /\ Headers' /\ Rings(a, m)' /\ Chained(a)' /\ Owned(a)'
       /\ InUse' = InUse /\ InIndex(a)' = InIndex(a) /\ \A k : Home(a, k)' = Home(a, k)
  <2>1. block' \in [Consumers -> Blocks \union {Null}]
    BY <1>2 DEF Owned
  <2>2. \A d \in Consumers : where'[d] = "free" <=> where[d] = "free"
    BY <1>2, <1>5
  <2>3. \A d \in Consumers : HeldBy(d)' = HeldBy(d) /\ (where'[d] = "free" => block'[d] \in Blocks)
    BY <1>2, <2>2 DEF HeldBy, Owned
  <2> QED
    BY <1>2, <1>3, <1>10, <2>1, <2>3, ConsumerKeeps
<1>13. Reads(a, m)'
  <2>1. \A j \in DOMAIN headers : m[j] \in Int /\ m[j] <= m[j]
    OBVIOUS
  <2>2. ASSUME NEW d \in Consumers PROVE ReadsOf(a, m, d)'
    <3>1. CASE d = c
      BY <1>5, <3>1 DEF ReadsOf
    <3>2. CASE d # c
      <4>1. ReadsOf(a, m, d)
        BY DEF Reads
      <4>2. UNCHANGED <<local[d], tail[d], slot[d], block[d], where[d], index[d], end[d]>>
        BY <1>2, <1>5, <3>2
      <4>3. Home(a, At(d))' = Home(a, At(d))
        BY <1>6, <1>12, <3>2
      <4> QED
        BY <1>2, <2>1, <4>1, <4>2, <4>3, ReadsOfStill
    <3> QED
      BY <3>1, <3>2
  <2> QED
    BY <1>2, <2>2 DEF Reads
<1>14. Filled(a)'
  <2>1. \A k \in InUse : k \in Int /\ Items(k) \subseteq Int
    BY NumberFacts, ItemsTyped
  <2>2. \A k : Items(k)' = Items(k)
    BY DEF Items
  <2>3. \A k \in InUse : \A i \in Items(k) : Present(i)' <=> Present(i)
    BY <1>9, <2>1
  <2> QED
    BY <1>2, <1>10, <1>12, <2>1, <2>2, <2>3 DEF Filled
<1> QED
  BY <1>2, <1>11, <1>12, <1>13, <1>14

LEMMA ReadStep ==
    ASSUME NEW a, NEW m, IInv(a, m), NEW c \in Consumers, Read(c)
    PROVE  IInv(a, m)'
<1> USE DEF IInv
<1>0. PICK r, b : r = At(c) /\ b = Home(a, r)
  OBVIOUS
<1>1. where[c] = "read" /\ where' = [where EXCEPT ![c] = "mark"]
  BY DEF Read, Step
<1>2. BlockToRead(c) = b /\ r \in InUse /\ b \in Blocks /\ r \in Nat
  <2>1. EntryToRead(c) = Entry(a, At(c)) /\ At(c) \in InUse
    BY <1>1, EntryRead
  <2> QED
    BY <1>0, <2>1, NumberFacts DEF BlockToRead, Home, Owned
<1>3. /\ block' = [block EXCEPT ![c] = b]
      /\ content' = [content EXCEPT ![b] =
             [o \in Offsets |-> IF o \in OffsetsOf(Batch(c)) THEN Nothing ELSE content[b][o]]]
      /\ UNCHANGED <<tailIndex, headIndex, step, count, needed, base, startBlock, firstAllocated,
                     tailBlock, next, headers, key, undo, index, end, value, free, dequeued,
                     local, tail, slot>>
  BY <1>2 DEF Read, TakeOut, ConsumerOnly, claimVars, callVars
<1>4. /\ Claimed'
      /\ \A d \in Consumers : Emptied(d)' = Emptied(d)
      /\ \A d \in Consumers : At(d)' = At(d)
      /\ \A d \in Consumers : d # c => Untaken(d)' = Untaken(d)
      /\ \A d \in Consumers : Pending(d)' = Pending(d)
      /\ \A k : UnreadOf(k)' = UnreadOf(k) /\ Needed(k)' = Needed(k) /\ Since(k)' = Since(k)
  <2>1. where[c] \in {"index", "tail", "locate", "read"} /\ "mark" \in {"tail", "locate", "read", "mark"}
    BY <1>1
  <2>2. UNCHANGED <<headIndex, index, end>>
    BY <1>3
  <2>3. Claimed' /\ \A k : UnreadOf(k)' = UnreadOf(k) /\ Needed(k)' = Needed(k) /\ Since(k)' = Since(k)
    BY <1>1, <2>1, <2>2, ClaimedMove
  <2>4. \A d \in Consumers : Emptied(d)' = Emptied(d)
    BY <1>1, <2>1, <2>2, ClaimedMove
  <2>5. \A d \in Consumers : At(d)' = At(d)
    BY <1>1, <2>1, <2>2, ClaimedMove
  <2>6. \A d \in Consumers : d # c => Untaken(d)' = Untaken(d)
    BY <1>1, <2>1, <2>2, ClaimedMove
  <2>7. \A d \in Consumers : Pending(d)' = Pending(d)
    BY <1>1, <2>1, <2>2, ClaimedMove
  <2> QED
    BY <2>3, <2>4, <2>5, <2>6, <2>7
<1>5. \A d \in Consumers : where'[d] = (IF d = c THEN "mark" ELSE where[d])
                           /\ (d # c => block'[d] = block[d])
  BY <1>1, <1>3 DEF Claimed, Owned
<1>6. block'[c] = b /\ block' \in [Consumers -> Blocks \union {Null}]
  BY <1>2, <1>3 DEF Owned
<1>7. \A d \in Consumers : HeldBy(d)' = HeldBy(d) /\ (where'[d] = "free" => block'[d] \in Blocks)
  <2>1. ASSUME NEW d \in Consumers
        PROVE  HeldBy(d)' = HeldBy(d) /\ (where'[d] = "free" => block'[d] \in Blocks)
    <3>1. CASE d = c
      BY <1>1, <1>5, <3>1 DEF HeldBy
    <3>2. CASE d # c
      <4>1. where'[d] = where[d] /\ block'[d] = block[d]
        BY <1>5, <3>2
      <4> QED
        BY <4>1 DEF HeldBy, Owned
    <3> QED
      BY <3>1, <3>2
  <2> QED
    BY <2>1
<1>8. /\ Numbers' /\ Headers' /\ Rings(a, m)' /\ Chained(a)' /\ Owned(a)'
      /\ InUse' = InUse /\ InIndex(a)' = InIndex(a) /\ \A k : Home(a, k)' = Home(a, k)
      /\ Written' = Written
  <2>1. headIndex' \in 0..tailIndex
    BY <1>3 DEF Numbers
  <2>2. \A k \in Int : Needed(k)' <=> Needed(k)
    BY <1>4
  <2> QED
    BY <1>3, <1>6, <1>7, <2>1, <2>2, ConsumerKeeps
<1>9. Batch(c) = {i \in Pending(c) : BlockOf(i) = r} /\ Untaken(c) = Pending(c)
      /\ Untaken(c)' = {i \in Pending(c) : BlockOf(i) # r}
      /\ \A i \in Batch(c) : i \in Items(r) /\ i \in Int
  <2>1. ~Emptied(c)
    BY <1>1 DEF Emptied
  <2>2. Pending(c) = index[c]..(end[c] - 1)
    BY <2>1 DEF Pending
  <2>3. Batch(c) = {i \in Pending(c) : BlockOf(i) = r}
    BY <1>0, <2>2 DEF Batch, At
  <2>4. Untaken(c) = Pending(c)
    BY <1>1 DEF Untaken
  <2>5. Untaken(c)' = {i \in Pending(c) : BlockOf(i) # r}
    <3>1. where'[c] = "mark" /\ At(c)' = r /\ Pending(c)' = Pending(c)
      BY <1>0, <1>4, <1>5
    <3> QED
      BY <3>1 DEF Untaken
  <2>6. \A i \in Batch(c) : i \in Int
    BY <2>2, <2>3, PendingFacts, <1>1
  <2> QED
    BY <1>2, <2>3, <2>4, <2>5, <2>6, BlockIs
<1>10. ASSUME NEW i \in Int PROVE Present(i)' <=> Present(i) /\ i \notin Batch(c)
  <2>1. (\E d \in Consumers : i \in Untaken(d))' <=>
        \/ i \in Pending(c) /\ i \notin Batch(c)
        \/ \E d \in Consumers : d # c /\ i \in Untaken(d)
    BY <1>4, <1>9
  <2>2. (\E d \in Consumers : i \in Untaken(d)) <=>
        i \in Pending(c) \/ \E d \in Consumers : d # c /\ i \in Untaken(d)
    BY <1>9
  <2>3. ASSUME i \in Batch(c)
        PROVE  i \notin headIndex..(Written - 1) /\ ~\E d \in Consumers : d # c /\ i \in Untaken(d)
    <3>1. i \in index[c]..(end[c] - 1)
      BY <2>3 DEF Batch
    <3>2. i < headIndex /\ headIndex \in Int /\ \A d \in Consumers : d # c => i \notin Untaken(d)
      BY <3>1, ClaimFacts DEF Numbers
    <3> QED
      BY <3>2
  <2>4. headIndex'..(Written' - 1) = headIndex..(Written - 1)
    BY <1>3, <1>8
  <2> QED
    BY <2>1, <2>2, <2>3, <2>4 DEF Present
<1>11. Reads(a, m)'
  <2>1. \A j \in DOMAIN headers : m[j] \in Int /\ m[j] <= m[j]
    OBVIOUS
  <2>2. ASSUME NEW d \in Consumers PROVE ReadsOf(a, m, d)'
    <3>0. ReadsOf(a, m, d)
      BY DEF Reads
    <3>1. CASE d = c
      <4>1. where'[c] = "mark" /\ block'[c] = Home(a, At(c))'
        BY <1>0, <1>4, <1>5, <1>6, <1>8
      <4> QED
        BY <1>1, <1>3, <1>4, <3>0, <3>1, <4>1 DEF ReadsOf
    <3>2. CASE d # c
      <4>2. UNCHANGED <<local[d], tail[d], slot[d], block[d], where[d], index[d], end[d]>>
        BY <1>3, <1>5, <3>2
      <4>3. Home(a, At(d))' = Home(a, At(d))
        BY <1>4, <1>8
      <4> QED
        BY <1>3, <2>1, <3>0, <4>2, <4>3, ReadsOfStill
    <3> QED
      BY <3>1, <3>2
  <2> QED
    BY <1>3, <2>2 DEF Reads
<1>12. Filled(a)'
  <2>1. \A k \in InUse : k \in Int /\ Items(k) \subseteq Int /\ Home(a, k) \in Blocks
                         /\ (Home(a, k) = b => k = r)
    BY <1>0, <1>2, NumberFacts, ItemsTyped DEF Owned
  <2>2. \A k : Items(k)' = Items(k)
    BY DEF Items
  <2>3. content \in [Blocks -> [Offsets -> Int]]
    BY DEF Filled
  <2>4. \A d \in Blocks : d # b => content'[d] = content[d]
    BY <1>3, <2>3
  <2>5. \A o \in Offsets : content'[b][o] = IF o \in OffsetsOf(Batch(c)) THEN Nothing ELSE content[b][o]
    BY <1>2, <1>3, <2>3
  <2>6. content' \in [Blocks -> [Offsets -> Int]]
    <3>1. [o \in Offsets |-> IF o \in OffsetsOf(Batch(c)) THEN Nothing ELSE content[b][o]] \in [Offsets -> Int]
      BY <1>2, <2>3 DEF Nothing
    <3> QED
      BY <1>2, <1>3, <2>3, <3>1
  <2>7. ASSUME NEW i \in Items(r) PROVE i % BLOCK_SIZE \in OffsetsOf(Batch(c)) <=> i \in Batch(c)
    <3>1. ASSUME NEW j \in Batch(c), i % BLOCK_SIZE = j % BLOCK_SIZE PROVE i = j
      <4>1. i = r * BLOCK_SIZE + (i % BLOCK_SIZE) /\ j = r * BLOCK_SIZE + (j % BLOCK_SIZE)
        BY <1>2, <1>9, ItemsTyped
      <4> QED
        BY <3>1, <4>1
    <3> QED
      BY <3>1 DEF OffsetsOf
  <2>8. ASSUME NEW k \in InUse, NEW i \in Items(k)
        PROVE  content'[Home(a, k)][i % BLOCK_SIZE] = IF Present(i)' THEN i ELSE Nothing
    <3>1. i \in Int /\ i % BLOCK_SIZE \in Offsets /\ BlockOf(i) = k
          /\ content[Home(a, k)][i % BLOCK_SIZE] = IF Present(i) THEN i ELSE Nothing
      BY <2>1, ItemsTyped DEF Filled
    <3>2. CASE k = r
      BY <1>0, <1>10, <2>5, <2>7, <3>1, <3>2
    <3>3. CASE k # r
      <4>1. i \notin Batch(c)
        BY <1>9, <3>1, <3>3
      <4>2. content'[Home(a, k)] = content[Home(a, k)]
        BY <2>1, <2>4, <3>3
      <4> QED
        BY <1>10, <3>1, <4>1, <4>2
    <3> QED
      BY <3>2, <3>3
  <2>9. \A d \in Blocks \ InIndex(a) : \A o \in Offsets : content'[d][o] = Nothing
    <3>1. b \in InIndex(a)
      BY <1>0, <1>2 DEF InIndex
    <3> QED
      BY <2>4, <3>1 DEF Filled
  <2>10. dequeued' \in [Blocks -> 0..BLOCK_SIZE]
         /\ \A k \in InUse : dequeued'[Home(a, k)'] + Cardinality(UnreadOf(k)') = BLOCK_SIZE
    BY <1>3, <1>4, <1>8 DEF Filled
  <2>11. \A k \in InUse : \A i \in Items(k) :
           content'[Home(a, k)'][i % BLOCK_SIZE] = IF Present(i)' THEN i ELSE Nothing
    BY <1>8, <2>8
  <2> QED
    BY <1>8, <2>2, <2>6, <2>9, <2>10, <2>11 DEF Filled
<1> QED
  BY <1>3, <1>4, <1>8, <1>11, <1>12

\* What a consumer has claimed beyond the batch it is at.
Rest(c) == {i \in index[c]..(end[c] - 1) : BlockOf(i) # At(c)}

\* A batch reaches to the end of its block, or of the claim.
LEMMA BatchFacts ==
    ASSUME Numbers, Claimed, NEW c \in Consumers, where[c] # "none"
    PROVE  /\ IsFiniteSet(Batch(c)) /\ Cardinality(Batch(c)) \in Nat
           /\ Batch(c) \subseteq Items(At(c)) /\ index[c] \in Batch(c)
           /\ BatchEnd(c) \in Nat /\ index[c] < BatchEnd(c) /\ BatchEnd(c) <= end[c]
           /\ Rest(c) = BatchEnd(c)..(end[c] - 1)
           /\ LastBatch(c) => Rest(c) = {}
           /\ ~LastBatch(c) => BlockOf(BatchEnd(c)) = At(c) + 1
<1>1. PICK s, e, k : s = index[c] /\ e = end[c] /\ k = At(c)
  OBVIOUS
<1>2. s \in Nat /\ e \in Nat /\ s < e /\ k \in Nat /\ k = BlockOf(s) /\ s \in Items(k)
  <2>1. s \in Nat /\ e \in Nat /\ s < e /\ k \in Nat
    BY <1>1, PendingFacts
  <2>2. k = BlockOf(s) /\ s \in Int
    BY <1>1, <2>1 DEF At
  <2> QED
    BY <2>1, <2>2, BlockIs
<1>3. PICK f, t : f = k * BLOCK_SIZE /\ t = f + BLOCK_SIZE
  OBVIOUS
<1>4. f \in Nat /\ t \in Nat /\ f <= s /\ s < t /\ t = (k + 1) * BLOCK_SIZE
      /\ Items(k) = f..(t - 1)
  <2>1. f \in Nat /\ t \in Nat /\ t = (k + 1) * BLOCK_SIZE
    BY <1>2, <1>3, BlockFirst, BlockSize
  <2>2. Items(k) = f..(t - 1)
    <3>1. Items(k) = f..(f + BLOCK_SIZE - 1)
      BY <1>3 DEF Items
    <3>2. f + BLOCK_SIZE - 1 = t - 1
      BY <1>3, <2>1, BlockSize
    <3> QED
      BY <3>1, <3>2
  <2> QED
    BY <1>2, <2>1, <2>2
<1>5. PICK z \in Nat : s < z /\ z <= e /\ z <= t /\ (z < e => z = t)
  <2>1. CASE e <= t
    BY <1>2, <2>1
  <2>2. CASE t < e
    BY <1>2, <1>4, <2>2
  <2> QED
    BY <1>2, <1>4, <2>1, <2>2
<1>6. ASSUME NEW i \in s..(e - 1) PROVE i \in Int /\ (BlockOf(i) = k <=> i < z)
  <2>1. i \in Int /\ s <= i /\ i <= e - 1
    BY <1>2
  <2>2. BlockOf(i) = k <=> i \in f..(t - 1)
    BY <1>2, <1>4, <2>1, BlockIs
  <2>3. i \in f..(t - 1) <=> i < z
    BY <1>2, <1>4, <1>5, <2>1
  <2> QED
    BY <2>1, <2>2, <2>3
<1>7. Batch(c) = s..(z - 1)
  <2>1. Batch(c) = {i \in s..(e - 1) : BlockOf(i) = k}
    BY <1>1 DEF Batch, At
  <2>2. \A i : i \in s..(z - 1) <=> i \in s..(e - 1) /\ i < z
    BY <1>2, <1>5
  <2> QED
    BY <1>6, <2>1, <2>2
<1>8. Rest(c) = z..(e - 1)
  <2>1. Rest(c) = {i \in s..(e - 1) : BlockOf(i) # k}
    BY <1>1 DEF Rest
  <2>2. \A i : i \in z..(e - 1) <=> i \in s..(e - 1) /\ ~(i < z)
    BY <1>2, <1>5
  <2> QED
    BY <1>6, <2>1, <2>2
<1>9. IsFiniteSet(Batch(c)) /\ Cardinality(Batch(c)) = z - s
  <2>1. s \in Int /\ z - 1 \in Int /\ ~(s > z - 1) /\ (z - 1) - s + 1 = z - s
    BY <1>2, <1>5
  <2> QED
    BY <1>7, <2>1, FS_Interval
<1>10. BatchEnd(c) = z /\ Cardinality(Batch(c)) \in Nat
  BY <1>1, <1>2, <1>5, <1>9 DEF BatchEnd
<1>11. LastBatch(c) <=> z = e
  BY <1>1, <1>10 DEF LastBatch
<1>12. e..(e - 1) = {}
  BY <1>2
<1>13. z # e => BlockOf(z) = k + 1
  BY <1>2, <1>4, <1>5, BlockFirst
<1>14. Batch(c) \subseteq Items(k) /\ s \in Batch(c)
  BY <1>2, <1>4, <1>5, <1>7
<1> QED
  BY <1>1, <1>2, <1>5, <1>8, <1>9, <1>10, <1>11, <1>12, <1>13, <1>14

\* A consumer goes on to its next batch, or has come to the end of its claim.
LEMMA AdvanceFacts ==
    ASSUME NEW a, NEW m, Numbers, Claimed, Headers, Reads(a, m),
           a \in [DOMAIN headers -> Int], m \in [DOMAIN headers -> Int], Owned(a),
           NEW c \in Consumers, where[c] \in {"mark", "free"}, Advance(c),
           where' = [where EXCEPT ![c] = AfterBatch(c)], UNCHANGED <<headIndex, headers>>
    PROVE  /\ Pending(c)' = Rest(c) /\ Untaken(c)' = Rest(c) /\ ReadsOf(a, m, c)'
           /\ where'[c] \in {"none", "read"} /\ block'[c] = Null
           /\ \A d \in Consumers : d # c =>
                 UNCHANGED <<where[d], index[d], end[d], local[d], tail[d], slot[d], block[d]>>
           /\ DOMAIN local' = Consumers /\ DOMAIN tail' = Consumers /\ DOMAIN slot' = Consumers
           /\ block' \in [Consumers -> Blocks \union {Null}]
           /\ where' \in [Consumers -> Places]
           /\ index' \in [Consumers -> Nat] /\ end' \in [Consumers -> Nat]
           /\ IF where'[c] = "none" THEN index'[c] = 0 /\ end'[c] = 0
              ELSE index'[c] < end'[c] /\ end'[c] = end[c] /\ index[c] <= index'[c]
<1>0. PICK s, e, k, z, j : s = index[c] /\ e = end[c] /\ k = At(c) /\ z = BatchEnd(c) /\ j = local[c]
  OBVIOUS
<1>1. /\ s \in Nat /\ e \in Nat /\ k \in Nat /\ z \in Nat /\ s < z /\ z <= e
      /\ Rest(c) = z..(e - 1)
      /\ LastBatch(c) <=> z = e
      /\ ~LastBatch(c) => BlockOf(z) = k + 1
  BY <1>0, BatchFacts, PendingFacts DEF LastBatch
<1>2. /\ where \in [Consumers -> Places] /\ index \in [Consumers -> Nat] /\ end \in [Consumers -> Nat]
      /\ block \in [Consumers -> Blocks \union {Null}]
      /\ DOMAIN local = Consumers /\ DOMAIN tail = Consumers /\ DOMAIN slot = Consumers
  BY DEF Claimed, Places, Owned, Reads
<1>3. /\ j \in DOMAIN headers /\ BlockOf(end[c] - 1) <= m[j]
      /\ slot[c] = (k + a[j]) % headers[j].capacity
      /\ headers[j].capacity \in Nat \ {0} /\ a[j] \in Int
  <2>1. /\ j \in DOMAIN headers /\ BlockOf(end[c] - 1) <= m[j]
        /\ slot[c] = (k + a[j]) % headers[j].capacity
    BY <1>0 DEF Reads, ReadsOf
  <2> QED
    BY <2>1, HeaderFacts
<1>4. /\ index' = [index EXCEPT ![c] = IF LastBatch(c) THEN 0 ELSE z]
      /\ end' = [end EXCEPT ![c] = IF LastBatch(c) THEN 0 ELSE e]
      /\ slot' = [slot EXCEPT ![c] = IF LastBatch(c) THEN 0 ELSE (slot[c] + 1) % headers[j].capacity]
      /\ local' = [local EXCEPT ![c] = IF LastBatch(c) THEN 0 ELSE j]
      /\ tail' = [tail EXCEPT ![c] = IF LastBatch(c) THEN 0 ELSE tail[c]]
      /\ block' = [block EXCEPT ![c] = Null]
  BY <1>0, <1>2 DEF Advance, NextBatch
<1>5. /\ \A d \in Consumers : d # c =>
            UNCHANGED <<where[d], index[d], end[d], local[d], tail[d], slot[d], block[d]>>
      /\ DOMAIN local' = Consumers /\ DOMAIN tail' = Consumers /\ DOMAIN slot' = Consumers
      /\ block' \in [Consumers -> Blocks \union {Null}] /\ block'[c] = Null
  BY <1>2, <1>4
<1>6. index' \in [Consumers -> Nat] /\ end' \in [Consumers -> Nat]
  BY <1>1, <1>2, <1>4
<1>7. where' \in [Consumers -> Places] /\ where'[c] = (IF LastBatch(c) THEN "none" ELSE "read")
  BY <1>2 DEF AfterBatch, Places
<1>8. CASE LastBatch(c)
  <2>1. where'[c] = "none" /\ index'[c] = 0 /\ end'[c] = 0
    BY <1>2, <1>4, <1>7, <1>8
  <2>2. Rest(c) = {} /\ 0..(0 - 1) = {}
    BY <1>8, BatchFacts
  <2>3. Pending(c)' = Rest(c) /\ Untaken(c)' = Rest(c)
    BY <2>1, <2>2 DEF Pending, Untaken
  <2>4. ReadsOf(a, m, c)'
    BY <2>1 DEF ReadsOf
  <2> QED
    BY <1>5, <1>6, <1>7, <2>1, <2>3, <2>4
<1>9. CASE ~LastBatch(c)
  <2>1. where'[c] = "read" /\ index'[c] = z /\ end'[c] = e /\ local'[c] = j
        /\ slot'[c] = (slot[c] + 1) % headers[j].capacity
    BY <1>2, <1>4, <1>7, <1>9
  <2>2. ~Emptied(c)' /\ z < e
    BY <1>1, <1>9, <2>1 DEF Emptied
  <2>3. Pending(c)' = Rest(c)
    BY <1>1, <2>1, <2>2 DEF Pending
  <2>4. Untaken(c)' = Rest(c)
    BY <2>1, <2>3 DEF Untaken
  <2>5. At(c)' = k + 1
    BY <1>1, <1>9, <2>1 DEF At
  <2>6. slot'[c] = (At(c)' + a[j]) % headers[j].capacity
    <3>1. PICK n, y, d : n = headers[j].capacity /\ y = k + a[j] /\ d = 1
      OBVIOUS
    <3>2. n \in Nat \ {0} /\ y \in Int /\ d \in Int /\ y + d = (k + 1) + a[j]
      BY <1>1, <1>3, <3>1
    <3>3. ((y % n) + d) % n = (y + d) % n
      BY <3>2, ModSum
    <3> QED
      BY <1>3, <2>1, <2>5, <3>1, <3>2, <3>3
  <2>7. ReadsOf(a, m, c)'
    BY <1>0, <1>3, <2>1, <2>6 DEF ReadsOf
  <2> QED
    BY <1>0, <1>1, <1>5, <1>6, <1>7, <2>1, <2>2, <2>3, <2>4, <2>7
<1> QED
  BY <1>8, <1>9

\* A consumer that has come further in its claim.
LEMMA ClaimShrinks ==
    ASSUME Numbers, Claimed, NEW c \in Consumers, where[c] # "none", UNCHANGED headIndex,
           \A d \in Consumers : d # c => UNCHANGED <<where[d], index[d], end[d]>>,
           where' \in [Consumers -> Places],
           index' \in [Consumers -> Nat], end' \in [Consumers -> Nat],
           IF where'[c] = "none" THEN index'[c] = 0 /\ end'[c] = 0
           ELSE index'[c] < end'[c] /\ end'[c] = end[c] /\ index[c] <= index'[c],
           \A k \in Int : UnreadOf(k)' \subseteq UnreadOf(k),
           Emptied(c)' => UnreadOf(At(c))' = {},
           \A d \in Consumers : d # c /\ where[d] = "remove" /\ where'[c] = "remove"
                                => At(d) # At(c)'
    PROVE  Claimed'
<1>1. ASSUME NEW d \in Consumers
      PROVE  IF where'[d] = "none" THEN index'[d] = 0 /\ end'[d] = 0
             ELSE index'[d] < end'[d] /\ end'[d] <= headIndex'
  <2>1. CASE d = c
    <3>1. end[c] <= headIndex
      BY PendingFacts
    <3> QED
      BY <2>1, <3>1
  <2>2. CASE d # c
    BY <2>2 DEF Claimed
  <2> QED
    BY <2>1, <2>2
<1>2. \A d, e \in Consumers : d # e =>
        \/ where'[d] = "none" \/ where'[e] = "none"
        \/ end'[d] <= index'[e] \/ end'[e] <= index'[d]
  <2>1. ASSUME NEW d \in Consumers, d # c
        PROVE  \/ where'[d] = "none" \/ where'[c] = "none"
               \/ end'[d] <= index'[c] \/ end'[c] <= index'[d]
    <3>1. where[d] = "none" \/ end[d] <= index[c] \/ end[c] <= index[d]
      BY <2>1 DEF Claimed
    <3>2. end[d] \in Nat /\ index[c] \in Nat /\ index'[c] \in Nat
      BY DEF Claimed
    <3> QED
      BY <2>1, <3>1, <3>2
  <2>2. ASSUME NEW d \in Consumers, NEW e \in Consumers, d # e, d # c, e # c
        PROVE  \/ where'[d] = "none" \/ where'[e] = "none"
               \/ end'[d] <= index'[e] \/ end'[e] <= index'[d]
    BY <2>2 DEF Claimed
  <2> QED
    BY <2>1, <2>2
<1>3. ASSUME NEW d \in Consumers, d # c
      PROVE  At(d)' = At(d) /\ (Emptied(d)' <=> Emptied(d)) /\ At(d) \in Int
  <2>1. index'[d] = index[d] /\ where'[d] = where[d] /\ index[d] \in Int
    BY <1>3 DEF Claimed
  <2> QED
    BY <2>1, BlockTyped DEF At, Emptied
<1>4. ASSUME NEW d \in Consumers, Emptied(d)' PROVE UnreadOf(At(d))' = {}
  <2>1. CASE d = c
    BY <1>4, <2>1
  <2>2. CASE d # c
    <3>1. PICK k : k = At(d)
      OBVIOUS
    <3>2. k \in Int /\ At(d)' = k /\ UnreadOf(k) = {}
      BY <1>3, <1>4, <2>2, <3>1 DEF Claimed
    <3>3. UnreadOf(k)' = {}
      BY <3>2
    <3> QED
      BY <3>2, <3>3 DEF UnreadOf
  <2> QED
    BY <2>1, <2>2
<1>5. \A d, e \in Consumers :
        d # e /\ where'[d] = "remove" /\ where'[e] = "remove" => At(d)' # At(e)'
  BY <1>3 DEF Claimed
<1> QED
  BY <1>1, <1>2, <1>4, <1>5 DEF Claimed, Places

LEMMA ConsumerStill ==
    ASSUME NEW d, UNCHANGED <<where[d], index[d], end[d]>>
    PROVE  /\ Pending(d)' = Pending(d) /\ Untaken(d)' = Untaken(d)
           /\ At(d)' = At(d) /\ (Emptied(d)' <=> Emptied(d)) /\ where'[d] = where[d]
<1>1. At(d)' = At(d) /\ (Emptied(d)' <=> Emptied(d))
  BY DEF At, Emptied
<1>2. Pending(d)' = Pending(d)
  BY <1>1 DEF Pending
<1>3. Untaken(d)' = Untaken(d)
  BY <1>1, <1>2 DEF Untaken
<1> QED
  BY <1>1, <1>2, <1>3

LEMMA MarkStep ==
    ASSUME NEW a, NEW m, IInv(a, m), NEW c \in Consumers, Mark(c)
    PROVE  IInv(a, m)'
<1> USE DEF IInv
<1>0. PICK r, b, n, emptied :
        /\ r = At(c) /\ b = block[c] /\ n = Cardinality(Batch(c))
        /\ emptied = (dequeued[b] + n = BLOCK_SIZE)
  OBVIOUS
<1>1. /\ where[c] = "mark"
      /\ where' = [where EXCEPT ![c] = IF emptied THEN "remove" ELSE AfterBatch(c)]
      /\ dequeued' = [dequeued EXCEPT ![b] = dequeued[b] + n]
      /\ IF emptied THEN UNCHANGED <<index, end, local, tail, slot, block>> ELSE Advance(c)
      /\ UNCHANGED <<content, value, free, tailIndex, headIndex, step, count, needed, base,
                     startBlock, firstAllocated, tailBlock, next, headers, key, undo>>
  <2>1. MarkWhen(c, emptied)
    BY <1>0 DEF Mark
  <2>2. dequeued' = [dequeued EXCEPT ![b] = dequeued[b] + n]
    BY <1>0, <2>1 DEF MarkWhen
  <2> QED
    BY <2>1, <2>2 DEF MarkWhen, Step, ConsumerOnly, claimVars, callVars, readVars
<1>2. /\ r \in InUse /\ r \in Nat /\ b = Home(a, r) /\ b \in Blocks
  <2>1. r \in InUse /\ b = Home(a, r)
    BY <1>0, <1>1, PendingFacts DEF Emptied, Reads, ReadsOf
  <2> QED
    BY <2>1, NumberFacts DEF Owned
<1>3. /\ IsFiniteSet(Batch(c)) /\ n \in Nat /\ Batch(c) \subseteq Items(r) /\ index[c] \in Batch(c)
      /\ Batch(c) = {i \in index[c]..(end[c] - 1) : BlockOf(i) = r}
  BY <1>0, <1>1, BatchFacts DEF Batch, At
<1>4. /\ Pending(c) = index[c]..(end[c] - 1) /\ Untaken(c) = Rest(c)
      /\ Rest(c) = Pending(c) \ Batch(c)
  <2>1. Pending(c) = index[c]..(end[c] - 1)
    BY <1>1 DEF Pending, Emptied
  <2>2. Untaken(c) = Rest(c)
    BY <1>1, <2>1 DEF Untaken, Rest
  <2> QED
    BY <1>0, <1>3, <2>1, <2>2 DEF Rest
<1>5. Batch(c) \subseteq UnreadOf(r)
  BY <1>3, <1>4 DEF UnreadOf, Unread
<1>6. /\ dequeued[b] \in 0..BLOCK_SIZE /\ dequeued[b] + Cardinality(UnreadOf(r)) = BLOCK_SIZE
      /\ IsFiniteSet(UnreadOf(r)) /\ Cardinality(UnreadOf(r)) \in Nat
      /\ n <= Cardinality(UnreadOf(r)) /\ (n = Cardinality(UnreadOf(r)) => UnreadOf(r) = Batch(c))
  <2>1. dequeued[b] \in 0..BLOCK_SIZE /\ dequeued[b] + Cardinality(UnreadOf(r)) = BLOCK_SIZE
    BY <1>2 DEF Filled
  <2>2. IsFiniteSet(UnreadOf(r))
    <3>1. UnreadOf(r) \in SUBSET Items(r)
      BY DEF UnreadOf
    <3> QED
      BY <1>2, <3>1, ItemsCount, FS_Subset
  <2>3. Cardinality(UnreadOf(r)) \in Nat
    BY <2>2, FS_CardinalityType
  <2>4. n <= Cardinality(UnreadOf(r)) /\ (Cardinality(UnreadOf(r)) = n => UnreadOf(r) = Batch(c))
    BY <1>0, <1>5, <2>2, FS_Subset
  <2> QED
    BY <2>1, <2>2, <2>3, <2>4
<1>7. emptied <=> UnreadOf(r) = Batch(c)
  <2>1. UnreadOf(r) = Batch(c) => Cardinality(UnreadOf(r)) = n
    BY <1>0
  <2>2. dequeued[b] + n = BLOCK_SIZE <=> n = Cardinality(UnreadOf(r))
    BY <1>3, <1>6, BlockSize
  <2> QED
    BY <1>0, <1>6, <2>1, <2>2
\* The consumer, after it.
<1>8. /\ Pending(c)' = Rest(c) /\ Untaken(c)' = Rest(c) /\ ReadsOf(a, m, c)'
      /\ where'[c] \in {"none", "read", "remove"}
      /\ (where'[c] = "remove" <=> emptied) /\ (emptied => At(c)' = r)
      /\ \A d \in Consumers : d # c =>
            UNCHANGED <<where[d], index[d], end[d], local[d], tail[d], slot[d], block[d]>>
      /\ DOMAIN local' = Consumers /\ DOMAIN tail' = Consumers /\ DOMAIN slot' = Consumers
      /\ block' \in [Consumers -> Blocks \union {Null}]
      /\ where' \in [Consumers -> Places]
      /\ index' \in [Consumers -> Nat] /\ end' \in [Consumers -> Nat]
      /\ IF where'[c] = "none" THEN index'[c] = 0 /\ end'[c] = 0
         ELSE index'[c] < end'[c] /\ end'[c] = end[c] /\ index[c] <= index'[c]
  <2>1. CASE emptied
    <3>1. /\ where' = [where EXCEPT ![c] = "remove"]
          /\ UNCHANGED <<index, end, local, tail, slot, block>>
      BY <1>1, <2>1
    <3>2. /\ where \in [Consumers -> Places] /\ index \in [Consumers -> Nat] /\ end \in [Consumers -> Nat]
          /\ DOMAIN local = Consumers /\ DOMAIN tail = Consumers /\ DOMAIN slot = Consumers
          /\ block \in [Consumers -> Blocks \union {Null}]
      BY DEF Claimed, Places, Reads, Owned
    <3>3. /\ where'[c] = "remove" /\ where' \in [Consumers -> Places]
          /\ \A d \in Consumers : d # c => where'[d] = where[d]
      BY <3>1, <3>2 DEF Places
    <3>4. At(c)' = At(c) /\ Emptied(c)'
      BY <3>1, <3>3 DEF At, Emptied
    <3>5. Pending(c)' = Rest(c)
      BY <3>1, <3>4 DEF Pending, Rest
    <3>6. Untaken(c)' = Rest(c)
      BY <3>3, <3>5 DEF Untaken
    <3>7. ReadsOf(a, m, c)'
      <4>1. ReadsOf(a, m, c) /\ Home(a, At(c))' = Home(a, At(c))
        BY <1>1, <3>4 DEF Reads, Home, Entry, EntryIn
      <4> QED
        BY <1>1, <3>1, <3>3, <3>4, <4>1 DEF ReadsOf
    <3>8. index[c] < end[c] /\ index[c] <= index[c]
      BY <1>1, PendingFacts
    <3> QED
      BY <1>0, <2>1, <3>1, <3>2, <3>3, <3>4, <3>5, <3>6, <3>7, <3>8
  <2>2. CASE ~emptied
    <3>1. Advance(c) /\ where' = [where EXCEPT ![c] = AfterBatch(c)]
      BY <1>1, <2>2
    <3>2. where[c] \in {"mark", "free"} /\ UNCHANGED <<headIndex, headers>>
      BY <1>1
    <3>3. /\ Pending(c)' = Rest(c) /\ Untaken(c)' = Rest(c) /\ ReadsOf(a, m, c)'
          /\ where'[c] \in {"none", "read"}
          /\ \A d \in Consumers : d # c =>
                UNCHANGED <<where[d], index[d], end[d], local[d], tail[d], slot[d], block[d]>>
      BY <3>1, <3>2, AdvanceFacts
    <3>4. /\ DOMAIN local' = Consumers /\ DOMAIN tail' = Consumers /\ DOMAIN slot' = Consumers
          /\ block' \in [Consumers -> Blocks \union {Null}]
          /\ where' \in [Consumers -> Places]
          /\ index' \in [Consumers -> Nat] /\ end' \in [Consumers -> Nat]
          /\ IF where'[c] = "none" THEN index'[c] = 0 /\ end'[c] = 0
             ELSE index'[c] < end'[c] /\ end'[c] = end[c] /\ index[c] <= index'[c]
      BY <3>1, <3>2, AdvanceFacts
    <3> QED
      BY <2>2, <3>3, <3>4
  <2> QED
    BY <2>1, <2>2
<1>9. ASSUME NEW d \in Consumers, d # c
      PROVE  /\ Pending(d)' = Pending(d) /\ Untaken(d)' = Untaken(d)
             /\ At(d)' = At(d) /\ (Emptied(d)' <=> Emptied(d)) /\ where'[d] = where[d]
  <2>1. UNCHANGED <<where[d], index[d], end[d]>>
    BY <1>8, <1>9
  <2> QED
    BY <2>1, ConsumerStill
<1>10. ASSUME NEW i \in Int PROVE Unread(i)' <=> Unread(i) /\ i \notin Batch(c)
  <2>1. (\E d \in Consumers : i \in Pending(d))' <=>
        \/ i \in Pending(c) /\ i \notin Batch(c)
        \/ \E d \in Consumers : d # c /\ i \in Pending(d)
    BY <1>4, <1>8, <1>9
  <2>2. ASSUME i \in Batch(c)
        PROVE  ~(i >= headIndex) /\ ~\E d \in Consumers : d # c /\ i \in Pending(d)
    <3>1. i \in index[c]..(end[c] - 1)
      BY <1>3, <2>2
    <3>2. i < headIndex /\ headIndex \in Int /\ \A d \in Consumers : d # c => i \notin Pending(d)
      BY <3>1, ClaimFacts DEF Numbers
    <3> QED
      BY <3>2
  <2>3. headIndex' = headIndex
    BY <1>1
  <2> QED
    BY <2>1, <2>2, <2>3 DEF Unread
<1>11. Written' = Written /\ \A i \in Int : Present(i)' <=> Present(i)
  <2>1. Written' = Written
    BY <1>1 DEF Written
  <2>2. \A d \in Consumers : Untaken(d)' = Untaken(d)
    BY <1>4, <1>8, <1>9
  <2> QED
    BY <1>1, <2>1, <2>2 DEF Present
<1>12. \A k \in Int : UnreadOf(k)' = UnreadOf(k) \ Batch(c)
  BY <1>10, ItemsTyped DEF UnreadOf, Items
<1>13. \A k \in Int : k # r => UnreadOf(k)' = UnreadOf(k)
  <2>1. ASSUME NEW k \in Int, k # r, NEW i \in Items(k) PROVE i \notin Batch(c)
    BY <1>2, <1>3, <2>1, ItemsTyped
  <2> QED
    BY <1>12, <2>1 DEF UnreadOf
<1>14. \A k \in Int : Needed(k)' <=> Needed(k)
  <2>1. Needed(r) /\ Needed(r)'
    <3>1. Needed(r)
      BY <1>2 DEF InUse
    <3>2. CASE emptied
      <4>1. where'[c] = "remove" /\ At(c)' = r
        BY <1>8, <3>2
      <4> QED
        BY <3>1, <4>1 DEF Needed
    <3>3. CASE ~emptied
      <4>1. UnreadOf(r)' # {}
        BY <1>2, <1>5, <1>7, <1>12, <3>3
      <4> QED
        BY <3>1, <4>1 DEF Needed
    <3> QED
      BY <3>1, <3>2, <3>3
  <2>2. ASSUME NEW k \in Int, k # r PROVE Needed(k)' <=> Needed(k)
    <3>1. (\E d \in Consumers : where[d] = "remove" /\ At(d) = k)' <=>
          \E d \in Consumers : where[d] = "remove" /\ At(d) = k
      <4>1. ~(where[c] = "remove" /\ At(c) = k) /\ ~(where'[c] = "remove" /\ At(c)' = k)
        BY <1>1, <1>8, <2>2
      <4> QED
        BY <1>9, <4>1
    <3> QED
      BY <1>13, <2>2, <3>1 DEF Needed
  <2> QED
    BY <2>1, <2>2
<1>15. Claimed'
  <2>1. where[c] # "none" /\ headIndex' = headIndex
    BY <1>1
  <2>2. \A k \in Int : UnreadOf(k)' \subseteq UnreadOf(k)
    BY <1>12
  <2>3. Emptied(c)' => UnreadOf(At(c))' = {}
    <3>1. ASSUME Emptied(c)' PROVE UnreadOf(At(c))' = {}
      <4>1. emptied /\ At(c)' = r
        BY <1>8, <3>1 DEF Emptied
      <4>2. UnreadOf(r)' = {}
        BY <1>2, <1>7, <1>12, <4>1
      <4> QED
        BY <4>1, <4>2 DEF UnreadOf
    <3> QED
      BY <3>1
  <2>4. ASSUME NEW d \in Consumers, d # c, where[d] = "remove", where'[c] = "remove"
        PROVE  At(d) # At(c)'
    <3>1. At(c)' = r /\ UnreadOf(At(d)) = {}
      BY <1>8, <2>4 DEF Claimed, Emptied
    <3> QED
      BY <1>3, <1>5, <3>1
  <2> QED
    BY <1>8, <2>1, <2>2, <2>3, <2>4, ClaimShrinks
<1>16. /\ Numbers' /\ Headers' /\ Rings(a, m)' /\ Chained(a)' /\ Owned(a)'
       /\ InUse' = InUse /\ InIndex(a)' = InIndex(a) /\ \A k : Home(a, k)' = Home(a, k)
  <2>1. headIndex' \in 0..tailIndex
    BY <1>1 DEF Numbers
  <2>2. ASSUME NEW d \in Consumers
        PROVE  HeldBy(d)' = HeldBy(d) /\ (where'[d] = "free" => block'[d] \in Blocks)
    <3>1. CASE d = c
      BY <1>1, <1>8, <3>1 DEF HeldBy
    <3>2. CASE d # c
      <4>1. where'[d] = where[d] /\ block'[d] = block[d]
        BY <1>8, <3>2
      <4> QED
        BY <4>1 DEF HeldBy, Owned
    <3> QED
      BY <3>1, <3>2
  <2> QED
    BY <1>1, <1>8, <1>14, <2>1, <2>2, ConsumerKeeps
<1>17. Reads(a, m)'
  <2>1. \A j \in DOMAIN headers : m[j] \in Int /\ m[j] <= m[j]
    OBVIOUS
  <2>2. ASSUME NEW d \in Consumers, d # c PROVE ReadsOf(a, m, d)'
    <3>1. ReadsOf(a, m, d)
      BY DEF Reads
    <3>2. UNCHANGED <<local[d], tail[d], slot[d], block[d], where[d], index[d], end[d]>>
      BY <1>8, <2>2
    <3>3. Home(a, At(d))' = Home(a, At(d))
      BY <1>9, <1>16, <2>2
    <3> QED
      BY <1>1, <2>1, <3>1, <3>2, <3>3, ReadsOfStill
  <2> QED
    BY <1>8, <2>2 DEF Reads
<1>18. Filled(a)'
  <2>1. \A k \in InUse : k \in Int /\ Items(k) \subseteq Int /\ Home(a, k) \in Blocks
                         /\ (Home(a, k) = b => k = r)
    BY <1>2, NumberFacts, ItemsTyped DEF Owned
  <2>2. \A k : Items(k)' = Items(k)
    BY DEF Items
  <2>3. \A k \in InUse : \A i \in Items(k) : Present(i)' <=> Present(i)
    BY <1>11, <2>1
  <2>4. dequeued \in [Blocks -> 0..BLOCK_SIZE]
    BY DEF Filled
  <2>5. dequeued'[b] = dequeued[b] + n /\ \A d \in Blocks : d # b => dequeued'[d] = dequeued[d]
    BY <1>1, <1>2, <2>4
  <2>6. dequeued' \in [Blocks -> 0..BLOCK_SIZE]
    <3>1. dequeued[b] + n \in 0..BLOCK_SIZE
      BY <1>3, <1>6, BlockSize
    <3> QED
      BY <1>1, <2>4, <3>1
  <2>7. Cardinality(UnreadOf(r) \ Batch(c)) = Cardinality(UnreadOf(r)) - n
    <3>1. UnreadOf(r) \cap Batch(c) = Batch(c)
      BY <1>5
    <3>2. Cardinality(UnreadOf(r) \ Batch(c)) = Cardinality(UnreadOf(r)) - Cardinality(UnreadOf(r) \cap Batch(c))
      BY <1>6, FS_Difference
    <3> QED
      BY <1>0, <3>1, <3>2
  <2>8. ASSUME NEW k \in InUse PROVE dequeued'[Home(a, k)] + Cardinality(UnreadOf(k)') = BLOCK_SIZE
    <3>1. CASE k = r
      <4>1. UnreadOf(r)' = UnreadOf(r) \ Batch(c)
        BY <1>2, <1>12
      <4>2. Cardinality(UnreadOf(k)') = Cardinality(UnreadOf(r)) - n
        BY <2>7, <3>1, <4>1
      <4> QED
        BY <1>2, <1>3, <1>6, <2>5, <3>1, <4>2, BlockSize
    <3>2. CASE k # r
      <4>1. UnreadOf(k)' = UnreadOf(k) /\ dequeued'[Home(a, k)] = dequeued[Home(a, k)]
        BY <1>13, <2>1, <2>5, <3>2
      <4> QED
        BY <4>1 DEF Filled
    <3> QED
      BY <3>1, <3>2
  <2>9. \A k \in InUse : dequeued'[Home(a, k)'] + Cardinality(UnreadOf(k)') = BLOCK_SIZE
    BY <1>16, <2>8
  <2> QED
    BY <1>1, <1>16, <2>1, <2>2, <2>3, <2>6, <2>9 DEF Filled
<1> QED
  BY <1>1, <1>15, <1>16, <1>17, <1>18

LEMMA FreeBlockStep ==
    ASSUME NEW a, NEW m, IInv(a, m), NEW c \in Consumers, FreeBlock(c)
    PROVE  IInv(a, m)'
<1> USE DEF IInv
<1>0. PICK b : b = block[c]
  OBVIOUS
<1>1. /\ where[c] = "free" /\ where' = [where EXCEPT ![c] = AfterBatch(c)]
      /\ free' = free \union {b} /\ Advance(c)
      /\ UNCHANGED <<content, value, dequeued, tailIndex, headIndex, step, count, needed, base,
                     startBlock, firstAllocated, tailBlock, next, headers, key, undo>>
  BY <1>0 DEF FreeBlock, Step, ConsumerOnly, claimVars, callVars
<1>2. /\ Pending(c)' = Rest(c) /\ Untaken(c)' = Rest(c) /\ ReadsOf(a, m, c)'
      /\ where'[c] \in {"none", "read"}
      /\ \A d \in Consumers : d # c =>
            UNCHANGED <<where[d], index[d], end[d], local[d], tail[d], slot[d], block[d]>>
  BY <1>1, AdvanceFacts
<1>3. /\ DOMAIN local' = Consumers /\ DOMAIN tail' = Consumers /\ DOMAIN slot' = Consumers
      /\ block' \in [Consumers -> Blocks \union {Null}]
      /\ where' \in [Consumers -> Places]
      /\ index' \in [Consumers -> Nat] /\ end' \in [Consumers -> Nat]
      /\ IF where'[c] = "none" THEN index'[c] = 0 /\ end'[c] = 0
         ELSE index'[c] < end'[c] /\ end'[c] = end[c] /\ index[c] <= index'[c]
  BY <1>1, AdvanceFacts
<1>4. Pending(c) = Rest(c) /\ Untaken(c) = Rest(c)
  <2>1. Pending(c) = Rest(c)
    BY <1>1 DEF Pending, Emptied, Rest
  <2> QED
    BY <1>1, <2>1 DEF Untaken
<1>5. ASSUME NEW d \in Consumers, d # c
      PROVE  /\ Pending(d)' = Pending(d) /\ Untaken(d)' = Untaken(d)
             /\ At(d)' = At(d) /\ (Emptied(d)' <=> Emptied(d)) /\ where'[d] = where[d]
  <2>1. UNCHANGED <<where[d], index[d], end[d]>>
    BY <1>2, <1>5
  <2> QED
    BY <2>1, ConsumerStill
<1>6. /\ \A d \in Consumers : Pending(d)' = Pending(d)
      /\ \A d \in Consumers : Untaken(d)' = Untaken(d)
  BY <1>2, <1>4, <1>5
<1>7. Written' = Written /\ \A i : (Unread(i)' <=> Unread(i)) /\ (Present(i)' <=> Present(i))
  <2>1. Written' = Written
    BY <1>1 DEF Written
  <2> QED
    BY <1>1, <1>6, <2>1 DEF Unread, Present
<1>8. \A k : UnreadOf(k)' = UnreadOf(k)
  BY <1>7 DEF UnreadOf, Items
<1>9. \A k : Needed(k)' <=> Needed(k)
  <2>1. ASSUME NEW k
        PROVE  (\E d \in Consumers : where[d] = "remove" /\ At(d) = k)' <=>
               \E d \in Consumers : where[d] = "remove" /\ At(d) = k
    <3>1. where[c] # "remove" /\ where'[c] # "remove"
      BY <1>1, <1>2
    <3> QED
      BY <1>5, <3>1
  <2> QED
    BY <1>8, <2>1 DEF Needed
<1>10. Claimed'
  <2>1. where[c] # "none" /\ headIndex' = headIndex /\ ~Emptied(c)' /\ where'[c] # "remove"
    BY <1>1, <1>2 DEF Emptied
  <2>2. \A k \in Int : UnreadOf(k)' \subseteq UnreadOf(k)
    BY <1>8
  <2>3. \A d \in Consumers : d # c => UNCHANGED <<where[d], index[d], end[d]>>
    BY <1>2
  <2> QED
    BY <1>3, <2>1, <2>2, <2>3, ClaimShrinks
<1>11. headIndex' \in 0..tailIndex
  BY <1>1 DEF Numbers
<1>12. /\ Last' = Last /\ Added' = Added /\ Removed' = Removed
       /\ AtTail' = AtTail /\ CallBlocks' = CallBlocks /\ Unlinked' = Unlinked
       /\ Last' \in Int /\ Last <= Last' /\ Numbers'
  BY <1>1, <1>11, ProducerStill
<1>13. InUse' = InUse /\ \A k : Since(k)' => Since(k)
  BY <1>9, <1>12 DEF InUse, Since
<1>14. Headers' /\ Entries' = Entries /\ \A k : Home(a, k)' = Home(a, k) /\ Entry(a, k)' = Entry(a, k)
  BY <1>1, HeadersStill DEF Home, Entry, EntryIn
<1>15. Rings(a, m)'
  <2>1. m[Len(headers)] \in Int
    BY HeaderFacts
  <2> QED
    BY <1>1, <1>12, <1>13, <2>1, RingsStill
<1>16. Chained(a)'
  BY <1>1, <1>12, <1>13, <1>14, ChainedStill
<1>17. Reads(a, m)'
  <2>1. \A j \in DOMAIN headers : m[j] \in Int /\ m[j] <= m[j]
    OBVIOUS
  <2>2. ASSUME NEW d \in Consumers, d # c PROVE ReadsOf(a, m, d)'
    <3>1. ReadsOf(a, m, d)
      BY DEF Reads
    <3>2. UNCHANGED <<local[d], tail[d], slot[d], block[d], where[d], index[d], end[d]>>
      BY <1>2, <2>2
    <3>3. Home(a, At(d))' = Home(a, At(d))
      BY <1>5, <1>14, <2>2
    <3> QED
      BY <1>1, <2>1, <3>1, <3>2, <3>3, ReadsOfStill
  <2> QED
    BY <1>2, <1>3, <2>2 DEF Reads
<1>18. InIndex(a)' = InIndex(a)
  BY <1>13, <1>14 DEF InIndex
<1>19. Filled(a)'
  <2>1. \A k : Items(k)' = Items(k)
    BY DEF Items
  <2> QED
    BY <1>1, <1>7, <1>8, <1>13, <1>14, <1>18, <2>1 DEF Filled
<1>20. Owned(a)'
  <2>1. HeldBy(c) = {b} /\ HeldBy(c)' = {} /\ b \in Blocks
    BY <1>0, <1>1, <1>2 DEF HeldBy, Owned
  <2>2. ASSUME NEW d \in Consumers, d # c
        PROVE  HeldBy(d)' = HeldBy(d) /\ (where'[d] = "free" => block'[d] \in Blocks)
    <3>1. where'[d] = where[d] /\ block'[d] = block[d]
      BY <1>2, <2>2
    <3> QED
      BY <3>1 DEF HeldBy, Owned
  <2>3. PICK held, kept : held = UNION {HeldBy(d) : d \in Consumers} /\ kept = UNION {HeldBy(d)' : d \in Consumers}
    OBVIOUS
  <2>4. held = kept \union {b} /\ b \notin kept
    <3>1. \A d \in Consumers : d # c => b \notin HeldBy(d)
      BY <2>1 DEF Owned
    <3> QED
      BY <2>1, <2>2, <2>3, <3>1
  <2>5. /\ free \subseteq Blocks
        /\ Blocks = free \union InIndex(a) \union Unlinked \union held
        /\ free \intersect (InIndex(a) \union Unlinked \union held) = {}
        /\ InIndex(a) \intersect (Unlinked \union held) = {}
        /\ HeldBy(c) \intersect Unlinked = {}
    BY <2>3 DEF Owned
  <2>6. /\ free' \subseteq Blocks
        /\ Blocks = free' \union InIndex(a) \union Unlinked \union kept
        /\ free' \intersect (InIndex(a) \union Unlinked \union kept) = {}
        /\ InIndex(a) \intersect (Unlinked \union kept) = {}
    BY <1>1, <2>1, <2>4, <2>5
  <2>7. /\ \A d \in Consumers : HeldBy(d)' \intersect Unlinked = {}
        /\ \A d, e \in Consumers : d # e => HeldBy(d)' \intersect HeldBy(e)' = {}
    BY <2>1, <2>2 DEF Owned
  <2>8. \A d \in Consumers : where'[d] = "free" => block'[d] \in Blocks
    BY <1>2, <2>2
  <2>9. \A e \in Entries' : value'[e] # Null => \E k \in InUse : e = Entry(a, k)'
    BY <1>1, <1>14 DEF Owned
  <2>10. /\ \A k \in InUse : Home(a, k)' \in Blocks
         /\ \A k, l \in InUse : Home(a, k)' = Home(a, l)' => k = l
    BY <1>14 DEF Owned
  <2> QED
    BY <1>3, <1>12, <1>13, <1>18, <2>3, <2>6, <2>7, <2>8, <2>9, <2>10 DEF Owned
<1> QED
  BY <1>1, <1>10, <1>12, <1>14, <1>15, <1>16, <1>17, <1>19, <1>20

LEMMA RemoveStep ==
    ASSUME NEW a, NEW m, IInv(a, m), NEW c \in Consumers, Remove(c)
    PROVE  IInv(a, m)'
<1> USE DEF IInv
<1>0. PICK r, b, x : r = At(c) /\ b = Home(a, r) /\ x = Entry(a, r)
  OBVIOUS
<1>1. /\ where[c] = "remove" /\ where' = [where EXCEPT ![c] = "free"]
      /\ value' = [value EXCEPT ![x] = Null]
      /\ UNCHANGED <<content, index, end, free, dequeued, local, tail, slot, block,
                     tailIndex, headIndex, step, count, needed, base,
                     startBlock, firstAllocated, tailBlock, next, headers, key, undo>>
  <2>1. where[c] = "remove"
    BY DEF Remove, Step
  <2>2. EntryToRead(c) = x
    BY <1>0, <2>1, EntryRead
  <2> QED
    BY <2>1, <2>2 DEF Remove, Step, ConsumerOnly, claimVars, callVars, readVars
<1>2. /\ r \in InUse /\ r \in Nat /\ b \in Blocks /\ block[c] = b /\ r <= Last
      /\ UnreadOf(r) = {} /\ x \in Entries
  <2>1. r \in InUse /\ r <= Last /\ block[c] = b
    BY <1>0, <1>1, PendingFacts DEF Reads, ReadsOf
  <2>2. UnreadOf(r) = {}
    BY <1>0, <1>1 DEF Claimed, Emptied
  <2>3. r \in Nat /\ b \in Blocks
    BY <1>0, <2>1, NumberFacts DEF Owned
  <2>4. x \in Entries
    BY <1>0, <2>3, EntryFacts
  <2> QED
    BY <2>1, <2>2, <2>3, <2>4
<1>3. where'[c] = "free" /\ where' \in [Consumers -> Places]
      /\ \A d \in Consumers : d # c => where'[d] = where[d]
  BY <1>1 DEF Claimed, Places
<1>4. ASSUME NEW d \in Consumers, d # c
      PROVE  /\ Pending(d)' = Pending(d) /\ Untaken(d)' = Untaken(d)
             /\ At(d)' = At(d) /\ (Emptied(d)' <=> Emptied(d)) /\ where'[d] = where[d]
  <2>1. UNCHANGED <<where[d], index[d], end[d]>>
    BY <1>1, <1>3, <1>4
  <2> QED
    BY <2>1, ConsumerStill
<1>5. Pending(c)' = Pending(c) /\ Untaken(c)' = Untaken(c) /\ At(c)' = r
  <2>1. At(c)' = At(c) /\ Emptied(c) /\ Emptied(c)'
    BY <1>1, <1>3 DEF At, Emptied
  <2>2. Pending(c)' = Pending(c)
    BY <1>1, <2>1 DEF Pending
  <2>3. Untaken(c)' = Untaken(c)
    BY <1>1, <1>3, <2>2 DEF Untaken
  <2> QED
    BY <1>0, <2>1, <2>2, <2>3
<1>6. /\ \A d \in Consumers : Pending(d)' = Pending(d)
      /\ \A d \in Consumers : Untaken(d)' = Untaken(d)
  BY <1>4, <1>5
<1>7. Written' = Written /\ \A i : (Unread(i)' <=> Unread(i)) /\ (Present(i)' <=> Present(i))
  <2>1. Written' = Written
    BY <1>1 DEF Written
  <2> QED
    BY <1>1, <1>6, <2>1 DEF Unread, Present
<1>8. \A k : UnreadOf(k)' = UnreadOf(k)
  BY <1>7 DEF UnreadOf, Items
<1>9. \A k : Needed(k)' <=> Needed(k) /\ k # r
  <2>1. ASSUME NEW d \in Consumers, d # c, where[d] = "remove" PROVE At(d) # r
    BY <1>0, <1>1, <2>1 DEF Claimed
  <2>2. ASSUME NEW k
        PROVE  (\E d \in Consumers : where[d] = "remove" /\ At(d) = k)' <=>
               \E d \in Consumers : where[d] = "remove" /\ At(d) = k /\ k # r
    BY <1>0, <1>3, <1>4, <2>1
  <2>3. ASSUME NEW k PROVE UnreadOf(k) # {} => k # r
    BY <1>2
  <2> QED
    BY <1>8, <2>2, <2>3 DEF Needed
<1>10. Claimed'
  <2>1. where[c] # "none" /\ headIndex' = headIndex /\ where'[c] # "remove"
    BY <1>1, <1>3
  <2>2. \A k \in Int : UnreadOf(k)' \subseteq UnreadOf(k)
    BY <1>8
  <2>3. \A d \in Consumers : d # c => UNCHANGED <<where[d], index[d], end[d]>>
    BY <1>1, <1>3
  <2>4. /\ index' \in [Consumers -> Nat] /\ end' \in [Consumers -> Nat]
        /\ IF where'[c] = "none" THEN index'[c] = 0 /\ end'[c] = 0
           ELSE index'[c] < end'[c] /\ end'[c] = end[c] /\ index[c] <= index'[c]
    BY <1>1, <1>3, PendingFacts DEF Claimed
  <2>5. UnreadOf(At(c))' = {}
    <3>1. UnreadOf(r)' = {}
      BY <1>2, <1>8
    <3> QED
      BY <1>5, <3>1 DEF UnreadOf
  <2> QED
    BY <1>3, <2>1, <2>2, <2>3, <2>4, <2>5, ClaimShrinks
<1>11. headIndex' \in 0..tailIndex
  BY <1>1 DEF Numbers
<1>12. /\ Last' = Last /\ Added' = Added /\ Removed' = Removed
       /\ AtTail' = AtTail /\ CallBlocks' = CallBlocks /\ Unlinked' = Unlinked
       /\ Last' \in Int /\ Last <= Last' /\ Numbers' /\ Added \in Nat /\ Removed \in 0..Added
  BY <1>1, <1>11, ProducerStill, NumberFacts
<1>13. InUse' = InUse \ {r} /\ \A k : Since(k)' => Since(k)
  BY <1>9, <1>12 DEF InUse, Since
<1>14. /\ value \in Seq(Blocks \union {Null}) /\ DOMAIN value = Entries
       /\ value' \in Seq(Blocks \union {Null}) /\ Len(value') = Len(value)
       /\ value'[x] = Null /\ \A e \in Entries : e # x => value'[e] = value[e]
  <2>1. value \in Seq(Blocks \union {Null}) /\ DOMAIN value = Entries
    BY HeaderFacts DEF Headers
  <2>2. Null \in Blocks \union {Null}
    OBVIOUS
  <2>3. value' \in Seq(Blocks \union {Null}) /\ Len(value') = Len(value)
    BY <1>1, <1>2, <2>1, <2>2, ExceptSeq
  <2> QED
    BY <1>1, <1>2, <2>1, <2>3
<1>15. Headers' /\ Entries' = Entries
  BY <1>1, <1>14 DEF Headers, current, Entries
<1>16. \A k : Entry(a, k)' = Entry(a, k)
  BY <1>1 DEF Entry, EntryIn
<1>17. \A k \in InUse : k # r => Entry(a, k) # x
  <2> TAKE k \in InUse
  <2>1. Entry(a, k) = x => Home(a, k) = Home(a, r)
    BY <1>0 DEF Home
  <2> QED
    BY <1>2, <2>1 DEF Owned
<1>18. \A k \in InUse : k # r => Home(a, k)' = Home(a, k)
  <2> TAKE k \in InUse
  <2>1. Entry(a, k) \in Entries
    BY NumberFacts, EntryFacts
  <2> QED
    BY <1>14, <1>16, <1>17, <2>1 DEF Home
<1>19. Rings(a, m)'
  <2>1. m[Len(headers)] \in Int
    BY HeaderFacts
  <2> QED
    BY <1>1, <1>12, <1>13, <2>1, RingsStill
<1>20. Chained(a)'
  <2>1. ASSUME NEW k \in (Removed + 1)..Added PROVE CallBlocks[k] = Home(a, Last + k)'
    <3>1. PICK l : l = Last + k
      OBVIOUS
    <3>2. l \in Int /\ Last < l /\ l > Last + Removed /\ l \in 0..(Last + Added)
      BY <1>1, <1>12, <3>1, NumberFacts
    <3>3. l \in InUse /\ l # r
      BY <1>1, <1>2, <1>12, <3>2, FutureNeeded DEF InUse
    <3>4. CallBlocks[k] = Home(a, l)
      BY <3>1 DEF Chained
    <3>5. Home(a, l)' = CallBlocks[k]
      BY <1>18, <3>3, <3>4
    <3> QED
      BY <1>12, <3>1, <3>5
  <2>2. Last \in InUse' => Home(a, Last)' = IF step = "idle" THEN tailBlock ELSE startBlock
    <3>1. PICK l : l = Last
      OBVIOUS
    <3>2. l \in InUse' => Home(a, l)' = IF step = "idle" THEN tailBlock ELSE startBlock
      BY <1>13, <1>18, <3>1 DEF Chained
    <3> QED
      BY <1>12, <3>1, <3>2
  <2> QED
    BY <1>1, <1>12, <2>1, <2>2 DEF Chained
<1>21. HeldBy(c) = {} /\ HeldBy(c)' = {b}
  BY <1>1, <1>2, <1>3 DEF HeldBy
<1>22. ASSUME NEW d \in Consumers, d # c
       PROVE  HeldBy(d)' = HeldBy(d) /\ (where'[d] = "free" => block'[d] \in Blocks)
  BY <1>1, <1>3, <1>22 DEF HeldBy, Owned
<1>23. InIndex(a) = InIndex(a)' \union {b} /\ b \notin InIndex(a)'
  <2>1. InIndex(a)' = {Home(a, k) : k \in InUse \ {r}}
    BY <1>13, <1>18 DEF InIndex
  <2>2. InIndex(a) = {Home(a, k) : k \in InUse}
    BY DEF InIndex
  <2>3. \A k \in InUse : Home(a, k) = b => k = r
    BY <1>0, <1>2 DEF Owned
  <2> QED
    BY <1>0, <1>2, <2>1, <2>2, <2>3
<1>24. Owned(a)'
  <2>1. PICK held, kept, idx, idy :
          /\ held = UNION {HeldBy(d) : d \in Consumers} /\ kept = UNION {HeldBy(d)' : d \in Consumers}
          /\ idx = InIndex(a) /\ idy = InIndex(a)'
    OBVIOUS
  <2>2. kept = held \union {b}
    BY <1>21, <1>22, <2>1
  <2>3. /\ Blocks = free \union idx \union Unlinked \union held
        /\ free \intersect (idx \union Unlinked \union held) = {}
        /\ idx \intersect (Unlinked \union held) = {}
    BY <2>1 DEF Owned
  <2>4. /\ Blocks = free \union idy \union Unlinked \union kept
        /\ free \intersect (idy \union Unlinked \union kept) = {}
        /\ idy \intersect (Unlinked \union kept) = {}
        /\ b \notin held /\ b \notin Unlinked
    BY <1>23, <2>1, <2>2, <2>3
  <2>5. /\ \A d \in Consumers : HeldBy(d)' \intersect Unlinked = {}
        /\ \A d, e \in Consumers : d # e => HeldBy(d)' \intersect HeldBy(e)' = {}
    <3>1. \A d \in Consumers : b \notin HeldBy(d)
      BY <2>1, <2>4
    <3> QED
      BY <1>21, <1>22, <2>4, <3>1 DEF Owned
  <2>6. \A d \in Consumers : where'[d] = "free" => block'[d] \in Blocks
    BY <1>1, <1>2, <1>22
  <2>7. \A e \in Entries' : value'[e] # Null => \E k \in InUse' : e = Entry(a, k)'
    <3>1. ASSUME NEW e \in Entries, value'[e] # Null PROVE \E k \in InUse' : e = Entry(a, k)'
      <4>1. e # x /\ value[e] # Null
        BY <1>14, <3>1
      <4>2. PICK k \in InUse : e = Entry(a, k)
        BY <4>1 DEF Owned
      <4>3. k \in InUse' /\ e = Entry(a, k)'
        BY <1>0, <1>13, <1>16, <4>1, <4>2
      <4> QED
        BY <4>3
    <3> QED
      BY <1>15, <3>1
  <2>8. /\ \A k \in InUse' : Home(a, k)' \in Blocks
        /\ \A k, l \in InUse' : Home(a, k)' = Home(a, l)' => k = l
    BY <1>13, <1>18 DEF Owned
  <2>9. free' = free /\ free \subseteq Blocks /\ block' \in [Consumers -> Blocks \union {Null}]
    BY <1>1 DEF Owned
  <2> QED
    BY <1>12, <2>1, <2>4, <2>5, <2>6, <2>7, <2>8, <2>9 DEF Owned
<1>25. Reads(a, m)'
  <2>1. \A j \in DOMAIN headers : m[j] \in Int /\ m[j] <= m[j]
    OBVIOUS
  <2>2. ASSUME NEW d \in Consumers PROVE ReadsOf(a, m, d)'
    <3>1. ReadsOf(a, m, d)
      BY DEF Reads
    <3>2. CASE d = c
      BY <1>0, <1>1, <1>3, <1>5, <3>1, <3>2 DEF ReadsOf
    <3>3. CASE d # c
      <4>1. UNCHANGED <<local[d], tail[d], slot[d], block[d], where[d], index[d], end[d]>>
        BY <1>1, <1>3, <3>3
      <4>2. where[d] \in {"mark", "remove"} => At(d) \in InUse /\ At(d) # r
        <5>1. ASSUME where[d] = "mark" PROVE At(d) # r
          <6>1. index[d] \in Pending(d) /\ index[d] \in Int
            BY <5>1, PendingFacts DEF Emptied
          <6>2. index[d] \in UnreadOf(At(d))
            BY <6>1, UnreadNeeds DEF Unread, At
          <6> QED
            BY <1>2, <6>2
        <5>2. where[d] = "remove" => At(d) # r
          BY <1>0, <1>1, <3>3 DEF Claimed
        <5>3. where[d] \in {"mark", "remove"} => At(d) \in InUse
          BY PendingFacts DEF Emptied
        <5> QED
          BY <5>1, <5>2, <5>3
      <4>3. where[d] \in {"mark", "remove"} => Home(a, At(d))' = Home(a, At(d))
        BY <1>4, <1>18, <3>3, <4>2
      <4> QED
        BY <1>1, <2>1, <3>1, <4>1, <4>3, ReadsOfStill
    <3> QED
      BY <3>2, <3>3
  <2> QED
    BY <1>1, <2>2 DEF Reads
<1>26. Filled(a)'
  <2>1. \A k : Items(k)' = Items(k)
    BY DEF Items
  <2>2. \A o \in Offsets : content[b][o] = Nothing
    <3>1. \A i \in Items(r) : ~Present(i)
      BY <1>2, PresentUnread DEF UnreadOf
    <3> QED
      BY <1>0, <1>2, <3>1, EmptyBlock
  <2>3. \A d \in Blocks \ InIndex(a)' : \A o \in Offsets : content'[d][o] = Nothing
    BY <1>1, <1>23, <2>2 DEF Filled
  <2>4. \A k \in InUse' : dequeued'[Home(a, k)'] + Cardinality(UnreadOf(k)') = BLOCK_SIZE
    BY <1>1, <1>8, <1>13, <1>18 DEF Filled
  <2>5. \A k \in InUse' : \A i \in Items(k) :
           content'[Home(a, k)'][i % BLOCK_SIZE] = IF Present(i)' THEN i ELSE Nothing
    BY <1>1, <1>7, <1>13, <1>18 DEF Filled
  <2> QED
    BY <1>1, <2>1, <2>3, <2>4, <2>5 DEF Filled
<1> QED
  BY <1>1, <1>10, <1>12, <1>15, <1>19, <1>20, <1>24, <1>25, <1>26

LEMMA InitStep == Init => \E a, m : IInv(a, m)
<1> SUFFICES ASSUME Init PROVE \E a, m : IInv(a, m)
  OBVIOUS
<1>0. PICK n : n = IMPLICIT_INITIAL_INDEX_SIZE
  OBVIOUS
<1>1. n \in Nat \ {0}
  BY <1>0, ImplicitAssumption
<1>2. /\ headers = <<Header(n, [i \in 0..(n - 1) |-> i + 1], n - 1)>>
      /\ key = [e \in 1..n |-> INVALID_BLOCK_BASE] /\ value = [e \in 1..n |-> Null]
      /\ free = Blocks /\ dequeued = [b \in Blocks |-> 0] /\ undo = <<>>
      /\ local = [c \in Consumers |-> 0] /\ tail = [c \in Consumers |-> 0]
      /\ slot = [c \in Consumers |-> 0] /\ block = [c \in Consumers |-> Null]
  BY <1>0 DEF Init
<1>3. /\ tailIndex = 0 /\ headIndex = 0
      /\ step = "idle" /\ count = 0 /\ needed = 0 /\ base = 0
      /\ tailBlock = Null /\ startBlock = Null /\ firstAllocated = Null
      /\ next = [b \in Blocks |-> Null]
      /\ content = [b \in Blocks |-> [o \in Offsets |-> Nothing]]
      /\ where = [c \in Consumers |-> "none"]
      /\ index = [c \in Consumers |-> 0] /\ end = [c \in Consumers |-> 0]
  BY DEF Init, SubInit, Claims!Init
<1>4. Last = -1 /\ Added = 0 /\ Removed = 0 /\ AtTail = -1
  <2>1. Last = -1
    <3>1. tailIndex - 1 = -1
      BY <1>3
    <3> QED
      BY <3>1, BlockNat DEF Last
  <2>2. Added = 0 /\ Removed = 0
    BY <1>3 DEF Added, Removed
  <2> QED
    BY <1>3, <2>1, <2>2 DEF AtTail
<1>5. InUse = {} /\ Unlinked = {}
  <2>1. 0..(-1 + 0) = {} /\ 1..0 = {}
    OBVIOUS
  <2> QED
    BY <1>4, <2>1 DEF InUse, Unlinked
<1>6. Numbers
  <2>1. MaxItems \in Nat
    BY BlockAssumption
  <2>2. undo \in Seq(Blocks) /\ Len(undo) = 0
    BY <1>2
  <2> QED
    BY <1>3, <1>4, <2>1, <2>2 DEF Numbers
<1>7. Claimed
  BY <1>3 DEF Claimed, Emptied
<1>8. PICK h : h = Header(n, [i \in 0..(n - 1) |-> i + 1], n - 1)
  OBVIOUS
<1>9. /\ h.capacity = n /\ h.tail = n - 1 /\ h.index = [i \in 0..(n - 1) |-> i + 1]
      /\ h \in HeaderOf(n) /\ h \in AnyHeader
  <2>1. h = [capacity |-> n, tail |-> n - 1, index |-> [i \in 0..(n - 1) |-> i + 1]]
    BY <1>8 DEF Header
  <2>2. n - 1 \in 0..(n - 1) /\ [i \in 0..(n - 1) |-> i + 1] \in [0..(n - 1) -> Nat]
    BY <1>1
  <2>3. h \in HeaderOf(n)
    BY <2>1, <2>2 DEF HeaderOf
  <2> QED
    BY <1>1, <2>1, <2>3 DEF AnyHeader
<1>10. /\ headers \in Seq(AnyHeader) /\ Len(headers) = 1 /\ DOMAIN headers = {1} /\ headers[1] = h
       /\ headers # <<>> /\ current = h
  <2>1. headers = <<h>>
    BY <1>2, <1>8
  <2>2. headers \in Seq(AnyHeader) /\ Len(headers) = 1 /\ headers[1] = h
    BY <1>9, <2>1
  <2>3. DOMAIN headers = 1..1 /\ 1..1 = {1}
    BY <2>2
  <2> QED
    BY <2>1, <2>2, <2>3 DEF current
<1>11. /\ key \in Seq(Int) /\ Len(key) = n /\ value \in Seq(Blocks \union {Null}) /\ Len(value) = n
       /\ Entries = 1..n /\ \A e \in Entries : value[e] = Null
  <2>1. key \in Seq(Int) /\ Len(key) = n
    BY <1>1, <1>2 DEF INVALID_BLOCK_BASE
  <2>2. value \in Seq(Blocks \union {Null}) /\ Len(value) = n
    BY <1>1, <1>2
  <2> QED
    BY <1>2, <2>1, <2>2 DEF Entries
<1>12. Headers
  <2>1. h.index \in [0..(n - 1) -> Entries]
    BY <1>1, <1>9, <1>11
  <2>2. \A p, q \in 0..(n - 1) : h.index[p] = h.index[q] => p = q
    BY <1>1, <1>9
  <2> QED
    BY <1>9, <1>10, <1>11, <2>1, <2>2 DEF Headers
<1>13. PICK a, m : a = [j \in {1} |-> n] /\ m = [j \in {1} |-> -1]
  OBVIOUS
<1>14. /\ a \in [DOMAIN headers -> Int] /\ m \in [DOMAIN headers -> Int]
       /\ a[1] = n /\ m[1] = -1
  BY <1>1, <1>10, <1>13
<1>15. Rings(a, m)
  <2>1. n - 1 = (-1 + n) % n
    <3>1. PICK y : y = n - 1
      OBVIOUS
    <3>2. y \in 0..(n - 1) /\ y = n * 0 + y /\ y = -1 + n /\ y \in Int
      BY <1>1, <3>1
    <3>3. y = y % n
      BY <1>1, <3>2, DivisionUnique
    <3> QED
      BY <3>1, <3>2, <3>3
  <2>2. 0..(-1) = {} /\ 1..(1 - 1) = {} /\ -1 <= -1 /\ -1 - n <= -1
    BY <1>1
  <2>3. CurrentRing(a, -1)
    BY <1>4, <1>5, <1>9, <1>10, <1>14, <2>1, <2>2 DEF CurrentRing
  <2>4. OldRings(a, m)
    BY <1>10, <2>2 DEF OldRings
  <2> QED
    BY <1>10, <1>14, <2>3, <2>4 DEF Rings
<1>16. Reads(a, m)
  BY <1>2, <1>3 DEF Reads, ReadsOf
<1>17. Chained(a)
  <2>1. 1..0 = {} /\ 1..(0 - 1) = {} /\ (0 + 1)..0 = {} /\ ~(0 > 0)
    OBVIOUS
  <2> QED
    BY <1>3, <1>4, <1>5, <2>1 DEF Chained
<1>18. Owned(a)
  <2>1. InIndex(a) = {} /\ \A c \in Consumers : HeldBy(c) = {}
    BY <1>3, <1>5 DEF InIndex, HeldBy
  <2>2. UNION {HeldBy(c) : c \in Consumers} = {}
    BY <2>1
  <2> QED
    BY <1>2, <1>3, <1>5, <1>11, <2>1, <2>2 DEF Owned
<1>19. Filled(a)
  <2>1. InIndex(a) = {} /\ Nothing \in Int
    BY <1>5 DEF InIndex, Nothing
  <2>2. dequeued \in [Blocks -> 0..BLOCK_SIZE]
    BY <1>2, BlockSize
  <2>3. content \in [Blocks -> [Offsets -> Int]]
    BY <1>3, <2>1
  <2> QED
    BY <1>3, <1>5, <2>1, <2>2, <2>3 DEF Filled
<1> QED
  BY <1>6, <1>7, <1>12, <1>14, <1>15, <1>16, <1>17, <1>18, <1>19 DEF IInv

LEMMA StutterStep ==
    ASSUME NEW a, NEW m, IInv(a, m), UNCHANGED vars
    PROVE  IInv(a, m)'
<1> USE DEF IInv
<1>1. UNCHANGED <<tailIndex, headIndex, step, count, needed, base, startBlock, firstAllocated,
                  tailBlock, next, content, where, index, end, headers, key, value, free,
                  dequeued, undo, local, tail, slot, block>>
  BY DEF vars, subVars, claimVars, callVars, readVars
<1>2. Numbers' /\ Written' = Written
  <2>1. headIndex' \in 0..tailIndex
    BY <1>1 DEF Numbers
  <2> QED
    BY <1>1, <2>1, ProducerStill
<1>3. Claimed' /\ (\A k : UnreadOf(k)' = UnreadOf(k) /\ Needed(k)' = Needed(k))
      /\ \A c \in Consumers : Untaken(c)' = Untaken(c)
  BY <1>1, ConsumersStill
<1>4. /\ Headers' /\ Rings(a, m)' /\ Chained(a)' /\ Owned(a)'
      /\ InUse' = InUse /\ InIndex(a)' = InIndex(a) /\ \A k : Home(a, k)' = Home(a, k)
  <2>1. headIndex' \in 0..tailIndex
    BY <1>1 DEF Numbers
  <2>2. \A k \in Int : Needed(k)' <=> Needed(k)
    BY <1>3
  <2>3. block' \in [Consumers -> Blocks \union {Null}]
    BY <1>1 DEF Owned
  <2>4. \A d \in Consumers : HeldBy(d)' = HeldBy(d) /\ (where'[d] = "free" => block'[d] \in Blocks)
    BY <1>1 DEF HeldBy, Owned
  <2> QED
    BY <1>1, <2>1, <2>2, <2>3, <2>4, ConsumerKeeps
<1>5. Reads(a, m)'
  <2>1. \A j \in DOMAIN headers : m[j] \in Int /\ m[j] <= m[j]
    OBVIOUS
  <2> QED
    BY <1>1, <1>4, <2>1, ReadsStill
<1>6. Filled(a)'
  BY <1>1, <1>2, <1>4, FilledStill
<1> QED
  BY <1>1, <1>2, <1>3, <1>4, <1>5, <1>6

LEMMA NextStep ==
    ASSUME NEW a, NEW m, IInv(a, m), [Next]_vars
    PROVE  \E b, n : IInv(b, n)'
<1>1. ASSUME NEW n \in 1..MaxBulk, Enqueue(n) PROVE \E b, l : IInv(b, l)'
  BY <1>1, EnqueueStep
<1>2. CASE InsertEntry
  BY <1>2, InsertStep
<1>3. CASE GrowIndex
  BY <1>3, GrowStep
<1>4. CASE AddBlock
  BY <1>4, AddBlockStep
<1>5. CASE NoIndex
  <2>1. BeginUndo /\ step = "insert" /\ UNCHANGED headers
    BY <1>5 DEF NoIndex
  <2>2. IInv(a, m)'
    BY <2>1, BeginUndoStep
  <2> QED
    BY <2>2
<1>6. CASE NoBlock
  <2>1. BeginUndo /\ step = "block" /\ headers' = Rewound
    BY <1>6 DEF NoBlock
  <2>2. IInv(a, m)'
    BY <2>1, BeginUndoStep
  <2> QED
    BY <2>2
<1>7. CASE Throw
  <2>1. BeginUndo /\ step = "fill" /\ UNCHANGED headers
    BY <1>7 DEF Throw
  <2>2. IInv(a, m)'
    BY <2>1, BeginUndoStep
  <2> QED
    BY <2>2
<1>8. CASE UndoOne
  BY <1>8, UndoOneStep
<1>9. CASE EndUndo
  BY <1>9, EndUndoStep
<1>10. CASE Allocated
  BY <1>10, AllocatedStep
<1>11. CASE Fill
  BY <1>11, FillStep
<1>12. CASE Publish
  BY <1>12, PublishStep
<1>13. ASSUME NEW c \in Consumers, Consume(c) PROVE \E b, l : IInv(b, l)'
  <2>1. CASE Dequeue(c)
    BY <2>1, DequeueStep
  <2>2. CASE LoadIndex(c)
    BY <2>2, LoadIndexStep
  <2>3. CASE LoadTail(c)
    BY <2>3, LoadTailStep
  <2>4. CASE Locate(c)
    BY <2>4, LocateStep
  <2>5. CASE Read(c)
    BY <2>5, ReadStep
  <2>6. CASE Mark(c)
    BY <2>6, MarkStep
  <2>7. CASE Remove(c)
    BY <2>7, RemoveStep
  <2>8. CASE FreeBlock(c)
    BY <2>8, FreeBlockStep
  <2> QED
    BY <1>13, <2>1, <2>2, <2>3, <2>4, <2>5, <2>6, <2>7, <2>8 DEF Consume
<1>14. CASE UNCHANGED vars
  BY <1>14, StutterStep
<1> QED
  BY <1>1, <1>2, <1>3, <1>4, <1>5, <1>6, <1>7, <1>8, <1>9, <1>10, <1>11, <1>12, <1>13, <1>14
  DEF Next, Produce

(***************************************************************************)
(* What it implies.                                                        *)
(***************************************************************************)
LEMMA Finds ==
    ASSUME NEW a, NEW m, IInv(a, m)
    PROVE  FindsItsItems
<1> USE DEF IInv
<1> SUFFICES ASSUME NEW c \in Consumers, where[c] = "read"
             PROVE  /\ BlockToRead(c) \in Blocks \ free
                    /\ \A i \in Batch(c) : content[BlockToRead(c)][i % BLOCK_SIZE] = i
  BY DEF FindsItsItems
<1>1. PICK k : k = At(c)
  OBVIOUS
<1>2. BlockToRead(c) = Home(a, k) /\ k \in InUse
  BY <1>1, EntryRead DEF BlockToRead, Home
<1>3. Home(a, k) \in Blocks \ free
  BY <1>2 DEF Owned, InIndex
<1>4. ASSUME NEW i \in Batch(c) PROVE content[Home(a, k)][i % BLOCK_SIZE] = i
  <2>1. i \in Items(k)
    BY <1>1, <1>4, BatchFacts
  <2>2. i \in Untaken(c)
    BY DEF Batch, Untaken, Pending, Emptied
  <2> QED
    BY <1>2, <2>1, <2>2 DEF Filled, Present
<1> QED
  BY <1>2, <1>3, <1>4

LEMMA PresentBound ==
    ASSUME Numbers, Claimed, NEW i \in Int, Present(i)
    PROVE  i < MaxItems
<1>1. /\ tailIndex \in Nat /\ headIndex \in Nat /\ headIndex <= tailIndex /\ count \in Nat
      /\ tailIndex + count <= MaxItems /\ MaxItems \in Nat
  BY BlockAssumption DEF Numbers
<1>2. Written \in Nat /\ Written <= MaxItems
  BY <1>1 DEF Written
<1>3. CASE i \in headIndex..(Written - 1)
  BY <1>1, <1>2, <1>3
<1>4. ASSUME NEW c \in Consumers, i \in Untaken(c) PROVE i < MaxItems
  <2>1. i \in index[c]..(end[c] - 1)
    BY <1>4 DEF Untaken, Pending
  <2>2. i < headIndex
    BY <2>1, ClaimFacts
  <2> QED
    BY <1>1, <2>2
<1> QED
  BY <1>3, <1>4 DEF Present

LEMMA Types ==
    ASSUME NEW a, NEW m, IInv(a, m)
    PROVE  TypeOK
<1> USE DEF IInv
<1>1. /\ tailIndex \in Nat /\ headIndex \in Nat /\ headIndex <= tailIndex
      /\ tailIndex <= MaxItems /\ MaxItems \in Nat
  BY BlockAssumption DEF Numbers
<1>2. index \in [Consumers -> 0..MaxItems] /\ end \in [Consumers -> 0..MaxItems]
  <2>1. index \in [Consumers -> Nat] /\ end \in [Consumers -> Nat]
    BY DEF Claimed
  <2>2. ASSUME NEW c \in Consumers PROVE index[c] \in 0..MaxItems /\ end[c] \in 0..MaxItems
    <3>1. index[c] \in Nat /\ end[c] \in Nat
      BY <2>1
    <3>2. CASE where[c] = "none"
      <4>1. index[c] = 0 /\ end[c] = 0
        BY <3>2 DEF Claimed
      <4> QED
        BY <1>1, <4>1
    <3>3. CASE where[c] # "none"
      <4>1. index[c] < end[c] /\ end[c] <= headIndex
        BY <3>3, PendingFacts
      <4> QED
        BY <1>1, <3>1, <4>1
    <3> QED
      BY <3>2, <3>3
  <2> QED
    BY <2>1, <2>2
<1>3. content \in [Blocks -> [Offsets -> -1..(MaxItems - 1)]]
  <2>1. content \in [Blocks -> [Offsets -> Int]]
    BY DEF Filled
  <2>2. ASSUME NEW b \in Blocks, NEW o \in Offsets PROVE content[b][o] \in -1..(MaxItems - 1)
    <3>1. CASE b \in InIndex(a)
      <4>1. PICK k \in InUse : b = Home(a, k)
        BY <3>1 DEF InIndex
      <4>2. k \in Nat
        BY NumberFacts
      <4>3. PICK i : i = k * BLOCK_SIZE + o
        OBVIOUS
      <4>4. i \in Items(k) /\ i % BLOCK_SIZE = o /\ i \in Nat
        BY <4>2, <4>3, ItemAt, ItemsTyped
      <4>5. content[b][o] = IF Present(i) THEN i ELSE Nothing
        BY <4>1, <4>4 DEF Filled
      <4>6. Present(i) => i < MaxItems
        BY <4>4, PresentBound
      <4> QED
        BY <1>1, <4>4, <4>5, <4>6 DEF Nothing
    <3>2. CASE b \notin InIndex(a)
      <4>1. content[b][o] = -1
        BY <3>2 DEF Filled, Nothing
      <4> QED
        BY <1>1, <4>1
    <3> QED
      BY <3>1, <3>2
  <2>3. ASSUME NEW b \in Blocks PROVE content[b] \in [Offsets -> -1..(MaxItems - 1)]
    BY <2>1, <2>2
  <2> QED
    BY <2>1, <2>3
<1>4. SubTypeOK
  BY <1>1, <1>2, <1>3 DEF SubTypeOK, Chained
<1>5. DOMAIN value = Entries /\ \A e \in Entries : value[e] \in Blocks \union {Null}
  BY HeaderFacts DEF Headers
<1>6. current.tail \in 0..(current.capacity - 1)
  BY HeaderFacts
<1> QED
  BY <1>4, <1>5, <1>6 DEF TypeOK, Numbers, Owned, Filled, Claimed

LEMMA Fills ==
    ASSUME NEW a, NEW m, IInv(a, m)
    PROVE  FillsOwnBlocks
<1> USE DEF IInv
<1> SUFFICES ASSUME step = "fill", NEW i \in NewItems
             PROVE  Target(i) \in Blocks \ free /\ content[Target(i)][i % BLOCK_SIZE] = Nothing
  BY DEF FillsOwnBlocks
<1>1. PICK k : k = BlockOf(i)
  OBVIOUS
<1>2. /\ i \in Int /\ k \in InUse /\ k \in Int /\ Target(i) = Home(a, k) /\ Target(i) \in Blocks
      /\ ~Present(i)
  BY <1>1, TargetIs
<1>3. i \in Items(k)
  BY <1>1, <1>2, BlockIs
<1> QED
  BY <1>2, <1>3 DEF Owned, InIndex, Filled

LEMMA Destructs ==
    ASSUME NEW a, NEW m, IInv(a, m)
    PROVE  DestructorExact
<1> USE DEF IInv
<1> SUFFICES ASSUME AtRest PROVE Destructed = Constructed /\ Freed = Blocks \ free
  BY DEF DestructorExact
<1>1. /\ step = "idle" /\ Last \in Int /\ -1 <= Last /\ Added = 0 /\ Removed = 0 /\ AtTail = Last
      /\ Written = tailIndex /\ Unlinked = {}
  <2>1. step = "idle" /\ Added = 0 /\ Removed = 0
    BY DEF AtRest, Added, Removed
  <2>2. Written = tailIndex
    BY <2>1 DEF Written, Numbers
  <2>3. Last \in Int /\ -1 <= Last /\ AtTail = Last
    BY <2>1, NumberFacts
  <2>4. 1..0 = {}
    OBVIOUS
  <2> QED
    BY <2>1, <2>2, <2>3, <2>4 DEF Unlinked
<1>2. \A c \in Consumers : Pending(c) = {} /\ Untaken(c) = {} /\ HeldBy(c) = {} /\ where[c] = "none"
  <2> TAKE c \in Consumers
  <2>1. where[c] = "none" /\ index[c] = 0 /\ end[c] = 0
    BY DEF AtRest, Claimed
  <2>2. 0..(0 - 1) = {}
    OBVIOUS
  <2> QED
    BY <2>1, <2>2 DEF Pending, Untaken, HeldBy
<1>3. tailIndex \in Nat /\ headIndex \in Nat /\ headIndex <= tailIndex /\ Left = headIndex..(tailIndex - 1)
  BY DEF Numbers, Left
<1>4. /\ \A i : Present(i) <=> i \in Left
      /\ \A i : Unread(i) <=> i >= headIndex
  BY <1>1, <1>2, <1>3 DEF Present, Unread
<1>5. \A k : k \in InUse <=> k \in 0..Last /\ \E i \in Items(k) : i >= headIndex
  <2>1. \A k : Needed(k) <=> \E i \in Items(k) : i >= headIndex
    BY <1>2, <1>4 DEF Needed, UnreadOf
  <2>2. 0..(Last + 0) = 0..Last
    BY <1>1
  <2>3. \A k \in 0..Last : k <= Last
    BY <1>1
  <2> QED
    BY <1>1, <2>1, <2>2, <2>3 DEF InUse
\* The items left are where the index says.
<1>6. ASSUME NEW i \in Left
      PROVE  /\ i \in Nat /\ BlockOf(i) \in InUse /\ BlockOf(i) \in Nat /\ i \in Items(BlockOf(i))
             /\ BlockAt(i) = Home(a, BlockOf(i))
  <2>1. PICK k : k = BlockOf(i)
    OBVIOUS
  <2>2. i \in Nat /\ headIndex <= i /\ i <= tailIndex - 1 /\ tailIndex - 1 \in Int
    BY <1>3
  <2>3. k \in Nat /\ k <= Last /\ i \in Items(k)
    BY <2>1, <2>2, BlockMono, BlockNat, BlockIs DEF Last
  <2>4. k \in InUse
    BY <1>1, <1>3, <1>5, <2>2, <2>3
  <2>5. TailAt(a, Last) /\ key[Entry(a, Last)] = Last * BLOCK_SIZE
    <3>1. m[Len(headers)] \in Int /\ Last <= m[Len(headers)]
      BY <1>1, HeaderFacts DEF Rings, CurrentRing
    <3>2. Last \in 0..m[Len(headers)]
      BY <1>1, <2>3, <3>1
    <3>3. Since(Last)
      BY <1>1, <2>3, <2>4 DEF Since, InUse
    <3> QED
      BY <1>1, <3>2, <3>3 DEF Rings, CurrentRing, TailAt
  <2>6. PICK t, d, z : t = key[current.index[current.tail]] /\ d = k - Last /\ z = 0
    OBVIOUS
  <2>7. BlockOf(t) = Last
    <3>1. Last = Last + z /\ z \in Int
      BY <1>1, <2>6
    <3>2. current.index[Place(z)] = Entry(a, Last) /\ Place(z) = (Last + a[Len(headers)]) % current.capacity
      BY <1>1, <2>5, <3>1, FromTail
    <3>3. current.tail = Place(z)
      BY <2>5, <3>2 DEF TailAt
    <3>4. t = Last * BLOCK_SIZE
      BY <2>5, <2>6, <3>2, <3>3
    <3> QED
      BY <1>1, <3>4, BlockFirst
  <2>8. EntryOf(i) = Entry(a, k)
    <3>1. d \in Int /\ k \in Int /\ k = Last + d
      BY <1>1, <2>3, <2>6
    <3>2. current.index[Place(d)] = Entry(a, k)
      BY <1>1, <2>5, <3>1, FromTail
    <3>3. current.tail \in Int
      BY HeaderFacts
    <3>4. current.tail + k - Last = current.tail + d
      BY <1>1, <2>3, <2>6, <3>3
    <3>5. EntryOf(i) = current.index[(current.tail + k - Last) % current.capacity]
      BY <2>1, <2>6, <2>7 DEF EntryOf
    <3> QED
      BY <3>2, <3>4, <3>5 DEF Place
  <2> QED
    BY <2>1, <2>2, <2>3, <2>4, <2>8 DEF BlockAt, Home
<1>7. Destructed = Constructed
  <2>1. ASSUME NEW i \in Left PROVE <<BlockAt(i), i % BLOCK_SIZE>> \in Constructed
    <3>1. PICK k : k = BlockOf(i)
      OBVIOUS
    <3>2. i \in Nat /\ k \in InUse /\ k \in Nat /\ i \in Items(k) /\ BlockAt(i) = Home(a, k)
      BY <1>6, <3>1
    <3>3. Home(a, k) \in Blocks /\ i % BLOCK_SIZE \in Offsets
      BY <3>2, ItemsTyped DEF Owned
    <3>4. content[Home(a, k)][i % BLOCK_SIZE] = i
      BY <1>4, <3>2 DEF Filled
    <3>5. i # Nothing
      BY <3>2 DEF Nothing
    <3> QED
      BY <3>2, <3>3, <3>4, <3>5 DEF Constructed
  <2>2. ASSUME NEW b \in Blocks, NEW o \in Offsets, content[b][o] # Nothing
        PROVE  \E i \in Left : <<b, o>> = <<BlockAt(i), i % BLOCK_SIZE>>
    <3>1. b \in InIndex(a)
      BY <2>2 DEF Filled
    <3>2. PICK k \in InUse : b = Home(a, k)
      BY <3>1 DEF InIndex
    <3>3. k \in Int
      BY NumberFacts
    <3>4. PICK i : i = k * BLOCK_SIZE + o
      OBVIOUS
    <3>5. i \in Items(k) /\ i % BLOCK_SIZE = o /\ BlockOf(i) = k
      BY <3>3, <3>4, ItemAt, ItemsTyped
    <3>6. i \in Left
      BY <1>4, <2>2, <3>2, <3>5 DEF Filled
    <3>7. BlockAt(i) = b
      BY <1>6, <3>2, <3>5, <3>6
    <3> QED
      BY <3>5, <3>6, <3>7
  <2>3. Destructed \subseteq Constructed
    BY <2>1 DEF Destructed
  <2>4. Constructed \subseteq Destructed
    <3>1. ASSUME NEW p \in Constructed PROVE p \in Destructed
      <4>1. PICK b \in Blocks, o \in Offsets : p = <<b, o>> /\ content[b][o] # Nothing
        BY <3>1 DEF Constructed
      <4> QED
        BY <2>2, <4>1 DEF Destructed
    <3> QED
      BY <3>1
  <2> QED
    BY <2>3, <2>4
\* The blocks it frees are those in use.
<1>8. Blocks \ free = InIndex(a)
  <2>1. UNION {HeldBy(c) : c \in Consumers} = {}
    BY <1>2
  <2> QED
    BY <1>1, <2>1 DEF Owned
<1>9. Last \in InUse <=> Left # {} \/ tailIndex % BLOCK_SIZE # 0
  <2>1. PICK t : t = tailIndex
    OBVIOUS
  <2>2. t - 1 \in Int /\ t \in Nat /\ Last = BlockOf(t - 1) /\ t - 1 \in Items(Last)
    BY <1>1, <1>3, <2>1, BlockIs DEF Last
  <2>3. ASSUME Left # {} PROVE Last \in InUse
    <3>1. t - 1 \in Left
      BY <1>3, <2>1, <2>3
    <3> QED
      BY <1>6, <2>2, <3>1
  <2>4. PICK f : f = Last * BLOCK_SIZE
    OBVIOUS
  <2>5. f \in Int /\ Items(Last) = f..(f + BLOCK_SIZE - 1) /\ f <= t - 1 /\ t - 1 <= f + BLOCK_SIZE - 1
    <3>1. f \in Int /\ Items(Last) = f..(f + BLOCK_SIZE - 1)
      BY <1>1, <2>4, BlockFirst DEF Items
    <3> QED
      BY <2>2, <3>1, BlockSize
  <2>6. t % BLOCK_SIZE = 0 <=> t = f + BLOCK_SIZE
    <3>1. ASSUME t = f + BLOCK_SIZE PROVE t % BLOCK_SIZE = 0
      <4>1. PICK l, o : l = Last + 1 /\ o = 0
        OBVIOUS
      <4>2. l \in Int /\ o \in Offsets /\ t = l * BLOCK_SIZE + o
        BY <1>1, <2>4, <3>1, <4>1, BlockFirst, BlockSize DEF Offsets
      <4> QED
        BY <4>1, <4>2, ItemAt
    <3>2. ASSUME t # f + BLOCK_SIZE PROVE t % BLOCK_SIZE # 0
      <4>1. t \in Items(Last)
        BY <2>2, <2>5, <3>2, BlockSize
      <4>2. t = f + (t % BLOCK_SIZE) /\ t % BLOCK_SIZE \in Offsets
        BY <1>1, <2>4, <4>1, ItemsTyped
      <4> QED
        BY <2>2, <2>5, <4>2
    <3> QED
      BY <3>1, <3>2
  <2>7. ASSUME t % BLOCK_SIZE # 0, Left = {} PROVE Last \in InUse
    <3>1. headIndex = t
      BY <1>3, <2>1, <2>7
    <3>2. t \in Items(Last) /\ t >= headIndex
      BY <2>2, <2>5, <2>6, <2>7, <3>1, BlockSize
    <3>3. 0 <= Last
      <4>1. t # 0
        <5>1. 0 % BLOCK_SIZE = 0
          BY BlockSize
        <5> QED
          BY <2>7, <5>1
      <4>2. t - 1 \in Nat
        BY <2>2, <4>1
      <4> QED
        BY <2>2, <4>2, BlockNat
    <3> QED
      BY <1>1, <1>5, <3>2, <3>3
  <2>8. ASSUME t % BLOCK_SIZE = 0, Left = {} PROVE Last \notin InUse
    <3>1. headIndex = t /\ t = f + BLOCK_SIZE
      BY <1>3, <2>1, <2>6, <2>8
    <3>2. \A i \in Items(Last) : ~(i >= headIndex)
      BY <2>2, <2>5, <3>1, BlockSize
    <3> QED
      BY <1>5, <3>2
  <2> QED
    BY <2>1, <2>3, <2>7, <2>8
<1>10. TailFreed = {Home(a, k) : k \in InUse \cap {Last}}
  <2>1. CASE Last \in InUse
    <3>1. Home(a, Last) = tailBlock /\ tailBlock \in Blocks
      BY <1>1, <2>1 DEF Chained, Owned
    <3>2. tailBlock # Null
      BY <3>1 DEF Blocks, Null
    <3>3. TailFreed = {tailBlock}
      BY <1>9, <2>1, <3>2 DEF TailFreed
    <3> QED
      BY <2>1, <3>1, <3>3
  <2>2. CASE Last \notin InUse
    BY <1>9, <2>2 DEF TailFreed
  <2> QED
    BY <2>1, <2>2
<1>11. LeftBehind = {Home(a, k) : k \in InUse \ {Last}}
  <2>1. ASSUME NEW k \in InUse, k # Last PROVE \E i \in Left : BlockOf(i) = k
    <3>1. PICK i \in Items(k) : i >= headIndex
      BY <1>5
    <3>2. k \in Int /\ k <= Last
      BY <1>1, <1>5
    <3>3. i \in Int /\ BlockOf(i) = k
      BY <3>2, ItemsTyped
    <3>4. ASSUME tailIndex - 1 <= i PROVE FALSE
      <4>1. tailIndex - 1 \in Int
        BY <1>3
      <4>2. Last <= k
        BY <3>3, <3>4, <4>1, BlockMono DEF Last
      <4> QED
        BY <1>1, <2>1, <3>2, <4>2
    <3>5. i \in Left
      BY <1>3, <3>1, <3>3, <3>4
    <3> QED
      BY <3>3, <3>5
  <2>2. LeftBehind = {Home(a, BlockOf(i)) : i \in {i \in Left : BlockOf(i) # Last}}
    BY <1>6 DEF LeftBehind, Last
  <2>3. ASSUME NEW k \in InUse \ {Last} PROVE Home(a, k) \in LeftBehind
    BY <2>1, <2>2
  <2>4. ASSUME NEW i \in Left, BlockOf(i) # Last PROVE BlockOf(i) \in InUse \ {Last}
    BY <1>6, <2>4
  <2> QED
    BY <2>2, <2>3, <2>4
<1>12. Freed = InIndex(a)
  BY <1>10, <1>11 DEF Freed, InIndex
<1> QED
  BY <1>7, <1>8, <1>12

\* The invariant, for some places and some tails.
Indexed == \E a, m : IInv(a, m)

\* It holds of every state the producer and the consumers bring the queue to.
LEMMA Inductive == Spec => []Indexed
<1>1. Init => Indexed
  BY InitStep DEF Indexed
<1>2. Indexed /\ [Next]_vars => Indexed'
  <2> SUFFICES ASSUME NEW a, NEW m, IInv(a, m), [Next]_vars PROVE Indexed'
    BY DEF Indexed
  <2>1. \E b, n : IInv(b, n)'
    BY NextStep
  <2> QED
    BY <2>1 DEF Indexed
<1> QED
  BY <1>1, <1>2, PTL DEF Spec

\* A consumer that has claimed items finds, in the index it loaded, the block that holds
\* them, although the producer rewinds, overwrites and replaces the index meanwhile and
\* other consumers empty its entries (get_block_index_index_for_index).
THEOREM ImplicitFindsItsItems == Spec => []FindsItsItems
<1>1. Indexed => FindsItsItems
  BY Finds DEF Indexed
<1> QED
  BY <1>1, Inductive, PTL

\* No slot in use is overwritten, no call that fails or throws loses a block or leaves an
\* item half made, and the destructor destroys exactly the items that are left and frees
\* each block in use once.
THEOREM ImplicitInvariant == Spec => []ImplicitInv
<1>1. Indexed => ImplicitInv
  BY Types, Fills, Destructs DEF Indexed, ImplicitInv
<1> QED
  BY <1>1, Inductive, PTL
================================================================================
