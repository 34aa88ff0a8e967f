----------------------------- MODULE ProducerProofs ----------------------------
(***************************************************************************)
(* Who enqueues where, proved for every set of threads and tokens, every   *)
(* hash of the threads' ids and any number of producers and tables: a      *)
(* producer has one owner, a thread is found again, and nothing dangles.   *)
(***************************************************************************)
EXTENDS Producers, FiniteSetTheorems, SequenceTheorems, TLAPS

Labels == {"idle", "readd", "count", "insert", "resize", "unlock", "check", "recycle",
           "subscribe", "add", "uncount", "exit", "drop"}
Calls == [at : Labels, mainHash : Nat, newCount : Int, index : Nat, ptr : Nat]
Records == [isExplicit : BOOLEAN, inactive : BOOLEAN,
            token : Tokens \union {Nobody}, listener : BOOLEAN]

\* The entries of a table and the tables.
Entries == {Empty, Reusable} \union [key : Ids, value : 1..MaxProducers]
Tables == UNION {[0..(size - 1) -> Entries] : size \in Nat \ {0}}

(***************************************************************************)
(* The invariant.                                                          *)
(***************************************************************************)

Types ==
    /\ tables \in Seq(Tables)
    /\ hashCount \in Int
    /\ resizing \in BOOLEAN /\ queue \in BOOLEAN
    /\ list \in Seq(Records) /\ Len(list) <= MaxProducers
    /\ notifier \in Ids \union {Nobody}
    /\ producer \in [Actors -> 0..Len(list)]
    /\ call \in [Actors -> Calls]

\* The queue is used while it is there, and has a table then.
Alive ==
    /\ queue => tables # <<>>
    /\ ~queue => tables = <<>> /\ list = <<>>
    /\ \A a \in Actors : call[a].at # "idle" => queue

\* Where an actor is says whether it has a producer, and its pointers lead to tables
\* and producers that exist.
Local(a) ==
    /\ call[a].at \in {"count", "insert", "resize", "unlock", "check", "recycle"}
          => producer[a] = NoProducer
    /\ call[a].at \in {"readd", "subscribe", "add", "uncount", "exit", "drop"}
          => producer[a] # NoProducer
    /\ call[a].at \notin {"readd", "add", "uncount"} => call[a].index = 0
    /\ call[a].at = "recycle" => call[a].ptr <= Len(list)
    /\ call[a].at = "exit" => call[a].ptr <= Len(tables)
    /\ a \in Tokens => call[a].at \in {"idle", "recycle", "drop"}
    /\ a \in Ids => call[a].at # "drop"
    /\ a \in Ids /\ call[a].at \notin {"idle", "exit"} => call[a].mainHash \in DOMAIN tables
Locals == \A a \in Actors : Local(a)

\* A producer in use has one owner, of its kind, which it knows: the back pointer of a
\* token that is not being destroyed, the listener of a thread that subscribed it.
Owners ==
    /\ \A a \in Actors : producer[a] # NoProducer =>
          /\ ~list[producer[a]].inactive
          /\ list[producer[a]].isExplicit = IsExplicit(a)
          /\ a \in Ids /\ call[a].at # "subscribe" => list[producer[a]].listener
          /\ a \in Tokens /\ call[a].at = "idle" => list[producer[a]].token = a
    /\ \A a, b \in Actors : producer[a] = producer[b] /\ producer[a] # NoProducer => a = b
    /\ \A p \in DOMAIN list : ~list[p].inactive => \E a \in Actors : producer[a] = p

\* The first k entries a probe for thread i meets in table n are not empty.
Passed(n, i, k) == \A j \in 0..(k - 1) : tables[n][Slot(n, i, j)] # Empty

\* A probe for thread i comes to slot s of table n: it meets no empty entry before.
Probed(n, i, s) ==
    \E k \in 0..(Capacity(n) - 1) : Slot(n, i, k) = s /\ Passed(n, i, k)

\* The entries of a thread have its producer, and its probe comes to them.
Placed(i) ==
    \A n \in DOMAIN tables : \A s \in SlotsOf(n, i) :
        tables[n][s].value = producer[i] /\ Probed(n, i, s)

\* A thread with a producer has an entry, from the moment it is added until it exits.
Present(i) ==
    producer[i] # NoProducer /\ call[i].at \in {"idle", "readd", "uncount"}
        => \E n \in DOMAIN tables : SlotsOf(n, i) # {}

\* The tables an exiting thread has been through have no entry of it.
Leaving(i) ==
    call[i].at = "exit"
        => \A n \in DOMAIN tables : call[i].ptr < n => SlotsOf(n, i) = {}

\* The entries a thread has passed while it looks for a free one are not empty.
Probing(i) ==
    call[i].at \in {"readd", "add"} => Passed(call[i].mainHash, i, call[i].index)

Entered(i) == Placed(i) /\ Present(i) /\ Leaving(i) /\ Probing(i)
AllEntered == \A i \in Ids : Entered(i)

\* Who has counted an entry that it may have to uncount.
Counting ==
    {i \in Ids : call[i].at \in {"insert", "resize", "unlock", "check", "recycle",
                                 "subscribe", "add", "uncount"}}
Counted == hashCount >= Cardinality(Counting)

Inv == Types /\ Alive /\ Locals /\ Owners /\ AllEntered /\ Counted

--------------------------------------------------------------------------------
(* Tables.                                                                     *)

LEMMA ActorsApart == \A i \in Ids : i \notin Tokens /\ i \in Actors /\ ~IsExplicit(i)
  BY ProducersAssumption DEF Actors, IsExplicit

\* A table's slots are the numbers below its capacity.
LEMMA TableSlots ==
    ASSUME tables \in Seq(Tables), NEW n \in DOMAIN tables
    PROVE  /\ Capacity(n) \in Nat \ {0}
           /\ DOMAIN tables[n] = 0..(Capacity(n) - 1)
           /\ tables[n] \in [0..(Capacity(n) - 1) -> Entries]
<1>1. tables[n] \in Tables
  OBVIOUS
<1>2. PICK size \in Nat \ {0} : tables[n] \in [0..(size - 1) -> Entries]
  BY <1>1 DEF Tables
<1>3. Cardinality(0..(size - 1)) = size
  BY <1>2, FS_Interval
<1>4. Capacity(n) = size
  BY <1>2, <1>3 DEF Capacity
<1> QED
  BY <1>2, <1>4

LEMMA TableSlotsPrimed ==
    ASSUME tables' \in Seq(Tables), NEW n \in DOMAIN tables'
    PROVE  /\ Capacity(n)' \in Nat \ {0}
           /\ DOMAIN tables'[n] = 0..(Capacity(n)' - 1)
           /\ tables'[n] \in [0..(Capacity(n)' - 1) -> Entries]
<1>1. tables'[n] \in Tables
  OBVIOUS
<1>2. PICK size \in Nat \ {0} : tables'[n] \in [0..(size - 1) -> Entries]
  BY <1>1 DEF Tables
<1>3. Cardinality(0..(size - 1)) = size
  BY <1>2, FS_Interval
<1>4. Capacity(n)' = size
  BY <1>2, <1>3 DEF Capacity
<1> QED
  BY <1>2, <1>4

\* Remainders, as a probe takes them.
LEMMA Remainder ==
    ASSUME NEW c \in Nat \ {0}, NEW x \in Nat
    PROVE  x % c \in 0..(c - 1) /\ (x % c) <= x /\ x \div c \in Nat
           /\ x = c * (x \div c) + (x % c)
  OBVIOUS
LEMMA Periodic ==
    ASSUME NEW c \in Nat \ {0}, NEW x \in Nat, NEW y \in Nat
    PROVE  (x + (y % c)) % c = (x + y) % c
<1> DEFINE r == y % c  q == y \div c
<1>1. r \in 0..(c - 1) /\ q \in Nat /\ y = c * q + r
  BY Remainder
<1> HIDE DEF r, q
<1>2. x + r \in Nat /\ x + y \in Nat
  BY <1>1
<1> DEFINE u == (x + r) % c  p == (x + r) \div c
           v == (x + y) % c  o == (x + y) \div c
<1>3. u \in 0..(c - 1) /\ p \in Nat /\ x + r = c * p + u
  BY <1>2, Remainder
<1>4. v \in 0..(c - 1) /\ o \in Nat /\ x + y = c * o + v
  BY <1>2, Remainder
<1> HIDE DEF u, p, v, o
<1>5. PICK m \in Nat : m = p + q
  BY <1>1, <1>3
<1>6. c * m = c * p + c * q
  BY <1>1, <1>3, <1>5
<1>7. c * m + u = c * o + v
  BY <1>1, <1>3, <1>4, <1>6
<1>8. ASSUME NEW a \in Nat, NEW b \in Nat, a < b PROVE c * a + c <= c * b
  <2>1. a + 1 <= b
    BY <1>8
  <2>2. c * (a + 1) <= c * b
    BY <2>1
  <2> QED
    BY <2>2
<1>9. u = v
  <2>1. ~(m < o)
    BY <1>3, <1>4, <1>7, <1>8
  <2>2. ~(o < m)
    BY <1>3, <1>4, <1>7, <1>8
  <2>3. m = o
    BY <1>4, <1>5, <2>1, <2>2
  <2> QED
    BY <1>3, <1>4, <1>7, <2>3
<1> QED
  BY <1>9 DEF u, v, r

\* A probe stays in its table, and repeats after as many entries as that has.
LEMMA SlotInTable ==
    ASSUME tables \in Seq(Tables), NEW n \in DOMAIN tables, NEW i \in Ids, NEW k \in Nat
    PROVE  /\ Slot(n, i, k) \in DOMAIN tables[n]
           /\ (k % Capacity(n)) \in 0..(Capacity(n) - 1) /\ (k % Capacity(n)) <= k
           /\ Slot(n, i, k % Capacity(n)) = Slot(n, i, k)
<1>1. PICK c \in Nat \ {0} : c = Capacity(n) /\ DOMAIN tables[n] = 0..(c - 1)
  BY TableSlots
<1>2. PICK h \in Nat : h = Home[i]
  BY ProducersAssumption
<1>3. h + k \in Nat
  OBVIOUS
<1>4. ((h + k) % c) \in 0..(c - 1) /\ (k % c) \in 0..(c - 1) /\ (k % c) <= k
  BY <1>3, Remainder
<1>5. (h + (k % c)) % c = (h + k) % c
  BY Periodic
<1> QED
  BY <1>1, <1>2, <1>4, <1>5 DEF Slot

LEMMA EntryKinds ==
    /\ \A e \in Entries : Taken(e) => e \in [key : Ids, value : 1..MaxProducers]
    /\ \A i \in Ids, p \in 1..MaxProducers :
          [key |-> i, value |-> p] \in Entries /\ Taken([key |-> i, value |-> p])
    /\ ~Taken(Empty) /\ ~Taken(Reusable) /\ Empty # Reusable
<1>1. \A e \in [key : Ids, value : 1..MaxProducers] : e \in [key : Ids, value : Nat]
  BY ProducersAssumption
<1> QED
  BY <1>1, ProducersAssumption DEF Entries, Taken

\* A thread's entries are entries of a table, with a producer.
LEMMA SlotsInTable ==
    ASSUME tables \in Seq(Tables), NEW n \in DOMAIN tables, NEW i \in Ids, NEW s \in SlotsOf(n, i)
    PROVE  /\ s \in DOMAIN tables[n] /\ s \in 0..(Capacity(n) - 1)
           /\ tables[n][s] \in [key : Ids, value : 1..MaxProducers]
           /\ tables[n][s].key = i /\ tables[n][s].value # NoProducer
<1>1. s \in DOMAIN tables[n] /\ Taken(tables[n][s]) /\ tables[n][s].key = i
  BY DEF SlotsOf
<1>2. tables[n][s] \in Entries
  BY <1>1, TableSlots
<1>3. tables[n][s] \in [key : Ids, value : 1..MaxProducers]
  BY <1>1, <1>2, EntryKinds
<1> QED
  BY <1>1, <1>3, TableSlots, ProducersAssumption DEF NoProducer

\* The lookup finds a thread in a table exactly when it has an entry there.
LEMMA FindsEntries ==
    ASSUME tables \in Seq(Tables), NEW i \in Ids, Entered(i), NEW n \in DOMAIN tables
    PROVE  Finds(n, i) <=> SlotsOf(n, i) # {}
<1>1. ASSUME NEW s \in SlotsOf(n, i) PROVE Finds(n, i)
  BY <1>1 DEF Entered, Placed, Probed, Passed, Finds
<1> QED
  BY <1>1 DEF Finds

--------------------------------------------------------------------------------
(* What a step does to the tables.                                             *)

\* The tables stay, and an entry that is not empty never is again.
Extends ==
    /\ DOMAIN tables \subseteq DOMAIN tables'
    /\ \A n \in DOMAIN tables :
          /\ DOMAIN tables'[n] = DOMAIN tables[n]
          /\ \A s \in DOMAIN tables[n] : tables[n][s] # Empty => tables'[n][s] # Empty

\* A thread has the entries it had and no others.
Keeps(i) ==
    /\ \A n \in DOMAIN tables' : n \notin DOMAIN tables => SlotsOf(n, i)' = {}
    /\ \A n \in DOMAIN tables :
          /\ SlotsOf(n, i)' = SlotsOf(n, i)
          /\ \A s \in SlotsOf(n, i) : tables'[n][s] = tables[n][s]

LEMMA ExtendsSlots ==
    ASSUME Extends
    PROVE  \A n \in DOMAIN tables :
              /\ Capacity(n)' = Capacity(n)
              /\ \A i, k : Slot(n, i, k)' = Slot(n, i, k)
  BY DEF Extends, Capacity, Slot

LEMMA PassedStays ==
    ASSUME tables \in Seq(Tables), Extends, NEW n \in DOMAIN tables, NEW i \in Ids,
           NEW k \in Nat, Passed(n, i, k)
    PROVE  Passed(n, i, k)'
<1> SUFFICES ASSUME NEW j \in 0..(k - 1)
             PROVE  tables'[n][Slot(n, i, j)'] # Empty
  BY DEF Passed
<1>1. tables[n][Slot(n, i, j)] # Empty
  BY DEF Passed
<1>2. Slot(n, i, j) \in DOMAIN tables[n] /\ Slot(n, i, j)' = Slot(n, i, j)
  BY SlotInTable, ExtendsSlots
<1> QED
  BY <1>1, <1>2 DEF Extends

LEMMA ProbedStays ==
    ASSUME tables \in Seq(Tables), Extends, NEW n \in DOMAIN tables, NEW i \in Ids, NEW s,
           Probed(n, i, s)
    PROVE  Probed(n, i, s)'
<1>1. Capacity(n) \in Nat \ {0} /\ Capacity(n)' = Capacity(n)
  BY TableSlots, ExtendsSlots
<1>2. PICK k \in 0..(Capacity(n) - 1) : Slot(n, i, k) = s /\ Passed(n, i, k)
  BY DEF Probed
<1>3. Slot(n, i, k)' = s /\ Passed(n, i, k)'
  BY <1>1, <1>2, PassedStays, ExtendsSlots
<1> QED
  BY <1>1, <1>3 DEF Probed

\* A thread that does not act stays as it was with its entries.
LEMMA EnteredStays ==
    ASSUME tables \in Seq(Tables), NEW i \in Ids, Entered(i), Local(i), Extends, Keeps(i),
           call'[i] = call[i], producer'[i] = producer[i], call[i].index \in Nat
    PROVE  Entered(i)'
<1>1. Placed(i)'
  <2>1. ASSUME NEW n \in DOMAIN tables', NEW s \in SlotsOf(n, i)'
        PROVE  tables'[n][s].value = producer'[i] /\ Probed(n, i, s)'
    <3>1. n \in DOMAIN tables /\ s \in SlotsOf(n, i)
      BY <2>1 DEF Keeps
    <3>2. tables[n][s].value = producer[i] /\ Probed(n, i, s) /\ tables'[n][s] = tables[n][s]
      BY <3>1 DEF Entered, Placed, Keeps
    <3> QED
      BY <3>1, <3>2, ProbedStays
  <2> QED
    BY <2>1 DEF Placed
<1>2. Present(i)'
  BY DEF Entered, Present, Keeps, Extends
<1>3. Leaving(i)'
  BY DEF Entered, Leaving, Keeps
<1>4. Probing(i)'
  <2> SUFFICES ASSUME call[i].at \in {"readd", "add"} PROVE Probing(i)'
    BY DEF Probing
  <2>1. PICK n \in DOMAIN tables : n = call[i].mainHash
    BY DEF Local
  <2>2. Passed(n, i, call[i].index)'
    <3>1. PICK k \in Nat : k = call[i].index
      OBVIOUS
    <3>2. Passed(n, i, k)
      BY <2>1, <3>1 DEF Entered, Probing
    <3>3. Passed(n, i, k)' /\ call'[i].index = k
      BY <3>1, <3>2, PassedStays
    <3> QED
      BY <3>3
  <2>3. call'[i].mainHash = n
    BY <2>1
  <2> QED
    BY <2>2, <2>3 DEF Probing
<1> QED
  BY <1>1, <1>2, <1>3, <1>4 DEF Entered

LEMMA SameTables ==
    ASSUME UNCHANGED tables
    PROVE  Extends /\ \A i : Keeps(i)
  BY DEF Extends, Keeps, SlotsOf

\* A table that is added is empty.
LEMMA AppendTable ==
    ASSUME tables \in Seq(Tables), NEW size \in Nat \ {0}, tables' = Append(tables, Table(size))
    PROVE  /\ tables' \in Seq(Tables) /\ Len(tables') = Len(tables) + 1
           /\ Extends /\ \A i : Keeps(i)
<1>1. Table(size) \in [0..(size - 1) -> Entries]
  BY DEF Table, Entries
<1>2. Table(size) \in Tables
  BY <1>1 DEF Tables
<1>3. /\ tables' \in Seq(Tables) /\ Len(tables') = Len(tables) + 1
      /\ \A n \in DOMAIN tables : n \in DOMAIN tables' /\ tables'[n] = tables[n]
      /\ \A n \in DOMAIN tables' : n \notin DOMAIN tables => tables'[n] = Table(size)
  BY <1>2
<1>4. Extends
  BY <1>3 DEF Extends
<1>5. \A i : Keeps(i)
  BY <1>3, EntryKinds DEF Keeps, SlotsOf, Table
<1> QED
  BY <1>3, <1>4, <1>5

LEMMA ReplaceTable ==
    ASSUME NEW before \in Seq(Tables), NEW n \in DOMAIN before, NEW table \in Tables, NEW after,
           after = [before EXCEPT ![n] = table]
    PROVE  /\ after \in Seq(Tables) /\ DOMAIN after = DOMAIN before
           /\ \A m \in DOMAIN before \ {n} : after[m] = before[m]
           /\ after[n] = table
  OBVIOUS

\* A free entry is taken.
Enters(n, s, i, p) == tables' = [tables EXCEPT ![n][s] = [key |-> i, value |-> p]]
LEMMA WriteTable ==
    ASSUME tables \in Seq(Tables), NEW n \in DOMAIN tables, NEW s \in DOMAIN tables[n],
           ~Taken(tables[n][s]), NEW i \in Ids, NEW p \in 1..MaxProducers,
           Enters(n, s, i, p)
    PROVE  /\ tables' \in Seq(Tables) /\ DOMAIN tables' = DOMAIN tables
           /\ Extends /\ \A j : j # i => Keeps(j)
           /\ SlotsOf(n, i)' = SlotsOf(n, i) \union {s}
           /\ \A m \in DOMAIN tables \ {n} : SlotsOf(m, i)' = SlotsOf(m, i)
           /\ tables'[n][s].value = p
           /\ \A m \in DOMAIN tables : \A r \in SlotsOf(m, i) : tables'[m][r] = tables[m][r]
<1> DEFINE e == [key |-> i, value |-> p]
<1>1. e \in Entries /\ Taken(e) /\ e.key = i /\ e.value = p /\ e # Empty
  BY EntryKinds
<1> HIDE DEF e
<1> DEFINE T == [tables[n] EXCEPT ![s] = e]
<1>2. tables' = [tables EXCEPT ![n] = T]
  BY DEF e, Enters
<1>3. T \in Tables
  <2>1. /\ Capacity(n) \in Nat \ {0} /\ DOMAIN tables[n] = 0..(Capacity(n) - 1)
        /\ tables[n] \in [0..(Capacity(n) - 1) -> Entries]
    BY TableSlots
  <2>2. T \in [0..(Capacity(n) - 1) -> Entries]
    BY <1>1, <2>1
  <2> QED
    BY <2>1, <2>2 DEF Tables
<1>4. /\ tables' \in Seq(Tables) /\ DOMAIN tables' = DOMAIN tables
      /\ \A m \in DOMAIN tables \ {n} : tables'[m] = tables[m]
      /\ tables'[n] = T
  <2>1. PICK table \in Tables : table = T
    BY <1>3
  <2>2. tables' = [tables EXCEPT ![n] = table]
    BY <1>2, <2>1
  <2> HIDE DEF T
  <2> QED
    BY <2>1, <2>2, ReplaceTable
<1>5. /\ DOMAIN tables'[n] = DOMAIN tables[n] /\ tables'[n][s] = e
      /\ \A r \in DOMAIN tables[n] \ {s} : tables'[n][r] = tables[n][r]
  BY <1>4
<1>6. Extends
  BY <1>1, <1>4, <1>5 DEF Extends
<1>7. \A j : j # i => Keeps(j)
  BY <1>1, <1>4, <1>5 DEF Keeps, SlotsOf
<1>8. SlotsOf(n, i)' = SlotsOf(n, i) \union {s}
  BY <1>1, <1>5 DEF SlotsOf
<1>9. /\ \A m \in DOMAIN tables \ {n} : SlotsOf(m, i)' = SlotsOf(m, i)
      /\ s \notin SlotsOf(n, i)
      /\ \A r \in SlotsOf(n, i) : r \in DOMAIN tables[n] \ {s}
  BY <1>4 DEF SlotsOf
<1>10. \A m \in DOMAIN tables : \A r \in SlotsOf(m, i) : tables'[m][r] = tables[m][r]
  BY <1>4, <1>5, <1>9
<1> QED
  BY <1>1, <1>4, <1>5, <1>6, <1>7, <1>8, <1>9, <1>10

\* An exiting thread's entries in one table are given up.
LEMMA RemoveEntries ==
    ASSUME tables \in Seq(Tables), NEW n \in DOMAIN tables, NEW i \in Ids, Entered(i),
           tables' = [tables EXCEPT ![n] = WithoutEntry(n, i)]
    PROVE  /\ tables' \in Seq(Tables) /\ DOMAIN tables' = DOMAIN tables
           /\ Extends /\ \A j : j # i => Keeps(j)
           /\ SlotsOf(n, i)' = {}
           /\ \A m \in DOMAIN tables \ {n} : SlotsOf(m, i)' = SlotsOf(m, i)
           /\ \A m \in DOMAIN tables \ {n} : tables'[m] = tables[m]
<1> DEFINE T == [s \in DOMAIN tables[n] |-> IF s \in SlotsOf(n, i) THEN Reusable ELSE tables[n][s]]
<1>1. WithoutEntry(n, i) = T
  <2>1. CASE SlotsOf(n, i) # {}
    BY <2>1, FindsEntries DEF WithoutEntry
  <2>2. CASE SlotsOf(n, i) = {}
    <3>1. WithoutEntry(n, i) = tables[n]
      BY <2>2, FindsEntries DEF WithoutEntry
    <3>2. tables[n] = [s \in DOMAIN tables[n] |-> tables[n][s]]
      BY TableSlots
    <3> QED
      BY <2>2, <3>1, <3>2
  <2> QED
    BY <2>1, <2>2
<1>2. T \in Tables
  <2>1. /\ Capacity(n) \in Nat \ {0} /\ DOMAIN tables[n] = 0..(Capacity(n) - 1)
        /\ tables[n] \in [0..(Capacity(n) - 1) -> Entries]
    BY TableSlots
  <2>2. T \in [0..(Capacity(n) - 1) -> Entries]
    BY <2>1 DEF Entries
  <2> QED
    BY <2>1, <2>2 DEF Tables
<1>3. /\ tables' \in Seq(Tables) /\ DOMAIN tables' = DOMAIN tables
      /\ \A m \in DOMAIN tables \ {n} : tables'[m] = tables[m]
      /\ tables'[n] = T
  BY <1>1, <1>2
<1>4. /\ DOMAIN tables'[n] = DOMAIN tables[n]
      /\ \A s \in SlotsOf(n, i) : tables'[n][s] = Reusable
      /\ \A s \in DOMAIN tables[n] : s \notin SlotsOf(n, i) => tables'[n][s] = tables[n][s]
  BY <1>3 DEF SlotsOf
<1>5. Extends
  BY <1>3, <1>4, EntryKinds DEF Extends
<1>6. \A j : j # i => Keeps(j)
  BY <1>3, <1>4, EntryKinds DEF Keeps, SlotsOf
<1>7. SlotsOf(n, i)' = {}
  BY <1>4, EntryKinds DEF SlotsOf
<1>8. \A m \in DOMAIN tables \ {n} : SlotsOf(m, i)' = SlotsOf(m, i)
  BY <1>3 DEF SlotsOf
<1> QED
  BY <1>3, <1>5, <1>6, <1>7, <1>8

--------------------------------------------------------------------------------
(* How a step moves the actor that takes it.                                   *)

\* The actor is somewhere else then, with these local variables.
Goes(a, at, mainHash, index, ptr) ==
    /\ call' \in [Actors -> Calls]
    /\ \A b \in Actors \ {a} : call'[b] = call[b]
    /\ call'[a].at = at /\ call'[a].mainHash = mainHash
    /\ call'[a].index = index /\ call'[a].ptr = ptr

LEMMA GotoGoes ==
    ASSUME call \in [Actors -> Calls], NEW a \in Actors, NEW to \in Labels, Goto(a, to)
    PROVE  Goes(a, to, call[a].mainHash, call[a].index, call[a].ptr)
  BY DEF Goto, Goes, Calls

LEMMA ReturnGoes ==
    ASSUME call \in [Actors -> Calls], NEW a \in Actors, Return(a)
    PROVE  Goes(a, "idle", 0, 0, 0)
  BY DEF Return, Idle, Goes, Calls, Labels

LEMMA MainHashGoes ==
    ASSUME call \in [Actors -> Calls], NEW a \in Actors, NEW to \in Labels, NEW m \in Nat,
           call' = [call EXCEPT ![a].at = to, ![a].mainHash = m]
    PROVE  Goes(a, to, m, call[a].index, call[a].ptr)
  BY DEF Goes, Calls

LEMMA PtrGoes ==
    ASSUME call \in [Actors -> Calls], NEW a \in Actors, NEW to \in Labels, NEW m \in Nat,
           call' = [call EXCEPT ![a].at = to, ![a].ptr = m]
    PROVE  Goes(a, to, call[a].mainHash, call[a].index, m)
  BY DEF Goes, Calls

LEMMA BackGoes ==
    ASSUME call \in [Actors -> Calls], NEW a \in Actors, call[a].ptr > 0,
           call' = [call EXCEPT ![a].ptr = @ - 1]
    PROVE  Goes(a, call[a].at, call[a].mainHash, call[a].index, call[a].ptr - 1)
  BY DEF Goes, Calls

LEMMA NextEntryGoes ==
    ASSUME call \in [Actors -> Calls], NEW i \in Ids, NextEntry(i)
    PROVE  Goes(i, call[i].at, call[i].mainHash, call[i].index + 1, call[i].ptr)
  BY ActorsApart DEF NextEntry, Goes, Calls

LEMMA CountGoes ==
    ASSUME call \in [Actors -> Calls], hashCount \in Int, NEW i \in Ids, CountEntry(i)
    PROVE  Goes(i, "insert", call[i].mainHash, call[i].index, call[i].ptr)
<1>1. call' = [call EXCEPT ![i].at = "insert", ![i].newCount = hashCount + 1]
  BY DEF CountEntry
<1> QED
  BY <1>1, ActorsApart DEF Goes, Calls, Labels

--------------------------------------------------------------------------------
(* What a step of one actor leaves to the others, and to itself.               *)

\* The others stay where they are, with the producers they have.
Alone(a) ==
    /\ call' \in [Actors -> Calls]
    /\ \A b \in Actors \ {a} : call'[b] = call[b] /\ producer'[b] = producer[b]

LEMMA PlacedStays ==
    ASSUME tables \in Seq(Tables), NEW i \in Ids, Placed(i), Extends, Keeps(i),
           producer'[i] = producer[i]
    PROVE  Placed(i)'
<1>1. ASSUME NEW n \in DOMAIN tables', NEW s \in SlotsOf(n, i)'
      PROVE  tables'[n][s].value = producer'[i] /\ Probed(n, i, s)'
  <2>1. n \in DOMAIN tables /\ s \in SlotsOf(n, i)
    BY <1>1 DEF Keeps
  <2>2. tables[n][s].value = producer[i] /\ Probed(n, i, s) /\ tables'[n][s] = tables[n][s]
    BY <2>1 DEF Placed, Keeps
  <2> QED
    BY <2>1, <2>2, ProbedStays
<1> QED
  BY <1>1 DEF Placed

\* A thread without a producer has no entry.
LEMMA NoEntries ==
    ASSUME tables \in Seq(Tables), NEW i \in Ids, Placed(i), producer[i] = NoProducer,
           NEW n \in DOMAIN tables
    PROVE  SlotsOf(n, i) = {}
  BY SlotsInTable DEF Placed

LEMMA OthersStay ==
    ASSUME Inv, NEW a \in Actors, Alone(a), Extends, \A j \in Ids : j # a => Keeps(j),
           tables' \in Seq(Tables), list' \in Seq(Records), Len(list) <= Len(list')
    PROVE  \A b \in Actors \ {a} : Local(b)' /\ (b \in Ids => Entered(b)')
<1> SUFFICES ASSUME NEW b \in Actors \ {a} PROVE Local(b)' /\ (b \in Ids => Entered(b)')
  OBVIOUS
<1>1. call'[b] = call[b] /\ producer'[b] = producer[b] /\ call[b] \in Calls
  BY DEF Alone, Inv, Types
<1>2. Local(b) /\ (b \in Ids => Entered(b))
  BY DEF Inv, Locals, AllEntered
<1>3. Local(b)'
  <2>1. /\ Len(tables) \in Nat /\ Len(list) \in Nat /\ Len(list') \in Nat
        /\ Len(tables') \in Nat /\ Len(tables) <= Len(tables')
    <3>1. tables \in Seq(Tables) /\ list \in Seq(Records)
      BY DEF Inv, Types
    <3>2. DOMAIN tables = 1..Len(tables) /\ DOMAIN tables' = 1..Len(tables')
      BY <3>1
    <3>3. PICK m \in Nat : m = Len(tables)
      BY <3>1
    <3>4. PICK o \in Nat : o = Len(tables')
      BY <3>1
    <3>5. 1..m \subseteq 1..o
      BY <3>2, <3>3, <3>4 DEF Extends
    <3>6. m <= o
      BY <3>5
    <3> QED
      BY <3>1, <3>3, <3>4, <3>6
  <2>2. DOMAIN tables \subseteq DOMAIN tables'
    BY DEF Extends
  <2>3. call[b].ptr \in Nat
    BY <1>1 DEF Calls
  <2> QED
    BY <1>1, <1>2, <2>1, <2>2, <2>3 DEF Local
<1>4. ASSUME b \in Ids PROVE Entered(b)'
  <2>1. call[b].index \in Nat
    BY <1>1 DEF Calls
  <2>2. tables \in Seq(Tables) /\ Keeps(b)
    BY <1>4 DEF Inv, Types
  <2> QED
    BY <1>1, <1>2, <1>4, <2>1, <2>2, EnteredStays
<1> QED
  BY <1>3, <1>4

\* hashCount against those who counted an entry.
LEMMA CountedStays ==
    ASSUME Counted, hashCount \in Int, hashCount' \in Int, NEW a \in Actors, Alone(a),
           \/ hashCount' >= hashCount + 1
           \/ hashCount' >= hashCount /\ (a \in Counting' => a \in Counting)
           \/ hashCount' >= hashCount - 1 /\ a \in Counting /\ a \notin Counting'
    PROVE  Counted'
<1>1. \A b \in Ids : b # a => (b \in Counting' <=> b \in Counting)
  BY ActorsApart DEF Alone, Counting
<1>2. Counting \subseteq Ids /\ Counting' \subseteq Ids
  BY DEF Counting
<1>3. IsFiniteSet(Counting) /\ IsFiniteSet(Counting \union {a}) /\ IsFiniteSet(Counting \ {a})
  BY <1>2, ProducersAssumption, FS_Subset, FS_AddElement, FS_RemoveElement
<1>4. PICK k \in Nat : k = Cardinality(Counting)
  BY <1>3, FS_CardinalityType
<1>5. Counting' \subseteq Counting \union {a}
  BY <1>1, <1>2
<1>6. Cardinality(Counting') <= k + 1 /\ Cardinality(Counting') \in Nat
  <2>1. Cardinality(Counting \union {a}) <= k + 1 /\ Cardinality(Counting \union {a}) \in Nat
    BY <1>3, <1>4, FS_AddElement, FS_CardinalityType
  <2>2. IsFiniteSet(Counting') /\ Cardinality(Counting') <= Cardinality(Counting \union {a})
    BY <1>3, <1>5, FS_Subset
  <2> QED
    BY <1>4, <2>1, <2>2, FS_CardinalityType
<1>7. CASE hashCount' >= hashCount + 1
  BY <1>4, <1>6, <1>7 DEF Counted
<1>8. CASE hashCount' >= hashCount /\ (a \in Counting' => a \in Counting)
  <2>1. Counting' \subseteq Counting
    BY <1>5, <1>8
  <2>2. Cardinality(Counting') <= k
    BY <1>3, <1>4, <2>1, FS_Subset
  <2> QED
    BY <1>4, <1>6, <1>8, <2>2 DEF Counted
<1>9. CASE hashCount' >= hashCount - 1 /\ a \in Counting /\ a \notin Counting'
  <2>1. Counting' \subseteq Counting \ {a}
    BY <1>5, <1>9
  <2>2. Cardinality(Counting \ {a}) = k - 1
    BY <1>3, <1>4, <1>9, FS_RemoveElement
  <2>3. Cardinality(Counting') <= k - 1
    BY <1>3, <2>1, <2>2, FS_Subset
  <2> QED
    BY <1>4, <1>6, <1>9, <2>3 DEF Counted
<1> QED
  BY <1>7, <1>8, <1>9

--------------------------------------------------------------------------------
(* Steps that change neither a table nor a producer.                           *)

LEMMA EnteredQuiet ==
    ASSUME Inv, NEW i \in Ids, UNCHANGED tables, producer'[i] = producer[i],
           producer[i] # NoProducer /\ call'[i].at \in {"idle", "readd", "uncount"}
              => call[i].at \in {"idle", "readd", "uncount"},
           call'[i].at = "exit" => call'[i].ptr = Len(tables),
           call'[i].at \in {"readd", "add"} => Passed(call'[i].mainHash, i, call'[i].index)
    PROVE  Entered(i)'
<1>1. Entered(i) /\ tables \in Seq(Tables) /\ Extends /\ Keeps(i)
  BY SameTables DEF Inv, AllEntered, Types
<1>2. Placed(i)'
  BY <1>1, PlacedStays DEF Entered
<1>3. Present(i)'
  BY <1>1 DEF Entered, Present, Keeps, Extends
<1>4. Leaving(i)'
  <2>1. ASSUME call'[i].at = "exit", NEW n \in DOMAIN tables' PROVE ~(call'[i].ptr < n)
    <3>1. PICK m \in Nat : m = Len(tables) /\ DOMAIN tables = 1..m
      BY <1>1
    <3>2. call'[i].ptr = m /\ n \in 1..m
      BY <2>1, <3>1
    <3> QED
      BY <3>2
  <2> QED
    BY <2>1 DEF Leaving
<1>5. Probing(i)'
  BY DEF Probing, Passed, Slot, Capacity
<1> QED
  BY <1>2, <1>3, <1>4, <1>5 DEF Entered

\* A step that changes no producer, and no table either or only its own entries.
LEMMA TableStep ==
    ASSUME Inv, NEW a \in Actors, Alone(a), producer' = producer, UNCHANGED list,
           tables' \in Seq(Tables), Extends, \A j \in Ids : j # a => Keeps(j),
           queue, queue', hashCount' \in Int, resizing' \in BOOLEAN,
           notifier' \in Ids \union {Nobody},
           Local(a)', a \in Ids => Entered(a)',
           producer[a] # NoProducer /\ a \in Ids /\ call[a].at = "subscribe"
              => call'[a].at = "subscribe",
           producer[a] # NoProducer /\ a \in Tokens /\ call'[a].at = "idle"
              => call[a].at = "idle"
    PROVE  Types' /\ Alive' /\ Locals' /\ Owners' /\ AllEntered'
<1>1. Types'
  BY DEF Inv, Types, Alone
<1>2. Alive'
  <2>1. tables # <<>> /\ tables \in Seq(Tables)
    BY DEF Inv, Alive, Types
  <2>2. tables' # <<>>
    BY <2>1 DEF Extends
  <2> QED
    BY <2>2 DEF Alive
<1>3. \A b \in Actors \ {a} : Local(b)' /\ (b \in Ids => Entered(b)')
  <2>1. list' \in Seq(Records) /\ Len(list) <= Len(list')
    BY DEF Inv, Types
  <2> QED
    BY <2>1, OthersStay
<1>4. Locals'
  BY <1>3 DEF Locals
<1>5. AllEntered'
  BY <1>3, ActorsApart DEF AllEntered
<1>6. Owners'
  <2>1. \A b \in Actors : producer[b] # NoProducer =>
           /\ b \in Ids /\ call'[b].at # "subscribe" => call[b].at # "subscribe"
           /\ b \in Tokens /\ call'[b].at = "idle" => call[b].at = "idle"
    BY DEF Alone
  <2> QED
    BY <2>1 DEF Inv, Owners, IsExplicit
<1> QED
  BY <1>1, <1>2, <1>4, <1>5, <1>6

LEMMA QuietStep ==
    ASSUME Inv, NEW a \in Actors, Alone(a), producer' = producer, UNCHANGED <<tables, list>>,
           queue, queue', hashCount' \in Int, resizing' \in BOOLEAN,
           notifier' \in Ids \union {Nobody},
           Local(a)', a \in Ids => Entered(a)',
           producer[a] # NoProducer /\ a \in Ids /\ call[a].at = "subscribe"
              => call'[a].at = "subscribe",
           producer[a] # NoProducer /\ a \in Tokens /\ call'[a].at = "idle"
              => call[a].at = "idle"
    PROVE  Types' /\ Alive' /\ Locals' /\ Owners' /\ AllEntered'
<1>1. Extends /\ \A j \in Ids : j # a => Keeps(j)
  BY SameTables
<1>2. UNCHANGED list /\ tables' \in Seq(Tables)
  BY DEF Inv, Types
<1> QED
  BY <1>1, <1>2, TableStep

LEMMA InvParts ==
    ASSUME Types', Alive', Locals', Owners', AllEntered', Counted'
    PROVE  Inv'
  BY DEF Inv

\* What is known of an actor that has a call under way.
LEMMA Acting ==
    ASSUME Inv, NEW a \in Actors
    PROVE  /\ call \in [Actors -> Calls] /\ call[a] \in Calls /\ call[a].at \in Labels
           /\ call[a].mainHash \in Nat /\ call[a].index \in Nat /\ call[a].ptr \in Nat
           /\ tables \in Seq(Tables) /\ list \in Seq(Records) /\ hashCount \in Int
           /\ Len(tables) \in Nat /\ DOMAIN tables = 1..Len(tables)
           /\ Len(list) \in Nat /\ DOMAIN list = 1..Len(list) /\ Len(list) <= MaxProducers
           /\ resizing \in BOOLEAN /\ notifier \in Ids \union {Nobody}
           /\ producer[a] \in 0..Len(list)
           /\ call[a].at # "idle" => queue
           /\ queue => Len(tables) \in DOMAIN tables
           /\ Local(a) /\ (a \in Ids => Entered(a))
<1>1. Types /\ Alive /\ Local(a) /\ (a \in Ids => Entered(a))
  BY DEF Inv, Locals, AllEntered
<1>2. call \in [Actors -> Calls] /\ call[a] \in Calls
  BY <1>1 DEF Types
<1>3. /\ tables \in Seq(Tables) /\ list \in Seq(Records) /\ hashCount \in Int
      /\ resizing \in BOOLEAN /\ notifier \in Ids \union {Nobody}
      /\ producer[a] \in 0..Len(list) /\ Len(list) <= MaxProducers
  BY <1>1 DEF Types
<1>4. call[a].at # "idle" => queue
  BY <1>1 DEF Alive
<1>5. queue => Len(tables) \in DOMAIN tables
  <2>1. queue => tables # <<>>
    BY <1>1 DEF Alive
  <2> QED
    BY <1>3, <2>1
<1>6. /\ Len(tables) \in Nat /\ DOMAIN tables = 1..Len(tables)
      /\ Len(list) \in Nat /\ DOMAIN list = 1..Len(list)
  BY <1>3
<1> QED
  BY <1>1, <1>2, <1>3, <1>4, <1>5, <1>6 DEF Calls

LEMMA LookInv ==
    ASSUME Inv, NEW i \in Ids, Look(i)
    PROVE  Inv'
<1>1. queue /\ call[i].at = "idle" /\ UNCHANGED <<hashVars, list, notifier, queue, producer>>
  BY DEF Look
<1> DEFINE to == IF FoundIn(i) = {} THEN "count" ELSE "readd"
<1>2. PICK m \in Nat : m = Len(tables)
  BY ActorsApart, Acting
<1>3. PICK l \in Labels : l = to
  BY DEF Labels
<1>4. call' = [call EXCEPT ![i].at = l, ![i].mainHash = m]
  BY <1>2, <1>3 DEF Look
<1>5. Goes(i, l, m, call[i].index, call[i].ptr)
  BY <1>4, ActorsApart, Acting, MainHashGoes
<1>6. Alone(i)
  BY <1>1, <1>5 DEF Goes, Alone
<1>7. FoundIn(i) = {n \in DOMAIN tables : SlotsOf(n, i) # {}}
  BY ActorsApart, Acting, FindsEntries DEF FoundIn
<1>8. /\ l = "count" => producer[i] = NoProducer
      /\ l = "readd" => producer[i] # NoProducer
      /\ l \in {"count", "readd"}
  <2>1. CASE FoundIn(i) = {}
    <3>1. producer[i] = NoProducer
      BY <1>1, <1>7, <2>1, ActorsApart, Acting DEF Entered, Present
    <3> QED
      BY <1>3, <2>1, <3>1
  <2>2. CASE FoundIn(i) # {}
    <3>1. producer[i] # NoProducer
      BY <1>7, <2>2, ActorsApart, Acting, NoEntries DEF Entered
    <3> QED
      BY <1>3, <2>2, <3>1
  <2> QED
    BY <2>1, <2>2
<1>9. call[i].index = 0 /\ m \in DOMAIN tables
  BY <1>1, <1>2, ActorsApart, Acting DEF Local
<1>10. Local(i)'
  BY <1>1, <1>5, <1>8, <1>9, ActorsApart DEF Goes, Local, hashVars
<1>11. Entered(i)'
  <2>1. Passed(m, i, 0)
    BY DEF Passed
  <2> QED
    BY <1>1, <1>5, <1>8, <1>9, <2>1, EnteredQuiet DEF Goes, hashVars
<1>12. Types' /\ Alive' /\ Locals' /\ Owners' /\ AllEntered'
  <2>1. hashCount' \in Int /\ resizing' \in BOOLEAN /\ notifier' \in Ids \union {Nobody}
    BY <1>1, ActorsApart, Acting DEF hashVars
  <2> QED
    BY <1>1, <1>6, <1>10, <1>11, <2>1, ActorsApart, QuietStep DEF hashVars
<1>13. Counted'
  <2>1. i \notin Counting'
    BY <1>5, <1>8 DEF Goes, Counting
  <2> QED
    BY <1>1, <1>6, <2>1, ActorsApart, Acting, CountedStays DEF Inv, hashVars
<1> QED
  BY <1>12, <1>13, InvParts

\* The probe goes on to the next entry.
LEMMA NextEntryInv ==
    ASSUME Inv, NEW i \in Ids, call[i].at \in {"readd", "add"}, NextEntry(i),
           UNCHANGED <<hashCount, resizing, list, notifier, queue, producer>>
    PROVE  Inv'
<1>1. PICK m, k : m = call[i].mainHash /\ k = call[i].index
  OBVIOUS
<1>2. m \in DOMAIN tables /\ k \in Nat /\ queue
  BY <1>1, ActorsApart, Acting DEF Local
<1>3. Goes(i, call[i].at, m, k + 1, call[i].ptr) /\ UNCHANGED tables
  BY <1>1, ActorsApart, Acting, NextEntryGoes DEF NextEntry
<1>4. Alone(i)
  BY <1>3 DEF Goes, Alone
<1>5. Local(i)'
  BY <1>1, <1>2, <1>3, ActorsApart, Acting DEF Goes, Local
<1>6. Passed(m, i, k + 1)
  <2>1. Passed(m, i, k)
    BY <1>1, ActorsApart, Acting DEF Entered, Probing
  <2>2. tables[m][Slot(m, i, k)] # Empty
    BY <1>1, EntryKinds DEF NextEntry, Entry
  <2>3. ASSUME NEW j \in 0..((k + 1) - 1) PROVE tables[m][Slot(m, i, j)] # Empty
    <3>1. j \in 0..(k - 1) \/ j = k
      BY <1>2
    <3> QED
      BY <2>1, <2>2, <3>1 DEF Passed
  <2> QED
    BY <2>3 DEF Passed
<1>7. Entered(i)'
  BY <1>3, <1>6, EnteredQuiet DEF Goes
<1>8. Types' /\ Alive' /\ Locals' /\ Owners' /\ AllEntered'
  <2>1. hashCount' \in Int /\ resizing' \in BOOLEAN /\ notifier' \in Ids \union {Nobody}
    BY ActorsApart, Acting
  <2> QED
    BY <1>2, <1>3, <1>4, <1>5, <1>7, <2>1, ActorsApart, QuietStep DEF Goes
<1>9. Counted'
  <2>1. i \in Counting' <=> i \in Counting
    BY <1>3 DEF Goes, Counting
  <2> QED
    BY <1>4, <2>1, ActorsApart, Acting, CountedStays DEF Inv
<1> QED
  BY <1>8, <1>9, InvParts

\* A step in the middle of an insertion, before there is a producer.
Middle == {"count", "insert", "resize", "unlock", "check", "recycle"}
LEMMA MiddleInv ==
    ASSUME Inv, NEW i \in Ids, call[i].at \in Middle, Alone(i),
           call'[i].at \in Middle \ {"count"}, call'[i].index = call[i].index,
           call'[i].mainHash \in DOMAIN tables,
           call'[i].at = "recycle" => call'[i].ptr <= Len(list),
           UNCHANGED <<tables, list, notifier, queue, producer>>,
           hashCount' \in Int, resizing' \in BOOLEAN,
           \/ hashCount' >= hashCount /\ call[i].at # "count"
           \/ hashCount' = hashCount + 1
    PROVE  Inv'
<1>1. producer[i] = NoProducer /\ call[i].index = 0 /\ queue
  BY ActorsApart, Acting DEF Local, Middle
<1>2. Local(i)'
  BY <1>1, ActorsApart DEF Local, Middle
<1>3. Entered(i)'
  BY <1>1, EnteredQuiet DEF Middle
<1>4. Types' /\ Alive' /\ Locals' /\ Owners' /\ AllEntered'
  <2>1. notifier' \in Ids \union {Nobody}
    BY ActorsApart, Acting
  <2> QED
    BY <1>1, <1>2, <1>3, <2>1, ActorsApart, QuietStep
<1>5. Counted'
  <2>1. call[i].at # "count" => i \in Counting
    BY DEF Counting, Middle
  <2> QED
    BY <2>1, ActorsApart, Acting, CountedStays DEF Inv
<1> QED
  BY <1>4, <1>5, InvParts

LEMMA CountEntryInv ==
    ASSUME Inv, NEW i \in Ids, CountEntry(i)
    PROVE  Inv'
<1>1. /\ call[i].at = "count" /\ hashCount' = hashCount + 1 /\ hashCount' \in Int
      /\ UNCHANGED <<tables, resizing, list, notifier, queue, producer>>
  BY ActorsApart, Acting DEF CountEntry
<1>2. Goes(i, "insert", call[i].mainHash, call[i].index, call[i].ptr)
  BY ActorsApart, Acting, CountGoes
<1>3. Alone(i)
  BY <1>1, <1>2 DEF Goes, Alone
<1>4. call[i].mainHash \in DOMAIN tables /\ resizing' \in BOOLEAN
  BY <1>1, ActorsApart, Acting DEF Local
<1>5. /\ call[i].at \in Middle /\ call'[i].at \in Middle \ {"count"}
      /\ call'[i].at # "recycle"
      /\ call'[i].index = call[i].index /\ call'[i].mainHash \in DOMAIN tables
  BY <1>1, <1>2, <1>4 DEF Goes, Middle
<1> QED
  BY <1>1, <1>3, <1>4, <1>5, MiddleInv

LEMMA LockResizeInv ==
    ASSUME Inv, NEW i \in Ids, LockResize(i)
    PROVE  Inv'
<1>1. call[i].at = "insert" /\ resizing' = TRUE
      /\ UNCHANGED <<tables, hashCount, list, notifier, queue, producer>>
  BY DEF LockResize
<1>2. PICK m \in Nat : m = Len(tables)
  BY ActorsApart, Acting
<1>3. call' = [call EXCEPT ![i].at = "resize", ![i].mainHash = m]
  BY <1>2 DEF LockResize
<1>4. Goes(i, "resize", m, call[i].index, call[i].ptr)
  BY <1>3, ActorsApart, Acting, MainHashGoes DEF Labels
<1>5. Alone(i)
  BY <1>1, <1>4 DEF Goes, Alone
<1>6. m \in DOMAIN tables /\ hashCount' \in Int /\ hashCount' >= hashCount
  BY <1>1, <1>2, ActorsApart, Acting
<1>7. /\ call[i].at \in Middle \ {"count"} /\ call'[i].at \in Middle \ {"count"}
      /\ call'[i].at # "recycle"
      /\ call'[i].index = call[i].index /\ call'[i].mainHash \in DOMAIN tables
  BY <1>1, <1>4, <1>6 DEF Goes, Middle
<1> QED
  BY <1>1, <1>5, <1>6, <1>7, MiddleInv

LEMMA NoResizeInv ==
    ASSUME Inv, NEW i \in Ids, NoResize(i)
    PROVE  Inv'
<1>1. call[i].at = "insert" /\ UNCHANGED <<tables, hashCount, resizing, list, notifier, queue, producer>>
  BY DEF NoResize, hashVars
<1>2. Goes(i, "check", call[i].mainHash, call[i].index, call[i].ptr)
  BY ActorsApart, Acting, GotoGoes DEF NoResize, Labels
<1>3. Alone(i)
  BY <1>1, <1>2 DEF Goes, Alone
<1>4. /\ call[i].mainHash \in DOMAIN tables /\ hashCount' \in Int /\ hashCount' >= hashCount
      /\ resizing' \in BOOLEAN
  BY <1>1, ActorsApart, Acting DEF Local
<1>5. /\ call[i].at \in Middle \ {"count"} /\ call'[i].at \in Middle \ {"count"}
      /\ call'[i].at # "recycle"
      /\ call'[i].index = call[i].index /\ call'[i].mainHash \in DOMAIN tables
  BY <1>1, <1>2, <1>4 DEF Goes, Middle
<1> QED
  BY <1>1, <1>3, <1>4, <1>5, MiddleInv

LEMMA UnlockResizeInv ==
    ASSUME Inv, NEW i \in Ids, UnlockResize(i)
    PROVE  Inv'
<1>1. call[i].at \in {"unlock", "resize"} /\ resizing' = FALSE
      /\ UNCHANGED <<tables, hashCount, list, notifier, queue, producer>>
  BY DEF UnlockResize
<1>2. Goes(i, "check", call[i].mainHash, call[i].index, call[i].ptr)
  BY ActorsApart, Acting, GotoGoes DEF UnlockResize, Labels
<1>3. Alone(i)
  BY <1>1, <1>2 DEF Goes, Alone
<1>4. call[i].mainHash \in DOMAIN tables /\ hashCount' \in Int /\ hashCount' >= hashCount
  BY <1>1, ActorsApart, Acting DEF Local
<1>5. /\ call[i].at \in Middle \ {"count"} /\ call'[i].at \in Middle \ {"count"}
      /\ call'[i].at # "recycle"
      /\ call'[i].index = call[i].index /\ call'[i].mainHash \in DOMAIN tables
  BY <1>1, <1>2, <1>4 DEF Goes, Middle
<1> QED
  BY <1>1, <1>3, <1>4, <1>5, MiddleInv

LEMMA CheckRoomInv ==
    ASSUME Inv, NEW i \in Ids, CheckRoom(i)
    PROVE  Inv'
<1>1. call[i].at = "check" /\ UNCHANGED <<tables, hashCount, resizing, list, notifier, queue, producer>>
  BY DEF CheckRoom, hashVars
<1>2. PICK m \in Nat : m = Len(tables)
  BY ActorsApart, Acting
<1>3. PICK p \in Nat : p = Len(list)
  BY ActorsApart, Acting
<1>4. /\ call[i].mainHash \in DOMAIN tables /\ m \in DOMAIN tables
      /\ hashCount' \in Int /\ hashCount' >= hashCount /\ resizing' \in BOOLEAN
  BY <1>1, <1>2, ActorsApart, Acting DEF Local
<1>5. \/ Goes(i, "recycle", call[i].mainHash, call[i].index, p)
      \/ Goes(i, "insert", m, call[i].index, call[i].ptr)
  <2>1. CASE Room(i)
    <3>1. call' = [call EXCEPT ![i].at = "recycle", ![i].ptr = p]
      BY <1>3, <2>1 DEF CheckRoom
    <3> QED
      BY <3>1, ActorsApart, Acting, PtrGoes DEF Labels
  <2>2. CASE ~Room(i)
    <3>1. call' = [call EXCEPT ![i].at = "insert", ![i].mainHash = m]
      BY <1>2, <2>2 DEF CheckRoom
    <3> QED
      BY <3>1, ActorsApart, Acting, MainHashGoes DEF Labels
  <2> QED
    BY <2>1, <2>2
<1>6. Alone(i)
  BY <1>1, <1>5 DEF Goes, Alone
<1>7. /\ call[i].at \in Middle \ {"count"} /\ call'[i].at \in Middle \ {"count"}
      /\ call'[i].at = "recycle" => call'[i].ptr <= Len(list)
      /\ call'[i].index = call[i].index /\ call'[i].mainHash \in DOMAIN tables
  BY <1>1, <1>3, <1>4, <1>5 DEF Goes, Middle
<1> QED
  BY <1>1, <1>4, <1>6, <1>7, MiddleInv

\* A call that ends without a producer.
LEMMA GiveUpInv ==
    ASSUME Inv, NEW a \in Actors, Return(a), producer[a] = NoProducer, queue,
           UNCHANGED <<tables, list, notifier, queue, producer>>,
           hashCount' \in Int, resizing' \in BOOLEAN,
           hashCount' >= hashCount \/ (hashCount' >= hashCount - 1 /\ a \in Counting)
    PROVE  Inv'
<1>1. Goes(a, "idle", 0, 0, 0)
  BY Acting, ReturnGoes
<1>2. Alone(a)
  BY <1>1 DEF Goes, Alone
<1>3. Local(a)'
  BY <1>1, ActorsApart DEF Goes, Local
<1>4. a \in Ids => Entered(a)'
  BY <1>1, EnteredQuiet DEF Goes
<1>5. Types' /\ Alive' /\ Locals' /\ Owners' /\ AllEntered'
  <2>1. notifier' \in Ids \union {Nobody}
    BY Acting
  <2> QED
    BY <1>2, <1>3, <1>4, <2>1, QuietStep
<1>6. Counted'
  <2>1. a \notin Counting'
    BY <1>1 DEF Goes, Counting
  <2> QED
    BY <1>2, <2>1, Acting, CountedStays DEF Inv
<1> QED
  BY <1>5, <1>6, InvParts

LEMMA GrowFailsInv ==
    ASSUME Inv, NEW i \in Ids, GrowFails(i)
    PROVE  Inv'
<1>1. /\ call[i].at = "resize" /\ hashCount' = hashCount - 1 /\ resizing' = FALSE /\ Return(i)
      /\ UNCHANGED <<tables, list, notifier, queue, producer>>
  BY DEF GrowFails
<1>2. producer[i] = NoProducer /\ queue /\ hashCount' \in Int /\ hashCount' >= hashCount - 1
  BY <1>1, ActorsApart, Acting DEF Local
<1>3. i \in Counting
  BY <1>1 DEF Counting
<1> QED
  BY <1>1, <1>2, <1>3, ActorsApart, GiveUpInv

LEMMA CreateFailsInv ==
    ASSUME Inv, NEW a \in Actors, CreateFails(a)
    PROVE  Inv'
<1>1. /\ call[a].at = "recycle" /\ Return(a)
      /\ hashCount' = IF IsExplicit(a) THEN hashCount ELSE hashCount - 1
      /\ UNCHANGED <<tables, resizing, list, notifier, queue, producer>>
  BY DEF CreateFails
<1>2. producer[a] = NoProducer /\ queue /\ hashCount \in Int /\ resizing' \in BOOLEAN
  BY <1>1, Acting DEF Local
<1>3. ~IsExplicit(a) => a \in Counting
  BY <1>1 DEF Counting, IsExplicit, Actors
<1>4. hashCount' \in Int /\ (hashCount' >= hashCount \/ (hashCount' >= hashCount - 1 /\ a \in Counting))
  <2>1. CASE IsExplicit(a)
    <3>1. hashCount' = hashCount
      BY <1>1, <2>1
    <3> QED
      BY <1>2, <3>1
  <2>2. CASE ~IsExplicit(a)
    BY <1>1, <1>2, <1>3, <2>2
  <2> QED
    BY <2>1, <2>2
<1> QED
  BY <1>1, <1>2, <1>4, GiveUpInv

\* An actor that looks for a producer it may recycle, or begins to.
LEMMA LookingInv ==
    ASSUME Inv, NEW a \in Actors, Alone(a), producer[a] = NoProducer, queue,
           UNCHANGED <<hashVars, list, notifier, queue, producer>>,
           call'[a].at = "recycle", call'[a].ptr <= Len(list),
           call'[a].index = call[a].index, call'[a].mainHash = call[a].mainHash,
           call[a].at = "recycle" \/ (call[a].at = "idle" /\ a \in Tokens)
    PROVE  Inv'
<1>1. UNCHANGED <<tables, hashCount, resizing>>
  BY DEF hashVars
<1>2. Local(a)'
  BY <1>1, ActorsApart, Acting DEF Local
<1>3. a \in Ids => Entered(a)'
  BY <1>1, EnteredQuiet
<1>4. Types' /\ Alive' /\ Locals' /\ Owners' /\ AllEntered'
  <2>1. hashCount' \in Int /\ resizing' \in BOOLEAN /\ notifier' \in Ids \union {Nobody}
    BY <1>1, Acting
  <2> QED
    BY <1>1, <1>2, <1>3, <2>1, QuietStep
<1>5. Counted'
  <2>1. a \in Counting' => a \in Counting
    BY ActorsApart DEF Counting
  <2> QED
    BY <1>1, <2>1, Acting, CountedStays DEF Inv
<1> QED
  BY <1>4, <1>5, InvParts

LEMMA SkipProducerInv ==
    ASSUME Inv, NEW a \in Actors, SkipProducer(a)
    PROVE  Inv'
<1>1. call[a].at = "recycle" /\ UNCHANGED <<hashVars, list, notifier, queue, producer>>
  BY DEF SkipProducer
<1>2. Goes(a, "recycle", call[a].mainHash, call[a].index, call[a].ptr - 1)
  BY Acting, BackGoes DEF SkipProducer
<1>3. Alone(a)
  BY <1>1, <1>2 DEF Goes, Alone
<1>4. producer[a] = NoProducer /\ queue /\ call[a].ptr - 1 <= Len(list)
  BY <1>1, Acting DEF Local
<1>5. /\ call'[a].at = "recycle" /\ call'[a].ptr <= Len(list)
      /\ call'[a].index = call[a].index /\ call'[a].mainHash = call[a].mainHash
  BY <1>2, <1>4 DEF Goes
<1> QED
  BY <1>1, <1>3, <1>4, <1>5, LookingInv

LEMMA NewTokenInv ==
    ASSUME Inv, NEW o \in Tokens, NewToken(o)
    PROVE  Inv'
<1>1. /\ queue /\ call[o].at = "idle" /\ producer[o] = NoProducer
      /\ UNCHANGED <<hashVars, list, notifier, queue, producer>>
  BY DEF NewToken
<1>2. o \in Actors
  BY DEF Actors
<1>3. PICK m \in Nat : m = Len(list)
  BY <1>2, Acting
<1>4. call' = [call EXCEPT ![o].at = "recycle", ![o].ptr = m]
  BY <1>3 DEF NewToken
<1>5. Goes(o, "recycle", call[o].mainHash, call[o].index, m)
  BY <1>2, <1>4, Acting, PtrGoes DEF Labels
<1>6. Alone(o)
  BY <1>1, <1>5 DEF Goes, Alone
<1> QED
  BY <1>1, <1>2, <1>3, <1>5, <1>6, LookingInv DEF Goes

LEMMA UncountInv ==
    ASSUME Inv, NEW i \in Ids, Uncount(i)
    PROVE  Inv'
<1>1. /\ call[i].at = "uncount" /\ hashCount' = hashCount - 1 /\ Return(i)
      /\ UNCHANGED <<tables, resizing, list, notifier, queue, producer>>
  BY DEF Uncount
<1>2. Goes(i, "idle", 0, 0, 0)
  BY <1>1, ActorsApart, Acting, ReturnGoes
<1>3. Alone(i)
  BY <1>1, <1>2 DEF Goes, Alone
<1>4. Local(i)'
  BY <1>2, ActorsApart DEF Goes, Local
<1>5. Entered(i)'
  BY <1>1, <1>2, EnteredQuiet DEF Goes
<1>6. Types' /\ Alive' /\ Locals' /\ Owners' /\ AllEntered'
  <2>1. /\ hashCount' \in Int /\ resizing' \in BOOLEAN /\ notifier' \in Ids \union {Nobody}
        /\ queue
    BY <1>1, ActorsApart, Acting
  <2> QED
    BY <1>1, <1>3, <1>4, <1>5, <2>1, ActorsApart, QuietStep
<1>7. Counted'
  <2>1. i \in Counting /\ i \notin Counting'
    BY <1>1, <1>2 DEF Goes, Counting
  <2>2. hashCount' \in Int /\ hashCount' >= hashCount - 1
    BY <1>1, ActorsApart, Acting
  <2> QED
    BY <1>3, <2>1, <2>2, ActorsApart, Acting, CountedStays DEF Inv
<1> QED
  BY <1>6, <1>7, InvParts

LEMMA ExitInv ==
    ASSUME Inv, NEW i \in Ids, Exit(i)
    PROVE  Inv'
<1>1. /\ call[i].at = "idle" /\ producer[i] # NoProducer /\ queue /\ notifier' = i
      /\ UNCHANGED <<tables, hashCount, resizing, list, queue, producer>>
  BY DEF Exit, hashVars
<1>2. PICK m \in Nat : m = Len(tables)
  BY ActorsApart, Acting
<1>3. call' = [call EXCEPT ![i].at = "exit", ![i].ptr = m]
  BY <1>2 DEF Exit
<1>4. Goes(i, "exit", call[i].mainHash, call[i].index, m)
  BY <1>3, ActorsApart, Acting, PtrGoes DEF Labels
<1>5. Alone(i)
  BY <1>1, <1>4 DEF Goes, Alone
<1>6. Local(i)'
  BY <1>1, <1>2, <1>4, ActorsApart, Acting DEF Goes, Local
<1>7. Entered(i)'
  BY <1>1, <1>2, <1>4, EnteredQuiet DEF Goes
<1>8. Types' /\ Alive' /\ Locals' /\ Owners' /\ AllEntered'
  <2>1. hashCount' \in Int /\ resizing' \in BOOLEAN /\ notifier' \in Ids \union {Nobody}
    BY <1>1, ActorsApart, Acting
  <2> QED
    BY <1>1, <1>5, <1>6, <1>7, <2>1, ActorsApart, QuietStep
<1>9. Counted'
  <2>1. i \notin Counting'
    BY <1>4 DEF Goes, Counting
  <2> QED
    BY <1>1, <1>5, <2>1, ActorsApart, Acting, CountedStays DEF Inv
<1> QED
  BY <1>8, <1>9, InvParts

--------------------------------------------------------------------------------
(* Steps that change a table.                                                  *)

\* A thread's producer is entered where its probe found a free entry.
LEMMA WriteInv ==
    ASSUME Inv, NEW i \in Ids, call[i].at \in {"readd", "add"}, ~Taken(Entry(i)),
           WriteEntry(i), Alone(i), call'[i].at \in {"idle", "uncount"},
           call'[i].at = "idle" => call'[i].index = 0,
           call'[i].at = "uncount"
              => call[i].at = "add" /\ call'[i].mainHash = call[i].mainHash,
           UNCHANGED <<hashCount, resizing, list, notifier, queue, producer>>
    PROVE  Inv'
<1>1. PICK m, k, p : m = call[i].mainHash /\ k = call[i].index /\ p = producer[i]
  OBVIOUS
<1>2. /\ m \in DOMAIN tables /\ k \in Nat /\ queue /\ p \in 1..MaxProducers
      /\ tables \in Seq(Tables) /\ Placed(i) /\ Passed(m, i, k)
  <2>1. m \in DOMAIN tables /\ k \in Nat /\ queue /\ p # NoProducer
    BY <1>1, ActorsApart, Acting DEF Local
  <2>2. tables \in Seq(Tables) /\ Placed(i) /\ Passed(m, i, k)
    BY <1>1, ActorsApart, Acting DEF Entered, Probing
  <2>3. p \in 0..Len(list) /\ Len(list) <= MaxProducers /\ Len(list) \in Nat
    BY <1>1, ActorsApart, Acting
  <2>4. p \in 1..MaxProducers
    BY <2>1, <2>3, ProducersAssumption DEF NoProducer
  <2> QED
    BY <2>1, <2>2, <2>4
<1>3. PICK s : s = Slot(m, i, k)
  OBVIOUS
<1>4. s \in DOMAIN tables[m] /\ Probed(m, i, s)
  <2>1. PICK j : j = k % Capacity(m)
    OBVIOUS
  <2>2. j \in 0..(Capacity(m) - 1) /\ j <= k /\ Slot(m, i, j) = s /\ s \in DOMAIN tables[m]
    BY <1>2, <1>3, <2>1, SlotInTable
  <2>3. Capacity(m) \in Nat \ {0}
    BY <1>2, TableSlots
  <2>4. \A r \in 0..(j - 1) : r \in 0..(k - 1)
    BY <1>2, <2>2, <2>3
  <2>5. Passed(m, i, j)
    BY <1>2, <2>4 DEF Passed
  <2> QED
    BY <2>2, <2>5 DEF Probed
<1>5. /\ tables' \in Seq(Tables) /\ DOMAIN tables' = DOMAIN tables
      /\ Extends /\ \A j : j # i => Keeps(j)
      /\ SlotsOf(m, i)' = SlotsOf(m, i) \union {s}
      /\ \A n \in DOMAIN tables \ {m} : SlotsOf(n, i)' = SlotsOf(n, i)
      /\ tables'[m][s].value = p
      /\ \A n \in DOMAIN tables : \A r \in SlotsOf(n, i) : tables'[n][r] = tables[n][r]
  <2>1. Enters(m, s, i, p)
    BY <1>1, <1>3 DEF WriteEntry, Enters
  <2>2. ~Taken(tables[m][s])
    BY <1>1, <1>3 DEF Entry
  <2>3. /\ tables \in Seq(Tables) /\ m \in DOMAIN tables /\ s \in DOMAIN tables[m]
        /\ p \in 1..MaxProducers
    BY <1>2, <1>4
  <2> QED
    BY <2>1, <2>2, <2>3, WriteTable
<1>6. Placed(i)'
  <2>1. ASSUME NEW n \in DOMAIN tables', NEW r \in SlotsOf(n, i)'
        PROVE  tables'[n][r].value = producer'[i] /\ Probed(n, i, r)'
    <3>1. (n = m /\ r = s) \/ r \in SlotsOf(n, i)
      BY <1>5, <2>1
    <3>2. CASE n = m /\ r = s
      BY <1>1, <1>2, <1>4, <1>5, <3>2, ProbedStays
    <3>3. CASE r \in SlotsOf(n, i)
      <4>1. n \in DOMAIN tables /\ tables[n][r].value = producer[i] /\ Probed(n, i, r)
        BY <1>2, <1>5, <3>3 DEF Placed
      <4>2. tables'[n][r].value = producer'[i]
        BY <1>5, <3>3, <4>1
      <4> QED
        BY <1>2, <1>5, <4>1, <4>2, ProbedStays
    <3> QED
      BY <3>1, <3>2, <3>3
  <2> QED
    BY <2>1 DEF Placed
<1>7. Entered(i)'
  <2>1. Present(i)'
    <3>1. m \in DOMAIN tables' /\ SlotsOf(m, i)' # {}
      BY <1>2, <1>5
    <3> QED
      BY <3>1 DEF Present
  <2>2. Leaving(i)' /\ Probing(i)'
    BY DEF Leaving, Probing
  <2> QED
    BY <1>6, <2>1, <2>2 DEF Entered
<1>8. Local(i)'
  BY <1>1, <1>2, <1>5, ActorsApart, Acting DEF Local
<1>9. Types' /\ Alive' /\ Locals' /\ Owners' /\ AllEntered'
  <2>1. hashCount' \in Int /\ resizing' \in BOOLEAN /\ notifier' \in Ids \union {Nobody}
    BY ActorsApart, Acting
  <2> QED
    BY <1>2, <1>5, <1>7, <1>8, <2>1, ActorsApart, TableStep
<1>10. Counted'
  <2>1. i \in Counting' => i \in Counting
    BY DEF Counting
  <2> QED
    BY <2>1, ActorsApart, Acting, CountedStays DEF Inv
<1> QED
  BY <1>9, <1>10, InvParts

LEMMA ReaddInv ==
    ASSUME Inv, NEW i \in Ids, Readd(i)
    PROVE  Inv'
<1>1. /\ call[i].at = "readd"
      /\ UNCHANGED <<hashCount, resizing, list, notifier, queue, producer>>
  BY DEF Readd
<1>2. CASE NextEntry(i)
  BY <1>1, <1>2, NextEntryInv
<1>3. CASE ~Taken(Entry(i)) /\ WriteEntry(i) /\ Return(i)
  <2>1. Goes(i, "idle", 0, 0, 0)
    BY <1>3, ActorsApart, Acting, ReturnGoes
  <2>2. Alone(i) /\ call'[i].at = "idle" /\ call'[i].index = 0
    BY <1>1, <2>1 DEF Goes, Alone
  <2> QED
    BY <1>1, <1>3, <2>2, WriteInv
<1> QED
  BY <1>2, <1>3 DEF Readd

LEMMA AddInv ==
    ASSUME Inv, NEW i \in Ids, Add(i)
    PROVE  Inv'
<1>1. /\ call[i].at = "add"
      /\ UNCHANGED <<hashCount, resizing, list, notifier, queue, producer>>
  BY DEF Add
<1>2. CASE NextEntry(i)
  BY <1>1, <1>2, NextEntryInv
<1>3. CASE Entry(i) = Empty /\ WriteEntry(i) /\ Return(i)
  <2>1. Goes(i, "idle", 0, 0, 0)
    BY <1>3, ActorsApart, Acting, ReturnGoes
  <2>2. Alone(i) /\ call'[i].at = "idle" /\ call'[i].index = 0
    BY <1>1, <2>1 DEF Goes, Alone
  <2> QED
    BY <1>1, <1>3, <2>2, EntryKinds, WriteInv
<1>4. CASE Entry(i) = Reusable /\ WriteEntry(i) /\ Goto(i, "uncount")
  <2>1. Goes(i, "uncount", call[i].mainHash, call[i].index, call[i].ptr)
    BY <1>4, ActorsApart, Acting, GotoGoes DEF Labels
  <2>2. Alone(i) /\ call'[i].at = "uncount" /\ call'[i].mainHash = call[i].mainHash
    BY <1>1, <2>1 DEF Goes, Alone
  <2> QED
    BY <1>1, <1>4, <2>2, EntryKinds, WriteInv
<1> QED
  BY <1>2, <1>3, <1>4 DEF Add

LEMMA GrowInv ==
    ASSUME Inv, NEW i \in Ids, Grow(i)
    PROVE  Inv'
<1>1. /\ call[i].at = "resize"
      /\ UNCHANGED <<hashCount, resizing, list, notifier, queue, producer>>
  BY DEF Grow
<1>2. /\ producer[i] = NoProducer /\ call[i].index = 0 /\ queue
      /\ call[i].mainHash \in DOMAIN tables /\ tables \in Seq(Tables) /\ Placed(i)
  BY <1>1, ActorsApart, Acting DEF Local, Entered
<1>3. PICK size \in Nat \ {0} : tables' = Append(tables, Table(size))
  <2>1. PICK c \in NewCapacity(i) : tables' = Append(tables, Table(c))
    BY DEF Grow
  <2>2. PICK f \in Factors : c = Capacity(call[i].mainHash) * f
    BY DEF NewCapacity, Sizes
  <2>3. Capacity(call[i].mainHash) \in Nat \ {0}
    BY <1>2, TableSlots
  <2>4. PICK o \in Nat \ {0} : o = Capacity(call[i].mainHash)
    BY <2>3
  <2>5. f \in Nat \ {0}
    BY ProducersAssumption
  <2>6. o * f \in Nat \ {0}
    BY <2>4, <2>5
  <2> QED
    BY <2>1, <2>2, <2>4, <2>6
<1>4. /\ tables' \in Seq(Tables) /\ Len(tables') = Len(tables) + 1
      /\ Extends /\ \A j : Keeps(j)
  BY <1>2, <1>3, AppendTable
<1>5. PICK m \in Nat : m = Len(tables) + 1
  BY <1>2
<1>6. m \in DOMAIN tables'
  BY <1>2, <1>4, <1>5
<1>7. Goes(i, "unlock", m, call[i].index, call[i].ptr)
  <2>1. call' = [call EXCEPT ![i].at = "unlock", ![i].mainHash = m]
    BY <1>5 DEF Grow
  <2> QED
    BY <2>1, ActorsApart, Acting, MainHashGoes DEF Labels
<1>8. Alone(i)
  BY <1>1, <1>7 DEF Goes, Alone
<1>9. Local(i)'
  BY <1>1, <1>2, <1>6, <1>7, ActorsApart DEF Goes, Local
<1>10. Entered(i)'
  <2>1. Placed(i)'
    BY <1>1, <1>2, <1>4, PlacedStays
  <2>2. Present(i)' /\ Leaving(i)' /\ Probing(i)'
    BY <1>7 DEF Goes, Present, Leaving, Probing
  <2> QED
    BY <2>1, <2>2 DEF Entered
<1>11. Types' /\ Alive' /\ Locals' /\ Owners' /\ AllEntered'
  <2>1. hashCount' \in Int /\ resizing' \in BOOLEAN /\ notifier' \in Ids \union {Nobody}
    BY <1>1, ActorsApart, Acting
  <2> QED
    BY <1>1, <1>2, <1>4, <1>8, <1>9, <1>10, <2>1, ActorsApart, TableStep
<1>12. Counted'
  <2>1. i \in Counting
    BY <1>1 DEF Counting
  <2> QED
    BY <1>1, <1>8, <2>1, ActorsApart, Acting, CountedStays DEF Inv
<1> QED
  BY <1>11, <1>12, InvParts

LEMMA ExitTableInv ==
    ASSUME Inv, NEW i \in Ids, ExitTable(i)
    PROVE  Inv'
<1>1. /\ call[i].at = "exit" /\ call[i].ptr > 0
      /\ UNCHANGED <<hashCount, resizing, list, notifier, queue, producer>>
  BY DEF ExitTable
<1>2. PICK n : n = call[i].ptr
  OBVIOUS
<1>3. /\ n \in DOMAIN tables /\ n \in Nat /\ queue /\ producer[i] # NoProducer
      /\ n <= Len(tables) /\ call[i].index = 0
      /\ tables \in Seq(Tables) /\ Entered(i)
  BY <1>1, <1>2, ActorsApart, Acting DEF Local
<1>4. /\ tables' \in Seq(Tables) /\ DOMAIN tables' = DOMAIN tables
      /\ Extends /\ \A j : j # i => Keeps(j)
      /\ SlotsOf(n, i)' = {}
      /\ \A m \in DOMAIN tables \ {n} : SlotsOf(m, i)' = SlotsOf(m, i)
      /\ \A m \in DOMAIN tables \ {n} : tables'[m] = tables[m]
  <2>1. tables' = [tables EXCEPT ![n] = WithoutEntry(n, i)]
    BY <1>2 DEF ExitTable
  <2> QED
    BY <1>3, <2>1, RemoveEntries
<1>5. Goes(i, "exit", call[i].mainHash, call[i].index, n - 1)
  BY <1>1, <1>2, ActorsApart, Acting, BackGoes DEF ExitTable
<1>6. Alone(i)
  BY <1>1, <1>5 DEF Goes, Alone
<1>7. Len(tables') = Len(tables)
  BY <1>3, <1>4
<1>8. Local(i)'
  BY <1>1, <1>3, <1>5, <1>7, ActorsApart, Acting DEF Goes, Local
<1>9. Placed(i)'
  <2>1. ASSUME NEW m \in DOMAIN tables', NEW s \in SlotsOf(m, i)'
        PROVE  tables'[m][s].value = producer'[i] /\ Probed(m, i, s)'
    <3>1. m \in DOMAIN tables \ {n} /\ s \in SlotsOf(m, i)
      BY <1>4, <2>1
    <3>2. tables[m][s].value = producer[i] /\ Probed(m, i, s)
      BY <1>3, <3>1 DEF Entered, Placed
    <3>3. tables'[m][s].value = producer'[i]
      BY <1>1, <1>4, <3>1, <3>2
    <3> QED
      BY <1>3, <1>4, <3>1, <3>2, <3>3, ProbedStays
  <2> QED
    BY <2>1 DEF Placed
<1>10. Leaving(i)'
  <2>1. ASSUME NEW m \in DOMAIN tables', n - 1 < m PROVE SlotsOf(m, i)' = {}
    <3>1. m \in DOMAIN tables /\ m \in Nat
      BY <1>3, <1>4
    <3>2. m = n \/ n < m
      BY <1>3, <2>1, <3>1
    <3>3. CASE n < m
      <4>1. SlotsOf(m, i) = {} /\ m # n
        BY <1>1, <1>2, <1>3, <3>1, <3>3 DEF Entered, Leaving
      <4> QED
        BY <1>4, <3>1, <4>1
    <3> QED
      BY <1>4, <3>2, <3>3
  <2> QED
    BY <1>5, <2>1 DEF Goes, Leaving
<1>11. Entered(i)'
  <2>1. Present(i)' /\ Probing(i)'
    BY <1>5 DEF Goes, Present, Probing
  <2> QED
    BY <1>9, <1>10, <2>1 DEF Entered
<1>12. Types' /\ Alive' /\ Locals' /\ Owners' /\ AllEntered'
  <2>1. hashCount' \in Int /\ resizing' \in BOOLEAN /\ notifier' \in Ids \union {Nobody}
    BY <1>1, ActorsApart, Acting
  <2> QED
    BY <1>1, <1>3, <1>4, <1>6, <1>8, <1>11, <2>1, ActorsApart, TableStep
<1>13. Counted'
  <2>1. i \notin Counting'
    BY <1>5 DEF Goes, Counting
  <2> QED
    BY <1>1, <1>6, <2>1, ActorsApart, Acting, CountedStays DEF Inv
<1> QED
  BY <1>12, <1>13, InvParts

--------------------------------------------------------------------------------
(* Steps that change the owner of a producer, or what the producer knows of it. *)

Rewrites(p, record) == list' = [list EXCEPT ![p] = record]

LEMMA RewriteList ==
    ASSUME list \in Seq(Records), NEW p \in DOMAIN list, NEW record \in Records,
           Rewrites(p, record)
    PROVE  /\ list' \in Seq(Records) /\ DOMAIN list' = DOMAIN list /\ Len(list') = Len(list)
           /\ list'[p] = record
           /\ \A q \in DOMAIN list \ {p} : list'[q] = list[q]
  BY DEF Rewrites

\* One producer changes, and the only actor that has it or gets it is the one that acts.
LEMMA OwnersStep ==
    ASSUME Inv, NEW a \in Actors, Alone(a), NEW p \in DOMAIN list', p # NoProducer,
           \A q \in DOMAIN list' : q # p => q \in DOMAIN list /\ q # NoProducer /\ list'[q] = list[q],
           DOMAIN list \subseteq DOMAIN list',
           \A b \in Actors \ {a} : producer[b] # p,
           producer[a] \in {NoProducer, p}, producer'[a] \in {NoProducer, p},
           producer'[a] = NoProducer => list'[p].inactive,
           producer'[a] = p =>
               /\ ~list'[p].inactive
               /\ list'[p].isExplicit = IsExplicit(a)
               /\ a \in Ids /\ call'[a].at # "subscribe" => list'[p].listener
               /\ a \in Tokens /\ call'[a].at = "idle" => list'[p].token = a
    PROVE  Owners'
<1>1. \A b \in Actors : producer[b] # NoProducer => producer[b] \in DOMAIN list
  BY Acting DEF NoProducer
<1>2. \A b \in Actors \ {a} : /\ producer'[b] = producer[b] /\ producer'[b] # p
                              /\ call'[b] = call[b]
                              /\ producer[b] # NoProducer => list'[producer[b]] = list[producer[b]]
  <2> SUFFICES ASSUME NEW b \in Actors \ {a}
               PROVE  /\ producer'[b] = producer[b] /\ producer'[b] # p
                      /\ call'[b] = call[b]
                      /\ producer[b] # NoProducer => list'[producer[b]] = list[producer[b]]
    OBVIOUS
  <2>1. producer'[b] = producer[b] /\ producer'[b] # p /\ call'[b] = call[b]
    BY DEF Alone
  <2>2. producer[b] # NoProducer => producer[b] \in DOMAIN list'
    BY <1>1
  <2> QED
    BY <2>1, <2>2
<1>3. ASSUME NEW b \in Actors, producer'[b] # NoProducer
      PROVE  /\ ~list'[producer'[b]].inactive
             /\ list'[producer'[b]].isExplicit = IsExplicit(b)
             /\ b \in Ids /\ call'[b].at # "subscribe" => list'[producer'[b]].listener
             /\ b \in Tokens /\ call'[b].at = "idle" => list'[producer'[b]].token = b
  <2>1. CASE b = a
    BY <1>3, <2>1
  <2>2. CASE b # a
    BY <1>2, <1>3, <2>2 DEF Inv, Owners
  <2> QED
    BY <2>1, <2>2
<1>4. ASSUME NEW b \in Actors, NEW c \in Actors, producer'[b] = producer'[c],
             producer'[b] # NoProducer
      PROVE  b = c
  BY <1>2, <1>4 DEF Inv, Owners
<1>5. ASSUME NEW q \in DOMAIN list', ~list'[q].inactive
      PROVE  \E b \in Actors : producer'[b] = q
  <2>1. CASE q = p
    BY <1>5, <2>1
  <2>2. CASE q # p
    <3>1. q \in DOMAIN list /\ q # NoProducer /\ ~list[q].inactive
      BY <1>5, <2>2
    <3>2. PICK b \in Actors : producer[b] = q
      BY <3>1 DEF Inv, Owners
    <3>3. b # a
      BY <2>2, <3>1, <3>2
    <3> QED
      BY <1>2, <3>2, <3>3
  <2> QED
    BY <2>1, <2>2
<1> QED
  BY <1>3, <1>4, <1>5, Zenon DEF Owners, IsExplicit

LEMMA OwnerStep ==
    ASSUME Inv, NEW a \in Actors, Alone(a), UNCHANGED <<hashVars, queue>>, queue,
           notifier' \in Ids \union {Nobody},
           list' \in Seq(Records), Len(list) <= Len(list'), Len(list') <= MaxProducers,
           producer' \in [Actors -> 0..Len(list')],
           Local(a)', a \in Ids => Entered(a)', Owners',
           a \in Counting' => a \in Counting
    PROVE  Inv'
<1>1. UNCHANGED <<tables, hashCount, resizing>>
  BY DEF hashVars
<1>2. Types'
  BY <1>1 DEF Inv, Types, Alone
<1>3. Alive'
  BY <1>1 DEF Inv, Alive
<1>4. \A b \in Actors \ {a} : Local(b)' /\ (b \in Ids => Entered(b)')
  <2>1. Extends /\ \A j \in Ids : j # a => Keeps(j)
    BY <1>1, SameTables
  <2>2. tables' \in Seq(Tables)
    BY <1>1 DEF Inv, Types
  <2> QED
    BY <2>1, <2>2, OthersStay
<1>5. Locals'
  BY <1>4 DEF Locals
<1>6. AllEntered'
  BY <1>4, ActorsApart DEF AllEntered
<1>7. Counted'
  BY <1>1, Acting, CountedStays DEF Inv
<1> QED
  BY <1>2, <1>3, <1>5, <1>6, <1>7, InvParts

\* A thread without entries may get a producer, and may lose it.
LEMMA EnteredNowhere ==
    ASSUME UNCHANGED tables, NEW i \in Ids, \A n \in DOMAIN tables : SlotsOf(n, i) = {},
           \/ call'[i].at = "subscribe"
           \/ call'[i].at = "idle" /\ producer'[i] = NoProducer
    PROVE  Entered(i)'
  BY SameTables DEF Entered, Placed, Present, Leaving, Probing, Keeps

\* A producer that nobody has is acquired.
LEMMA AcquireInv ==
    ASSUME Inv, NEW a \in Actors, call[a].at = "recycle", UNCHANGED <<hashVars, notifier, queue>>,
           NEW p \in DOMAIN list', Acquire(a, p), list' \in Seq(Records),
           Len(list) <= Len(list'), Len(list') <= MaxProducers,
           \A q \in DOMAIN list' : q # p => q \in DOMAIN list /\ list'[q] = list[q],
           \A b \in Actors : producer[b] # p,
           ~list'[p].inactive, list'[p].isExplicit = IsExplicit(a), list'[p].token = TokenOf(a)
    PROVE  Inv'
<1>1. UNCHANGED tables
  BY DEF hashVars
<1>2. producer[a] = NoProducer /\ queue
  BY Acting DEF Local
<1>3. \/ IsExplicit(a) /\ Goes(a, "idle", 0, 0, 0)
      \/ ~IsExplicit(a) /\ Goes(a, "subscribe", call[a].mainHash, call[a].index, call[a].ptr)
  BY Acting, ReturnGoes, GotoGoes DEF Acquire, Labels
<1>4. producer \in [Actors -> 0..Len(list)] /\ producer' = [producer EXCEPT ![a] = p]
  BY DEF Inv, Types, Acquire
<1>5. /\ Len(list) \in Nat /\ Len(list') \in Nat
      /\ DOMAIN list = 1..Len(list) /\ DOMAIN list' = 1..Len(list')
  BY Acting
<1>6. producer' \in [Actors -> 0..Len(list')] /\ producer'[a] = p /\ p # NoProducer
  BY <1>4, <1>5 DEF NoProducer
<1>7. Alone(a)
  BY <1>3, <1>4 DEF Goes, Alone
<1>8. Local(a)'
  <2>1. a \in Ids => ~IsExplicit(a)
    BY ActorsApart
  <2> QED
    BY <1>1, <1>3, <1>6, <2>1, ActorsApart, Acting DEF Goes, Local, IsExplicit
<1>9. a \in Ids => Entered(a)'
  <2>1. a \in Ids => \A n \in DOMAIN tables : SlotsOf(n, a) = {}
    BY <1>2, Acting, NoEntries DEF Entered
  <2>2. a \in Ids => call'[a].at = "subscribe"
    BY <1>3, ActorsApart DEF Goes
  <2> QED
    BY <1>1, <2>1, <2>2, EnteredNowhere
<1>10. Owners'
  <2>1. \A q \in DOMAIN list' : q # NoProducer
    BY <1>5 DEF NoProducer
  <2>2. DOMAIN list \subseteq DOMAIN list'
    BY <1>5
  <2>3. a \in Ids /\ call'[a].at # "subscribe" => list'[p].listener
    BY <1>3, ActorsApart DEF Goes
  <2>4. a \in Tokens /\ call'[a].at = "idle" => list'[p].token = a
    BY DEF TokenOf, IsExplicit
  <2> QED
    BY <1>2, <1>6, <1>7, <2>1, <2>2, <2>3, <2>4, OwnersStep
<1>11. a \in Counting' => a \in Counting
  BY DEF Counting
<1>12. notifier' \in Ids \union {Nobody} /\ UNCHANGED <<hashVars, queue>>
  BY Acting
<1> QED
  BY <1>2, <1>6, <1>7, <1>8, <1>9, <1>10, <1>11, <1>12, OwnerStep

LEMMA RecycleInv ==
    ASSUME Inv, NEW a \in Actors, Recycle(a)
    PROVE  Inv'
<1>1. Candidate(a) /\ UNCHANGED <<hashVars, notifier, queue>>
  BY DEF Recycle
<1>2. PICK p : p = call[a].ptr
  OBVIOUS
<1>3. /\ call[a].at = "recycle" /\ p > 0 /\ list[p].inactive
      /\ list[p].isExplicit = IsExplicit(a)
  BY <1>1, <1>2 DEF Candidate
<1>4. p \in DOMAIN list /\ list \in Seq(Records) /\ Len(list) <= MaxProducers
  BY <1>2, <1>3, Acting DEF Local
<1>5. PICK record : record = [list[p] EXCEPT !.inactive = FALSE, !.token = TokenOf(a)]
  OBVIOUS
<1>6. /\ record \in Records /\ ~record.inactive
      /\ record.isExplicit = IsExplicit(a) /\ record.token = TokenOf(a)
  <2>1. list[p] \in Records
    BY <1>4
  <2>2. TokenOf(a) \in Tokens \union {Nobody}
    BY DEF TokenOf, IsExplicit
  <2> QED
    BY <1>3, <1>5, <2>1, <2>2 DEF Records
<1>7. Rewrites(p, record)
  BY <1>2, <1>5 DEF Recycle, Rewrites
<1>8. /\ list' \in Seq(Records) /\ DOMAIN list' = DOMAIN list /\ Len(list') = Len(list)
      /\ list'[p] = record
      /\ \A q \in DOMAIN list \ {p} : list'[q] = list[q]
  BY <1>4, <1>6, <1>7, RewriteList
<1>9. \A b \in Actors : producer[b] # p
  <2>1. p # NoProducer
    BY <1>4 DEF NoProducer
  <2> QED
    BY <1>3, <2>1 DEF Inv, Owners
<1>10. Acquire(a, p)
  BY <1>2 DEF Recycle
<1>11. /\ p \in DOMAIN list' /\ Len(list) <= Len(list') /\ Len(list') <= MaxProducers
       /\ \A q \in DOMAIN list' : q # p => q \in DOMAIN list /\ list'[q] = list[q]
       /\ ~list'[p].inactive /\ list'[p].isExplicit = IsExplicit(a)
       /\ list'[p].token = TokenOf(a)
  BY <1>4, <1>6, <1>8
<1> QED
  BY <1>1, <1>3, <1>8, <1>9, <1>10, <1>11, AcquireInv

LEMMA CreateInv ==
    ASSUME Inv, NEW a \in Actors, Create(a)
    PROVE  Inv'
<1>1. /\ call[a].at = "recycle" /\ Len(list) < MaxProducers
      /\ UNCHANGED <<hashVars, notifier, queue>> /\ Acquire(a, Len(list) + 1)
  BY DEF Create
<1>2. list \in Seq(Records) /\ DOMAIN list = 1..Len(list)
  BY Acting
<1>3. PICK n \in Nat : n = Len(list)
  BY Acting
<1>4. PICK record : record = [isExplicit |-> IsExplicit(a), inactive |-> FALSE,
                              token |-> TokenOf(a), listener |-> FALSE]
  OBVIOUS
<1>5. /\ record \in Records /\ ~record.inactive
      /\ record.isExplicit = IsExplicit(a) /\ record.token = TokenOf(a)
  BY <1>4 DEF Records, TokenOf, IsExplicit
<1>6. list' = Append(list, record)
  BY <1>4 DEF Create
<1>7. /\ list' \in Seq(Records) /\ Len(list') = n + 1 /\ list'[n + 1] = record
      /\ \A q \in 1..n : list'[q] = list[q]
  BY <1>2, <1>3, <1>5, <1>6
<1>8. /\ n + 1 \in DOMAIN list' /\ Len(list) <= Len(list') /\ Len(list') <= MaxProducers
      /\ \A q \in DOMAIN list' : q # n + 1 => q \in DOMAIN list /\ list'[q] = list[q]
  <2>1. DOMAIN list' = 1..(n + 1)
    BY <1>7
  <2> QED
    BY <1>1, <1>2, <1>3, <1>7, <2>1, ProducersAssumption
<1>9. \A b \in Actors : producer[b] # n + 1
  <2>1. \A b \in Actors : producer[b] \in 0..n
    BY <1>3, Acting
  <2> QED
    BY <2>1
<1>10. Acquire(a, n + 1)
  BY <1>1, <1>3
<1> QED
  BY <1>1, <1>5, <1>7, <1>8, <1>9, <1>10, AcquireInv

\* A producer is given back.
LEMMA GiveBackInv ==
    ASSUME Inv, NEW a \in Actors, NEW p, p = producer[a], p # NoProducer, queue,
           NEW record \in Records, record.inactive, Rewrites(p, record),
           producer' = [producer EXCEPT ![a] = NoProducer], Return(a),
           a \in Ids => \A n \in DOMAIN tables : SlotsOf(n, a) = {},
           notifier' \in Ids \union {Nobody}, UNCHANGED <<hashVars, queue>>
    PROVE  Inv'
<1>1. /\ p \in DOMAIN list /\ list \in Seq(Records) /\ Len(list) <= MaxProducers
      /\ producer \in [Actors -> 0..Len(list)]
  BY Acting DEF NoProducer, Inv, Types
<1>2. /\ list' \in Seq(Records) /\ DOMAIN list' = DOMAIN list /\ Len(list') = Len(list)
      /\ list'[p] = record
      /\ \A q \in DOMAIN list \ {p} : list'[q] = list[q]
  BY <1>1, RewriteList
<1>3. Goes(a, "idle", 0, 0, 0)
  BY Acting, ReturnGoes
<1>4. Alone(a)
  BY <1>1, <1>3 DEF Goes, Alone
<1>5. producer' \in [Actors -> 0..Len(list')] /\ producer'[a] = NoProducer
  BY <1>1, <1>2, Acting DEF NoProducer
<1>6. Local(a)'
  BY <1>3, <1>5, ActorsApart DEF Goes, Local
<1>7. a \in Ids => Entered(a)'
  <2>1. UNCHANGED tables
    BY DEF hashVars
  <2> QED
    BY <1>3, <1>5, <2>1, EnteredNowhere DEF Goes
<1>8. Owners'
  <2>1. \A b \in Actors \ {a} : producer[b] # p
    BY DEF Inv, Owners
  <2>2. \A q \in DOMAIN list' : q # NoProducer
    BY <1>2, Acting DEF NoProducer
  <2>3. \A q \in DOMAIN list' : q # p => q \in DOMAIN list /\ q # NoProducer /\ list'[q] = list[q]
    BY <1>2, <2>2
  <2>4. p \in DOMAIN list' /\ DOMAIN list \subseteq DOMAIN list' /\ list'[p].inactive
    BY <1>1, <1>2
  <2> QED
    BY <1>4, <1>5, <2>1, <2>3, <2>4, OwnersStep
<1>9. a \notin Counting'
  BY <1>3 DEF Goes, Counting
<1>10. Len(list) <= Len(list') /\ Len(list') <= MaxProducers
  BY <1>1, <1>2, Acting
<1> QED
  BY <1>2, <1>4, <1>5, <1>6, <1>7, <1>8, <1>9, <1>10, OwnerStep

LEMMA ExitedInv ==
    ASSUME Inv, NEW i \in Ids, Exited(i)
    PROVE  Inv'
<1>1. /\ call[i].at = "exit" /\ call[i].ptr = 0 /\ Return(i) /\ notifier' = Nobody
      /\ producer' = [producer EXCEPT ![i] = NoProducer] /\ UNCHANGED <<hashVars, queue>>
  BY DEF Exited
<1>2. PICK p : p = producer[i]
  OBVIOUS
<1>3. p # NoProducer /\ p \in DOMAIN list /\ queue /\ list \in Seq(Records)
  BY <1>1, <1>2, ActorsApart, Acting DEF Local, NoProducer
<1>4. PICK record : record = [list[p] EXCEPT !.inactive = TRUE, !.listener = FALSE]
  OBVIOUS
<1>5. record \in Records /\ record.inactive
  <2>1. list[p] \in Records
    BY <1>3
  <2> QED
    BY <1>4, <2>1 DEF Records
<1>6. Rewrites(p, record)
  BY <1>2, <1>4 DEF Exited, Rewrites
<1>7. \A n \in DOMAIN tables : SlotsOf(n, i) = {}
  <2>1. \A n \in DOMAIN tables : 0 < n
    BY ActorsApart, Acting
  <2> QED
    BY <1>1, <2>1, ActorsApart, Acting DEF Entered, Leaving
<1>8. notifier' \in Ids \union {Nobody}
  BY <1>1
<1> QED
  BY <1>1, <1>2, <1>3, <1>5, <1>6, <1>7, <1>8, ActorsApart, GiveBackInv

LEMMA TokenDroppedInv ==
    ASSUME Inv, NEW o \in Tokens, TokenDropped(o)
    PROVE  Inv'
<1>1. /\ call[o].at = "drop" /\ Return(o)
      /\ producer' = [producer EXCEPT ![o] = NoProducer] /\ UNCHANGED <<hashVars, notifier, queue>>
  BY DEF TokenDropped
<1>2. o \in Actors /\ o \notin Ids
  BY ActorsApart DEF Actors
<1>3. PICK p : p = producer[o]
  OBVIOUS
<1>4. p # NoProducer /\ p \in DOMAIN list /\ queue /\ list \in Seq(Records)
  BY <1>1, <1>2, <1>3, Acting DEF Local, NoProducer
<1>5. PICK record : record = [list[p] EXCEPT !.inactive = TRUE]
  OBVIOUS
<1>6. record \in Records /\ record.inactive
  <2>1. list[p] \in Records
    BY <1>4
  <2> QED
    BY <1>5, <2>1 DEF Records
<1>7. Rewrites(p, record)
  BY <1>3, <1>5 DEF TokenDropped, Rewrites
<1>8. notifier' \in Ids \union {Nobody} /\ UNCHANGED <<hashVars, queue>>
  BY <1>1, <1>2, Acting
<1> QED
  BY <1>1, <1>2, <1>3, <1>4, <1>6, <1>7, <1>8, GiveBackInv

\* What an owner writes into its producer.
LEMMA SubscribeInv ==
    ASSUME Inv, NEW i \in Ids, Subscribe(i)
    PROVE  Inv'
<1>1. call[i].at = "subscribe" /\ UNCHANGED <<hashVars, notifier, queue, producer>>
  BY DEF Subscribe
<1>2. PICK p : p = producer[i]
  OBVIOUS
<1>3. /\ p # NoProducer /\ p \in DOMAIN list /\ queue /\ list \in Seq(Records)
      /\ Len(list) <= MaxProducers /\ call[i].index = 0
  BY <1>1, <1>2, ActorsApart, Acting DEF Local, NoProducer
<1>4. PICK record : record = [list[p] EXCEPT !.listener = TRUE]
  OBVIOUS
<1>5. ~list[p].inactive /\ list[p].isExplicit = IsExplicit(i)
  BY <1>2, <1>3, ActorsApart DEF Inv, Owners
<1>6. /\ record \in Records /\ record.listener /\ ~record.inactive
      /\ record.isExplicit = IsExplicit(i)
  <2>1. list[p] \in Records
    BY <1>3
  <2> QED
    BY <1>4, <1>5, <2>1 DEF Records
<1>7. Rewrites(p, record)
  BY <1>2, <1>4 DEF Subscribe, Rewrites
<1>8. /\ list' \in Seq(Records) /\ DOMAIN list' = DOMAIN list /\ Len(list') = Len(list)
      /\ list'[p] = record
      /\ \A q \in DOMAIN list \ {p} : list'[q] = list[q]
  BY <1>3, <1>6, <1>7, RewriteList
<1>9. Goes(i, "add", call[i].mainHash, call[i].index, call[i].ptr)
  BY ActorsApart, Acting, GotoGoes DEF Subscribe, Labels
<1>10. Alone(i)
  BY <1>1, <1>9 DEF Goes, Alone
<1>11. UNCHANGED tables /\ producer'[i] = p
  BY <1>1, <1>2 DEF hashVars
<1>12. Local(i)'
  BY <1>1, <1>3, <1>9, <1>11, ActorsApart, Acting DEF Goes, Local
<1>13. Entered(i)'
  <2>1. Passed(call[i].mainHash, i, 0)
    BY DEF Passed
  <2> QED
    BY <1>2, <1>3, <1>9, <1>11, <2>1, EnteredQuiet DEF Goes
<1>14. Owners'
  <2>1. \A b \in Actors \ {i} : producer[b] # p
    BY <1>2, <1>3, ActorsApart DEF Inv, Owners
  <2>2. \A q \in DOMAIN list' : q # p => q \in DOMAIN list /\ q # NoProducer /\ list'[q] = list[q]
    BY <1>8, ActorsApart, Acting DEF NoProducer
  <2> QED
    BY <1>2, <1>3, <1>6, <1>8, <1>10, <1>11, <2>1, <2>2, ActorsApart, OwnersStep
<1>15. i \in Counting' => i \in Counting
  BY <1>1 DEF Counting
<1>16. /\ producer' \in [Actors -> 0..Len(list')] /\ notifier' \in Ids \union {Nobody}
       /\ Len(list) <= Len(list') /\ Len(list') <= MaxProducers
       /\ UNCHANGED <<hashVars, queue>>
  <2>1. producer \in [Actors -> 0..Len(list)]
    BY DEF Inv, Types
  <2> QED
    BY <1>1, <1>3, <1>8, <2>1, ActorsApart, Acting
<1> QED
  BY <1>3, <1>8, <1>10, <1>12, <1>13, <1>14, <1>15, <1>16, ActorsApart, OwnerStep

LEMMA DropTokenInv ==
    ASSUME Inv, NEW o \in Tokens, DropToken(o)
    PROVE  Inv'
<1>1. /\ call[o].at = "idle" /\ UNCHANGED <<hashVars, notifier, queue, producer>>
      /\ producer[o] # NoProducer
  BY DEF DropToken
<1>2. PICK p : p = producer[o]
  OBVIOUS
<1>3. o \in Actors /\ o \notin Ids
  BY ActorsApart DEF Actors
<1>4. p \in DOMAIN list /\ list \in Seq(Records) /\ Len(list) <= MaxProducers /\ call[o].index = 0
  BY <1>1, <1>2, <1>3, Acting DEF Local, NoProducer
<1>5. PICK record : record = [list[p] EXCEPT !.token = Nobody]
  OBVIOUS
<1>6. ~list[p].inactive /\ list[p].isExplicit = IsExplicit(o)
  BY <1>1, <1>2, <1>3 DEF Inv, Owners
<1>7. record \in Records /\ ~record.inactive /\ record.isExplicit = IsExplicit(o)
  <2>1. list[p] \in Records
    BY <1>4
  <2> QED
    BY <1>5, <1>6, <2>1 DEF Records
<1>8. Rewrites(p, record)
  BY <1>2, <1>5 DEF DropToken, Rewrites
<1>9. /\ list' \in Seq(Records) /\ DOMAIN list' = DOMAIN list /\ Len(list') = Len(list)
      /\ list'[p] = record
      /\ \A q \in DOMAIN list \ {p} : list'[q] = list[q]
  BY <1>4, <1>7, <1>8, RewriteList
<1>10. Goes(o, "drop", call[o].mainHash, call[o].index, call[o].ptr)
  BY <1>3, Acting, GotoGoes DEF DropToken, Labels
<1>11. Alone(o)
  BY <1>1, <1>10 DEF Goes, Alone
<1>12. queue
  <2>1. list # <<>>
    BY <1>4
  <2> QED
    BY <2>1 DEF Inv, Alive
<1>13. Local(o)'
  BY <1>1, <1>3, <1>4, <1>10 DEF Goes, Local
<1>14. Owners'
  <2>1. \A b \in Actors \ {o} : producer[b] # p
    BY <1>1, <1>2, <1>3 DEF Inv, Owners
  <2>2. \A q \in DOMAIN list' : q # p => q \in DOMAIN list /\ q # NoProducer /\ list'[q] = list[q]
    BY <1>3, <1>9, Acting DEF NoProducer
  <2>3. call'[o].at = "drop" /\ producer'[o] = p
    BY <1>1, <1>2, <1>10 DEF Goes
  <2> QED
    BY <1>1, <1>2, <1>3, <1>4, <1>7, <1>9, <1>11, <2>1, <2>2, <2>3, OwnersStep
<1>15. o \notin Counting'
  BY <1>3 DEF Counting
<1>16. /\ producer' \in [Actors -> 0..Len(list')] /\ notifier' \in Ids \union {Nobody}
       /\ Len(list) <= Len(list') /\ Len(list') <= MaxProducers
       /\ UNCHANGED <<hashVars, queue>>
  <2>1. producer \in [Actors -> 0..Len(list)]
    BY DEF Inv, Types
  <2> QED
    BY <1>1, <1>3, <1>4, <1>9, <2>1, Acting
<1> QED
  BY <1>3, <1>9, <1>11, <1>12, <1>13, <1>14, <1>15, <1>16, OwnerStep

--------------------------------------------------------------------------------
(* Steps of two tokens and of the queue.                                       *)

LEMMA SwapTokensInv ==
    ASSUME Inv, NEW o \in Tokens, NEW q \in Tokens, SwapTokens(o, q)
    PROVE  Inv'
<1>1. /\ o # q /\ call[o].at = "idle" /\ call[q].at = "idle"
      /\ producer' = [producer EXCEPT ![o] = producer[q], ![q] = producer[o]]
      /\ UNCHANGED <<tables, hashCount, resizing, notifier, queue, call>>
  BY DEF SwapTokens, Swapped, hashVars
<1>2. /\ o \in Actors /\ q \in Actors /\ o \notin Ids /\ q \notin Ids
      /\ producer \in [Actors -> 0..Len(list)] /\ list \in Seq(Records)
      /\ Len(list) <= MaxProducers /\ DOMAIN list = 1..Len(list) /\ Len(list) \in Nat
  BY ActorsApart, Acting DEF Actors, Inv, Types
<1>3. /\ producer' \in [Actors -> 0..Len(list)]
      /\ producer'[o] = producer[q] /\ producer'[q] = producer[o]
      /\ \A b \in Actors \ {o, q} : producer'[b] = producer[b]
  BY <1>1, <1>2
<1>4. \A b, c \in Actors : producer'[b] = producer'[c] /\ producer'[b] # NoProducer => b = c
  BY <1>1, <1>2, <1>3 DEF Inv, Owners
<1> DEFINE Holder(p) == CHOOSE x \in {o, q} : producer'[x] = p
           Held(p) == \E x \in {o, q} : producer'[x] = p
<1>5. list' = [p \in DOMAIN list |->
                  IF Held(p) THEN [list[p] EXCEPT !.token = Holder(p)] ELSE list[p]]
  BY DEF SwapTokens
<1>6. ASSUME NEW p \in DOMAIN list, Held(p)
      PROVE  Holder(p) \in {o, q} /\ producer'[Holder(p)] = p
  BY <1>6
<1>7. ASSUME NEW p \in DOMAIN list
      PROVE  /\ list'[p] \in Records
             /\ list'[p].inactive = list[p].inactive
             /\ list'[p].isExplicit = list[p].isExplicit
             /\ list'[p].listener = list[p].listener
             /\ ~Held(p) => list'[p].token = list[p].token
             /\ Held(p) => list'[p].token = Holder(p)
  <2>1. list[p] \in Records
    BY <1>2
  <2>2. CASE Held(p)
    <3>1. PICK x \in {o, q} : x = Holder(p)
      BY <1>6, <2>2
    <3>2. list'[p] = [list[p] EXCEPT !.token = x]
      BY <1>5, <2>2, <3>1
    <3> QED
      BY <2>1, <2>2, <3>1, <3>2 DEF Records
  <2>3. CASE ~Held(p)
    BY <1>5, <2>1, <2>3
  <2> QED
    BY <2>2, <2>3
<1>8. ASSUME NEW x \in {o, q}, producer'[x] # NoProducer
      PROVE  list'[producer'[x]].token = x
  <2>1. PICK p \in DOMAIN list : p = producer'[x]
    BY <1>2, <1>3, <1>8 DEF NoProducer
  <2>2. Held(p)
    BY <2>1
  <2>3. Holder(p) \in Actors /\ producer'[Holder(p)] = p
    BY <1>2, <1>6, <2>2
  <2>4. Holder(p) = x
    BY <1>2, <1>4, <1>8, <2>1, <2>3
  <2> QED
    BY <1>7, <2>1, <2>2, <2>4
<1>9. ASSUME NEW b \in Actors \ {o, q}, producer[b] # NoProducer
      PROVE  list'[producer[b]].token = list[producer[b]].token
  <2>1. PICK p \in DOMAIN list : p = producer[b]
    BY <1>2, <1>9 DEF NoProducer
  <2>2. ~Held(p)
    BY <1>2, <1>3, <1>4, <1>9, <2>1
  <2> QED
    BY <1>7, <2>1, <2>2
<1>10. DOMAIN list' = DOMAIN list
  BY <1>5
<1>11. list' \in Seq(Records) /\ Len(list') = Len(list)
  <2>1. PICK n \in Nat : n = Len(list)
    BY <1>2
  <2>2. list' \in [1..n -> Records]
    BY <1>2, <1>5, <1>7, <2>1
  <2> QED
    BY <2>1, <2>2
<1> HIDE DEF Holder, Held
<1>12. Types'
  BY <1>1, <1>2, <1>3, <1>11 DEF Inv, Types
<1>13. Alive'
  <2>1. list = <<>> => list' = <<>>
    <3>1. list = <<>> => Len(list') = 0
      BY <1>11
    <3> QED
      BY <1>11, <3>1
  <2> QED
    BY <1>1, <2>1 DEF Inv, Alive
<1>14. ASSUME NEW b \in Actors PROVE Local(b)'
  <2>1. CASE b \in {o, q}
    <3>1. call[b].index = 0
      BY <1>1, <1>2, <2>1, Acting DEF Local
    <3> QED
      BY <1>1, <1>2, <2>1, <3>1 DEF Local
  <2>2. CASE b \notin {o, q}
    <3>1. producer'[b] = producer[b]
      BY <1>3, <2>2
    <3> QED
      BY <1>1, <1>11, <3>1, Acting DEF Local
  <2> QED
    BY <2>1, <2>2
<1>15. ASSUME NEW i \in Ids PROVE Entered(i)'
  <2>1. producer'[i] = producer[i] /\ call'[i] = call[i]
    BY <1>1, <1>2, <1>3, ActorsApart
  <2>2. Extends /\ Keeps(i)
    BY <1>1, SameTables
  <2> QED
    BY <2>1, <2>2, ActorsApart, Acting, EnteredStays
<1>16. Owners'
  <2>1. ASSUME NEW b \in Actors, producer'[b] # NoProducer
        PROVE  /\ ~list'[producer'[b]].inactive
               /\ list'[producer'[b]].isExplicit = IsExplicit(b)
               /\ b \in Ids /\ call'[b].at # "subscribe" => list'[producer'[b]].listener
               /\ b \in Tokens /\ call'[b].at = "idle" => list'[producer'[b]].token = b
    <3>1. CASE b \in {o, q}
      <4>1. PICK c \in {o, q} : producer[c] = producer'[b]
        BY <1>3, <3>1
      <4>2. producer'[b] \in DOMAIN list
        BY <1>2, <1>3, <2>1 DEF NoProducer
      <4>3. ~list[producer[c]].inactive /\ list[producer[c]].isExplicit
        BY <1>2, <2>1, <4>1 DEF Inv, Owners, IsExplicit
      <4> QED
        BY <1>2, <1>7, <1>8, <2>1, <3>1, <4>1, <4>2, <4>3 DEF IsExplicit
    <3>2. CASE b \notin {o, q}
      <4>1. producer'[b] = producer[b] /\ producer[b] \in DOMAIN list
        BY <1>2, <1>3, <2>1, <3>2 DEF NoProducer
      <4>2. /\ ~list[producer[b]].inactive
            /\ list[producer[b]].isExplicit = IsExplicit(b)
            /\ b \in Ids /\ call[b].at # "subscribe" => list[producer[b]].listener
            /\ b \in Tokens /\ call[b].at = "idle" => list[producer[b]].token = b
        BY <2>1, <4>1 DEF Inv, Owners
      <4> QED
        BY <1>1, <1>7, <1>9, <2>1, <3>2, <4>1, <4>2
    <3> QED
      BY <3>1, <3>2
  <2>2. ASSUME NEW p \in DOMAIN list', ~list'[p].inactive
        PROVE  \E b \in Actors : producer'[b] = p
    <3>1. PICK b \in Actors : producer[b] = p
      BY <1>7, <1>10, <2>2 DEF Inv, Owners
    <3>2. CASE b \in {o, q}
      BY <1>2, <1>3, <3>1, <3>2
    <3>3. CASE b \notin {o, q}
      BY <1>3, <3>1, <3>3
    <3> QED
      BY <3>2, <3>3
  <2> QED
    BY <1>4, <2>1, <2>2, Zenon DEF Owners, IsExplicit
<1>17. Counted'
  BY <1>1 DEF Inv, Counted, Counting
<1> QED
  BY <1>12, <1>13, <1>14, <1>15, <1>16, <1>17 DEF Inv, Locals, AllEntered

\* When nothing is under way, nobody has a producer and there is no table with an entry.
LEMMA NothingHeld ==
    ASSUME \A a \in Actors : call[a].at = "idle" /\ call[a].index = 0 /\ producer[a] = NoProducer,
           \A n \in DOMAIN tables : \A i \in Ids : SlotsOf(n, i) = {},
           list = <<>>, hashCount = 0
    PROVE  Locals /\ Owners /\ AllEntered /\ Counted
<1>1. Locals
  BY ActorsApart DEF Locals, Local
<1>2. Owners
  BY DEF Owners
<1>3. AllEntered
  BY ActorsApart DEF AllEntered, Entered, Placed, Present, Leaving, Probing
<1>4. Counted
  <2>1. Counting = {}
    BY ActorsApart DEF Counting
  <2> QED
    BY <2>1, FS_EmptySet DEF Counted
<1> QED
  BY <1>1, <1>2, <1>3, <1>4

LEMMA NothingHeldPrimed ==
    ASSUME \A a \in Actors : call'[a].at = "idle" /\ call'[a].index = 0 /\ producer'[a] = NoProducer,
           \A n \in DOMAIN tables' : \A i \in Ids : SlotsOf(n, i)' = {},
           list' = <<>>, hashCount' = 0
    PROVE  Locals' /\ Owners' /\ AllEntered' /\ Counted'
<1>1. Locals'
  BY ActorsApart DEF Locals, Local
<1>2. Owners'
  BY DEF Owners
<1>3. AllEntered'
  BY ActorsApart DEF AllEntered, Entered, Placed, Present, Leaving, Probing
<1>4. Counted'
  <2>1. Counting' = {}
    BY ActorsApart DEF Counting
  <2> QED
    BY <2>1, FS_EmptySet DEF Counted
<1> QED
  BY <1>1, <1>2, <1>3, <1>4

LEMMA DestroyInv ==
    ASSUME Inv, Destroy
    PROVE  Inv'
<1>1. /\ queue /\ \A a \in Actors : call[a].at = "idle"
      /\ queue' = FALSE /\ list' = <<>> /\ tables' = <<>> /\ hashCount' = 0
      /\ UNCHANGED <<resizing, notifier, call>>
  BY DEF Destroy
<1>2. producer' = [a \in Actors |->
                       IF \E p \in DOMAIN list :
                             IF IsExplicit(a) THEN list[p].token = a
                             ELSE producer[a] = p /\ list[p].listener /\ ~list[p].inactive
                       THEN NoProducer ELSE producer[a]]
  BY DEF Destroy
<1>3. ASSUME NEW a \in Actors PROVE producer'[a] = NoProducer
  <2>1. CASE producer[a] = NoProducer
    BY <1>2, <2>1
  <2>2. CASE producer[a] # NoProducer
    <3>1. PICK p \in DOMAIN list : p = producer[a]
      BY <2>2, Acting DEF NoProducer
    <3>2. /\ ~list[p].inactive
          /\ a \in Ids => list[p].listener
          /\ a \in Tokens => list[p].token = a
      BY <1>1, <2>2, <3>1 DEF Inv, Owners
    <3>3. IF IsExplicit(a) THEN list[p].token = a
          ELSE producer[a] = p /\ list[p].listener /\ ~list[p].inactive
      BY <3>1, <3>2 DEF IsExplicit, Actors
    <3> QED
      BY <1>2, <3>1, <3>3
  <2> QED
    BY <2>1, <2>2
<1>4. Types'
  <2>1. producer' \in [Actors -> 0..Len(list')]
    BY <1>1, <1>2, <1>3 DEF NoProducer
  <2>2. list' \in Seq(Records) /\ Len(list') <= MaxProducers
    BY <1>1, ProducersAssumption
  <2>3. tables' \in Seq(Tables) /\ hashCount' \in Int
    BY <1>1
  <2>5. queue' \in BOOLEAN
    BY <1>1
  <2>4. resizing' \in BOOLEAN /\ notifier' \in Ids \union {Nobody} /\ call' \in [Actors -> Calls]
    BY <1>1 DEF Inv, Types
  <2> QED
    BY <2>1, <2>2, <2>3, <2>4, <2>5 DEF Types
<1>5. Alive'
  BY <1>1 DEF Alive
<1>6. \A a \in Actors : call'[a].at = "idle" /\ call'[a].index = 0
  BY <1>1, Acting DEF Local
<1>7. \A n \in DOMAIN tables' : \A i \in Ids : SlotsOf(n, i)' = {}
  BY <1>1
<1> QED
  BY <1>1, <1>3, <1>4, <1>5, <1>6, <1>7, NothingHeldPrimed DEF Inv

--------------------------------------------------------------------------------

LEMMA InvInit == Init => Inv
<1> SUFFICES ASSUME Init PROVE Inv
  OBVIOUS
<1> USE DEF Init
<1>1. Table(InitialSize) \in Tables
  <2>1. InitialSize \in Nat \ {0} /\ Table(InitialSize) \in [0..(InitialSize - 1) -> Entries]
    BY ProducersAssumption DEF Table, Entries
  <2> QED
    BY <2>1 DEF Tables
<1>2. tables \in Seq(Tables) /\ tables # <<>>
  BY <1>1
<1>3. call \in [Actors -> Calls] /\ \A a \in Actors : call[a] = Idle
  <2>1. Idle \in Calls
    BY DEF Idle, Calls, Labels
  <2> QED
    BY <2>1
<1>4. Types
  <2>1. list \in Seq(Records) /\ Len(list) <= MaxProducers
    BY ProducersAssumption
  <2>2. producer \in [Actors -> 0..Len(list)]
    BY DEF NoProducer
  <2>3. resizing \in BOOLEAN /\ queue \in BOOLEAN
    OBVIOUS
  <2>4. hashCount \in Int /\ notifier \in Ids \union {Nobody}
    OBVIOUS
  <2> HIDE DEF Init
  <2> QED
    BY <1>2, <1>3, <2>1, <2>2, <2>3, <2>4 DEF Types
<1>5. Alive
  BY <1>2, <1>3 DEF Alive, Idle
<1>6. \A a \in Actors : call[a].at = "idle" /\ call[a].index = 0 /\ producer[a] = NoProducer
  BY <1>3 DEF Idle
<1>7. \A n \in DOMAIN tables : \A i \in Ids : SlotsOf(n, i) = {}
  <2>1. \A n \in DOMAIN tables : tables[n] = Table(InitialSize)
    OBVIOUS
  <2>2. \A s \in DOMAIN Table(InitialSize) : Table(InitialSize)[s] = Empty
    BY DEF Table
  <2> QED
    BY <2>1, <2>2, EntryKinds DEF SlotsOf
<1> QED
  BY <1>4, <1>5, <1>6, <1>7, NothingHeld DEF Inv

LEMMA InvStep == Inv /\ [Next]_vars => Inv'
<1> SUFFICES ASSUME Inv, [Next]_vars PROVE Inv'
  OBVIOUS
<1>1. ASSUME NEW a \in Actors, AcquireProducer(a) PROVE Inv'
  BY <1>1, RecycleInv, SkipProducerInv, CreateInv, CreateFailsInv DEF AcquireProducer
<1>2. ASSUME NEW i \in Ids, Insert(i) PROVE Inv'
  BY <1>2, CountEntryInv, LockResizeInv, NoResizeInv, GrowInv, GrowFailsInv, UnlockResizeInv,
     CheckRoomInv, SubscribeInv, AddInv, UncountInv DEF Insert
<1>3. ASSUME NEW a \in Actors, Proceed(a) PROVE Inv'
  BY <1>1, <1>2, <1>3, ReaddInv, ExitTableInv, ExitedInv, TokenDroppedInv DEF Proceed
<1>4. CASE Begin
  BY <1>4, LookInv, ExitInv, NewTokenInv, DropTokenInv, SwapTokensInv, DestroyInv DEF Begin
<1>5. CASE UNCHANGED vars
  BY <1>5 DEF vars, hashVars, Inv, Types, Alive, Locals, Local, Owners, AllEntered, Entered,
     Placed, Probed, Passed, Present, Leaving, Probing, Counted, Counting,
     Slot, SlotsOf, Capacity
<1> QED
  BY <1>3, <1>4, <1>5 DEF Next

\* The invariant holds of every state the threads and the tokens bring the queue to.
THEOREM ProducersInductive == Spec => []Inv
  BY InvInit, InvStep, PTL DEF Spec

--------------------------------------------------------------------------------
(* What the invariant says of the properties.                                  *)

LEMMA InvProducers == Inv => ProducersInv
<1> SUFFICES ASSUME Inv PROVE TypeOK /\ NothingDangles
  BY DEF ProducersInv
<1>1. Types /\ Alive
  BY DEF Inv
<1>2. ASSUME NEW n \in DOMAIN tables, NEW s \in DOMAIN tables[n], Taken(tables[n][s])
      PROVE  tables[n][s].key \in Ids /\ tables[n][s].value \in 1..MaxProducers
  <2>1. tables[n][s] \in Entries
    BY <1>1, <1>2, TableSlots DEF Types
  <2> QED
    BY <1>2, <2>1, EntryKinds
<1>3. hashCount \in Nat
  <2>1. IsFiniteSet(Counting)
    BY ProducersAssumption, FS_Subset DEF Counting
  <2>2. Cardinality(Counting) \in Nat
    BY <2>1, FS_CardinalityType
  <2>3. hashCount \in Int /\ hashCount >= Cardinality(Counting)
    BY <1>1 DEF Inv, Counted, Types
  <2> QED
    BY <2>2, <2>3
<1>4. producer \in [Actors -> 0..MaxProducers]
  <2>1. 0..Len(list) \subseteq 0..MaxProducers
    BY <1>1, ProducersAssumption DEF Types
  <2> QED
    BY <1>1, <2>1 DEF Types
<1>5. TypeOK
  BY <1>1, <1>2, <1>3, <1>4 DEF TypeOK, Types, Records
<1>6. NothingDangles
  BY <1>1 DEF Types, Alive, NothingDangles, NoProducer
<1> QED
  BY <1>5, <1>6

LEMMA InvOneOwner == Inv => OneOwner
<1> SUFFICES ASSUME Inv, NEW p \in DOMAIN list, NEW owners,
                    owners = {a \in Actors : producer[a] = p}
             PROVE  /\ Cardinality(owners) = IF list[p].inactive THEN 0 ELSE 1
                    /\ \A a \in owners : IsExplicit(a) = list[p].isExplicit
  BY DEF OneOwner
<1>1. p # NoProducer
  <2>1. list \in Seq(Records)
    BY DEF Inv, Types
  <2> QED
    BY <2>1 DEF NoProducer
<1>2. \A a \in owners : IsExplicit(a) = list[p].isExplicit /\ ~list[p].inactive
  BY <1>1 DEF Inv, Owners
<1>3. CASE list[p].inactive
  <2>1. owners = {}
    BY <1>2, <1>3
  <2> QED
    BY <1>2, <1>3, <2>1, FS_EmptySet
<1>4. CASE ~list[p].inactive
  <2>1. PICK a \in Actors : producer[a] = p
    BY <1>4 DEF Inv, Owners
  <2>2. owners = {a}
    BY <1>1, <2>1 DEF Inv, Owners
  <2>3. Cardinality(owners) = 1
    BY <2>2, FS_Singleton
  <2> QED
    BY <1>2, <1>4, <2>3
<1> QED
  BY <1>3, <1>4

LEMMA InvFoundAgain == Inv => FoundAgain
<1> SUFFICES ASSUME Inv, NEW i \in Ids, call[i].at = "idle"
             PROVE  /\ producer[i] # NoProducer => FoundIn(i) # {}
                    /\ \A n \in DOMAIN tables : \A s \in SlotsOf(n, i) :
                          tables[n][s].value = producer[i]
  BY DEF FoundAgain
<1>1. tables \in Seq(Tables) /\ Entered(i)
  BY ActorsApart, Acting
<1>2. producer[i] # NoProducer => FoundIn(i) # {}
  <2>1. producer[i] # NoProducer => \E n \in DOMAIN tables : SlotsOf(n, i) # {}
    BY <1>1 DEF Entered, Present
  <2> QED
    BY <1>1, <2>1, FindsEntries DEF FoundIn
<1> QED
  BY <1>1, <1>2 DEF Entered, Placed

\* Every reference leads to a producer and a table that exist, and nothing points into
\* a destroyed queue, whoever enqueues, exits, moves or drops its token meanwhile.
THEOREM ProducersSafe == Spec => []ProducersInv
  BY ProducersInductive, InvProducers, PTL

\* A producer in use has one owner, of its kind, and one that is not in use has none:
\* recycle_or_create_producer neither shares nor loses a sub-queue.
THEOREM OwnedOnce == Spec => []OneOwner
  BY ProducersInductive, InvOneOwner, PTL

\* A thread that enqueued is found again, with its own producer, in whichever table it
\* was entered, and a thread id that is reused is not found.
THEOREM ThreadsFound == Spec => []FoundAgain
  BY ProducersInductive, InvFoundAgain, PTL

================================================================================
