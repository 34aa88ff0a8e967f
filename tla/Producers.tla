------------------------------- MODULE Producers -------------------------------
(***************************************************************************)
(* Who enqueues into which sub-queue of a ConcurrentQueue.  A thread that  *)
(* enqueues without a token is given an implicit producer, found again     *)
(* through a lock-free hash table of thread ids that grows by prepending a *)
(* larger table; a producer token owns an explicit one.  When a thread     *)
(* exits or a token is destroyed, its producer is inactive and the next    *)
(* owner of its kind recycles it.                                          *)
(*                                                                         *)
(* A step is one atomic operation on shared memory.  A compare-exchange    *)
(* that fails spuriously is tried again and is no step.  What a thread     *)
(* writes and only itself reads (an entry's value, the fields of a         *)
(* producer it just acquired) is part of the step before.                  *)
(***************************************************************************)
EXTENDS Integers, Sequences, FiniteSets

CONSTANTS
    Ids,          \* thread ids; a thread that starts takes one nobody uses
    Home,         \* hash_thread_id of each
    MaxLive,      \* bound: threads at a time
    Tokens,       \* ProducerToken objects
    MaxTokens,    \* bound: tokens that own a producer, or are about to
    InitialSize,  \* INITIAL_IMPLICIT_PRODUCER_HASH_SIZE
    MaxTables,    \* bound: tables; the allocation of another one fails
    MaxProducers, \* bound: producers; the allocation of another one fails
    Factors,      \* bound: how many times larger a new table is, powers of two
    Empty,        \* invalid_thread_id
    Reusable,     \* invalid_thread_id2
    Nobody        \* a null token, a free lock

ASSUME ProducersAssumption ==
    /\ IsFiniteSet(Ids) /\ Ids \cap Tokens = {}
    /\ Home \in [Ids -> Nat]
    /\ InitialSize \in Nat /\ InitialSize > 1
    /\ MaxTables \in Nat \ {0} /\ MaxProducers \in Nat
    /\ Factors \subseteq Nat \ {0, 1}
    /\ Empty # Reusable /\ {Empty, Reusable} \cap [key : Ids, value : Nat] = {}
    /\ Nobody \notin Ids \union Tokens

Actors == Ids \union Tokens
NoProducer == 0

VARIABLES
    tables,     \* implicitProducerHash and its prev chain, the main one last
    hashCount,  \* implicitProducerHashCount
    resizing,   \* implicitProducerHashResizeInProgress
    list,       \* producerListTail and its next chain, the tail last
    notifier,   \* the thread inside ~ThreadExitNotifier, which holds its mutex
    queue,      \* FALSE once the queue is destroyed
    producer,   \* the producer get_or_add_implicit_producer returned to the
                \* thread, or the one the token points to
    call        \* where each actor is, with its local variables

hashVars == <<tables, hashCount, resizing>>
vars == <<hashVars, list, notifier, queue, producer, call>>

\* An entry is free, or it is a thread id with its producer.
Table(size) == [slot \in 0..(size - 1) |-> Empty]
Capacity(n) == Cardinality(DOMAIN tables[n])
Taken(entry) == entry \notin {Empty, Reusable}
SlotsOf(n, i) == {s \in DOMAIN tables[n] : Taken(tables[n][s]) /\ tables[n][s].key = i}

Idle == [at |-> "idle", mainHash |-> 0, newCount |-> 0, index |-> 0, ptr |-> 0]
Goto(a, to) == call' = [call EXCEPT ![a].at = to]
Return(a) == call' = [call EXCEPT ![a] = Idle]

Init ==
    /\ tables = <<Table(InitialSize)>>
    /\ hashCount = 0
    /\ resizing = FALSE
    /\ list = <<>>
    /\ notifier = Nobody
    /\ queue = TRUE
    /\ producer = [a \in Actors |-> NoProducer]
    /\ call = [a \in Actors |-> Idle]

--------------------------------------------------------------------------------
(* The lookup.  The entries between a thread's home and its own entry are      *)
(* never emptied again, so what the probe of a table finds depends on no other *)
(* thread; it ends there or at an empty entry.                                 *)

Slot(n, i, k) == (Home[i] + k) % Capacity(n)

Finds(n, i) ==
    \E k \in 0..(Capacity(n) - 1) :
        /\ Slot(n, i, k) \in SlotsOf(n, i)
        /\ \A j \in 0..(k - 1) : tables[n][Slot(n, i, j)] # Empty

FoundIn(i) == {n \in DOMAIN tables : Finds(n, i)}

\* The threads that enqueued before or do it now, the tokens that are valid.
Used(a) == call[a].at # "idle" \/ producer[a] # NoProducer

\* An enqueue.  One that finds the thread in the main table changes nothing here.
Look(i) ==
    /\ queue
    /\ call[i].at = "idle"
    /\ Cardinality({j \in Ids : Used(j)} \union {i}) <= MaxLive
    /\ Len(tables) \notin FoundIn(i)
    /\ call' = [call EXCEPT ![i].at = IF FoundIn(i) = {} THEN "count" ELSE "readd",
                            ![i].mainHash = Len(tables)]
    /\ UNCHANGED <<hashVars, list, notifier, queue, producer>>

\* The entry a thread's probe of its mainHash is at.
Entry(i) == tables[call[i].mainHash][Slot(call[i].mainHash, i, call[i].index)]
WriteEntry(i) ==
    tables' = [tables EXCEPT ![call[i].mainHash][Slot(call[i].mainHash, i, call[i].index)] =
                  [key |-> i, value |-> producer[i]]]
NextEntry(i) ==
    /\ Taken(Entry(i))
    /\ call' = [call EXCEPT ![i].index = @ + 1]
    /\ UNCHANGED tables

\* Found several tables deep: the thread adds itself to the main one.
Readd(i) ==
    /\ call[i].at = "readd"
    /\ \/ NextEntry(i)
       \/ ~Taken(Entry(i)) /\ WriteEntry(i) /\ Return(i)
    /\ UNCHANGED <<hashCount, resizing, list, notifier, queue, producer>>

--------------------------------------------------------------------------------
(* The insertion: count the entry, grow the table when it is half full, wait   *)
(* for the thread that grows it when it is three quarters full.                *)

CountEntry(i) ==
    /\ call[i].at = "count"
    /\ hashCount' = hashCount + 1
    /\ call' = [call EXCEPT ![i].at = "insert", ![i].newCount = hashCount + 1]
    /\ UNCHANGED <<tables, resizing, list, notifier, queue, producer>>

HalfFull(i) == call[i].newCount >= Capacity(call[i].mainHash) \div 2
Room(i) ==
    LET capacity == Capacity(call[i].mainHash)
    IN  call[i].newCount < capacity \div 2 + capacity \div 4

LockResize(i) ==
    /\ call[i].at = "insert"
    /\ HalfFull(i) /\ ~resizing
    /\ resizing' = TRUE
    /\ call' = [call EXCEPT ![i].at = "resize", ![i].mainHash = Len(tables)]
    /\ UNCHANGED <<tables, hashCount, list, notifier, queue, producer>>

NoResize(i) ==
    /\ call[i].at = "insert"
    /\ ~(HalfFull(i) /\ ~resizing)
    /\ Goto(i, "check")
    /\ UNCHANGED <<hashVars, list, notifier, queue, producer>>

\* The size is doubled until newCount is less than half of it.
Sizes(i) ==
    {c \in {Capacity(call[i].mainHash) * f : f \in Factors} : call[i].newCount < c \div 2}
NewCapacity(i) == {c \in Sizes(i) : \A d \in Sizes(i) : c <= d}

Grow(i) ==
    /\ call[i].at = "resize" /\ HalfFull(i)
    /\ Len(tables) < MaxTables
    /\ \E c \in NewCapacity(i) : tables' = Append(tables, Table(c))
    /\ call' = [call EXCEPT ![i].at = "unlock", ![i].mainHash = Len(tables) + 1]
    /\ UNCHANGED <<hashCount, resizing, list, notifier, queue, producer>>

\* Faulty: the failed allocation leaves the resize flag set.
GrowFailsLocked(i) ==
    /\ call[i].at = "resize" /\ HalfFull(i)
    /\ hashCount' = hashCount - 1
    /\ Return(i)
    /\ UNCHANGED <<tables, resizing, list, notifier, queue, producer>>

GrowFails(i) ==
    /\ call[i].at = "resize" /\ HalfFull(i)
    /\ hashCount' = hashCount - 1
    /\ resizing' = FALSE
    /\ Return(i)
    /\ UNCHANGED <<tables, list, notifier, queue, producer>>

UnlockResize(i) ==
    /\ call[i].at \in {"unlock", "resize"}
    /\ call[i].at = "resize" => ~HalfFull(i)
    /\ resizing' = FALSE
    /\ Goto(i, "check")
    /\ UNCHANGED <<tables, hashCount, list, notifier, queue, producer>>

CheckRoom(i) ==
    /\ call[i].at = "check"
    /\ call' = IF Room(i)
               THEN [call EXCEPT ![i].at = "recycle", ![i].ptr = Len(list)]
               ELSE [call EXCEPT ![i].at = "insert", ![i].mainHash = Len(tables)]
    /\ UNCHANGED <<hashVars, list, notifier, queue, producer>>

--------------------------------------------------------------------------------
(* recycle_or_create_producer, for a thread and for a token.                   *)

IsExplicit(a) == a \in Tokens

\* The constructor of a ProducerToken.
NewToken(o) ==
    /\ queue
    /\ call[o].at = "idle" /\ producer[o] = NoProducer
    /\ Cardinality({q \in Tokens : Used(q)}) < MaxTokens
    /\ call' = [call EXCEPT ![o].at = "recycle", ![o].ptr = Len(list)]
    /\ UNCHANGED <<hashVars, list, notifier, queue, producer>>

\* The actor has its producer: a token is recorded in it, a thread goes on to
\* subscribe its listener.
Acquire(a, p) ==
    /\ producer' = [producer EXCEPT ![a] = p]
    /\ IF IsExplicit(a) THEN Return(a) ELSE Goto(a, "subscribe")

TokenOf(a) == IF IsExplicit(a) THEN a ELSE Nobody

\* One producer of the walk from the tail that was read first.
Candidate(a) ==
    /\ call[a].at = "recycle" /\ call[a].ptr > 0
    /\ list[call[a].ptr].inactive /\ list[call[a].ptr].isExplicit = IsExplicit(a)

\* Faulty: the producer is taken without the exchange that marks it active.
RecycleUnmarked(a) ==
    /\ Candidate(a)
    /\ list' = [list EXCEPT ![call[a].ptr].token = TokenOf(a)]
    /\ Acquire(a, call[a].ptr)
    /\ UNCHANGED <<hashVars, notifier, queue>>

Recycle(a) ==
    /\ Candidate(a)
    /\ list' = [list EXCEPT ![call[a].ptr].inactive = FALSE, ![call[a].ptr].token = TokenOf(a)]
    /\ Acquire(a, call[a].ptr)
    /\ UNCHANGED <<hashVars, notifier, queue>>

SkipProducer(a) ==
    /\ call[a].at = "recycle" /\ call[a].ptr > 0 /\ ~Candidate(a)
    /\ call' = [call EXCEPT ![a].ptr = @ - 1]
    /\ UNCHANGED <<hashVars, list, notifier, queue, producer>>

Create(a) ==
    /\ call[a].at = "recycle" /\ call[a].ptr = 0
    /\ Len(list) < MaxProducers
    /\ list' = Append(list, [isExplicit |-> IsExplicit(a), inactive |-> FALSE,
                             token |-> TokenOf(a), listener |-> FALSE])
    /\ Acquire(a, Len(list) + 1)
    /\ UNCHANGED <<hashVars, notifier, queue>>

\* Without memory the thread's entry is not counted, the token is not valid.
CreateFails(a) ==
    /\ call[a].at = "recycle" /\ call[a].ptr = 0
    /\ hashCount' = IF IsExplicit(a) THEN hashCount ELSE hashCount - 1
    /\ Return(a)
    /\ UNCHANGED <<tables, resizing, list, notifier, queue, producer>>

Subscribe(i) ==
    /\ call[i].at = "subscribe"
    /\ notifier = Nobody
    /\ list' = [list EXCEPT ![producer[i]].listener = TRUE]
    /\ Goto(i, "add")
    /\ UNCHANGED <<hashVars, notifier, queue, producer>>

Add(i) ==
    /\ call[i].at = "add"
    /\ \/ NextEntry(i)
       \/ Entry(i) = Empty /\ WriteEntry(i) /\ Return(i)
       \/ Entry(i) = Reusable /\ WriteEntry(i) /\ Goto(i, "uncount")
    /\ UNCHANGED <<hashCount, resizing, list, notifier, queue, producer>>

\* A reused entry was already counted.
Uncount(i) ==
    /\ call[i].at = "uncount"
    /\ hashCount' = hashCount - 1
    /\ Return(i)
    /\ UNCHANGED <<tables, resizing, list, notifier, queue, producer>>

--------------------------------------------------------------------------------
(* The thread exits: its listener takes its id out of every table and gives    *)
(* its producer back, under the notifier's mutex.                              *)

Exit(i) ==
    /\ call[i].at = "idle" /\ producer[i] # NoProducer
    /\ queue
    /\ notifier = Nobody
    /\ notifier' = i
    /\ call' = [call EXCEPT ![i].at = "exit", ![i].ptr = Len(tables)]
    /\ UNCHANGED <<hashVars, list, queue, producer>>

WithoutEntry(n, i) ==
    IF Finds(n, i)
    THEN [s \in DOMAIN tables[n] |-> IF s \in SlotsOf(n, i) THEN Reusable ELSE tables[n][s]]
    ELSE tables[n]

\* Faulty: only the main table is searched.
ExitMainTable(i) ==
    /\ call[i].at = "exit" /\ call[i].ptr > 0
    /\ tables' = [tables EXCEPT ![call[i].ptr] = WithoutEntry(call[i].ptr, i)]
    /\ call' = [call EXCEPT ![i].ptr = 0]
    /\ UNCHANGED <<hashCount, resizing, list, notifier, queue, producer>>

ExitTable(i) ==
    /\ call[i].at = "exit" /\ call[i].ptr > 0
    /\ tables' = [tables EXCEPT ![call[i].ptr] = WithoutEntry(call[i].ptr, i)]
    /\ call' = [call EXCEPT ![i].ptr = @ - 1]
    /\ UNCHANGED <<hashCount, resizing, list, notifier, queue, producer>>

Exited(i) ==
    /\ call[i].at = "exit" /\ call[i].ptr = 0
    /\ list' = [list EXCEPT ![producer[i]].inactive = TRUE, ![producer[i]].listener = FALSE]
    /\ notifier' = Nobody
    /\ producer' = [producer EXCEPT ![i] = NoProducer]
    /\ Return(i)
    /\ UNCHANGED <<hashVars, queue>>

--------------------------------------------------------------------------------
(* Producer tokens.                                                            *)

\* The destructor, which clears the back pointer before it gives the producer up.
DropToken(o) ==
    /\ call[o].at = "idle" /\ producer[o] # NoProducer
    /\ list' = [list EXCEPT ![producer[o]].token = Nobody]
    /\ Goto(o, "drop")
    /\ UNCHANGED <<hashVars, notifier, queue, producer>>

TokenDropped(o) ==
    /\ call[o].at = "drop"
    /\ list' = [list EXCEPT ![producer[o]].inactive = TRUE]
    /\ producer' = [producer EXCEPT ![o] = NoProducer]
    /\ Return(o)
    /\ UNCHANGED <<hashVars, notifier, queue>>

Swapped(o, q) == [producer EXCEPT ![o] = producer[q], ![q] = producer[o]]

\* Faulty: the other token's producer keeps its back pointer.
SwapTokensOneWay(o, q) ==
    /\ o # q /\ call[o].at = "idle" /\ call[q].at = "idle"
    /\ producer' = Swapped(o, q)
    /\ list' = [p \in DOMAIN list |->
                   IF producer'[o] = p THEN [list[p] EXCEPT !.token = o] ELSE list[p]]
    /\ UNCHANGED <<hashVars, notifier, queue, call>>

\* swap, which the move assignment is too; with a token that points to nothing it
\* is the move constructor.
SwapTokens(o, q) ==
    /\ o # q /\ call[o].at = "idle" /\ call[q].at = "idle"
    /\ producer' = Swapped(o, q)
    /\ list' = [p \in DOMAIN list |->
                   IF \E x \in {o, q} : producer'[x] = p
                   THEN [list[p] EXCEPT !.token = CHOOSE x \in {o, q} : producer'[x] = p]
                   ELSE list[p]]
    /\ UNCHANGED <<hashVars, notifier, queue, call>>

\* The queue is destroyed, which its user keeps apart from every other use: the
\* producers' tokens are cleared, the listeners of the active ones unsubscribed.
Destroy ==
    /\ queue
    /\ \A a \in Actors : call[a].at = "idle"
    /\ queue' = FALSE
    /\ producer' = [a \in Actors |->
                       IF \E p \in DOMAIN list :
                             IF IsExplicit(a) THEN list[p].token = a
                             ELSE producer[a] = p /\ list[p].listener /\ ~list[p].inactive
                       THEN NoProducer ELSE producer[a]]
    /\ list' = <<>>
    /\ tables' = <<>> /\ hashCount' = 0
    /\ UNCHANGED <<resizing, notifier, call>>

--------------------------------------------------------------------------------
Insert(i) ==
    \/ CountEntry(i)
    \/ LockResize(i) \/ NoResize(i) \/ Grow(i) \/ GrowFails(i) \/ UnlockResize(i)
    \/ CheckRoom(i)
    \/ Subscribe(i) \/ Add(i) \/ Uncount(i)

AcquireProducer(a) == Recycle(a) \/ SkipProducer(a) \/ Create(a) \/ CreateFails(a)

\* The steps of a call that is under way.
Proceed(a) ==
    \/ AcquireProducer(a)
    \/ a \in Ids /\ (Readd(a) \/ Insert(a) \/ ExitTable(a) \/ Exited(a))
    \/ a \in Tokens /\ TokenDropped(a)

Begin ==
    \/ \E i \in Ids : Look(i) \/ Exit(i)
    \/ \E o \in Tokens : NewToken(o) \/ DropToken(o)
    \/ \E o, q \in Tokens : SwapTokens(o, q)
    \/ Destroy

Next == Begin \/ \E a \in Actors : Proceed(a)
Spec == Init /\ [][Next]_vars
FairSpec == Spec /\ \A a \in Actors : SF_vars(Proceed(a))

--------------------------------------------------------------------------------
(* Properties.                                                                 *)

TypeOK ==
    /\ \A n \in DOMAIN tables : \A s \in DOMAIN tables[n] :
          Taken(tables[n][s]) => tables[n][s].key \in Ids /\ tables[n][s].value \in 1..MaxProducers
    /\ hashCount \in Nat
    /\ resizing \in BOOLEAN /\ queue \in BOOLEAN
    /\ list \in Seq([isExplicit : BOOLEAN, inactive : BOOLEAN,
                     token : Tokens \union {Nobody}, listener : BOOLEAN])
    /\ notifier \in Ids \union {Nobody}
    /\ producer \in [Actors -> 0..MaxProducers]

\* A producer serves one owner of its kind at a time, and one that serves nobody is
\* there to be recycled: what exits, dropped tokens, failed allocations and moves of
\* tokens interleave to neither shares a producer nor loses it.
OneOwner ==
    \A p \in DOMAIN list :
        LET owners == {a \in Actors : producer[a] = p}
        IN  /\ Cardinality(owners) = IF list[p].inactive THEN 0 ELSE 1
            /\ \A a \in owners : IsExplicit(a) = list[p].isExplicit

\* Between two enqueues a thread is found again in the tables, with the producer it
\* was given and no other, also when the table grew in between or the thread was
\* inserted into one that was no longer the main one; an id that is free is in no
\* table, so the thread that takes it next is not given its predecessor's producer.
FoundAgain ==
    queue => \A i \in Ids :
        call[i].at = "idle" =>
            /\ producer[i] # NoProducer => FoundIn(i) # {}
            /\ \A n \in DOMAIN tables : \A s \in SlotsOf(n, i) : tables[n][s].value = producer[i]

\* Nothing points into a queue that was destroyed: not a token, however often it
\* was moved, and no thread's exit listener.
NothingDangles == ~queue => \A a \in Actors : producer[a] = NoProducer

\* Every reference to a producer or from a listener leads to one that exists.
ProducersInv == TypeOK /\ NothingDangles

\* get_or_add_implicit_producer returns, although it waits for whoever grows the
\* table and that may fail: once nobody runs out of memory any more, no thread
\* waits for ever.
GrowthStopsFailing ==
    <>[][\A i \in Ids : call[i].at = "resize" => call'[i].at # "idle"]_vars

CallReturns ==
    GrowthStopsFailing => \A i \in Ids : (call[i].at = "count") ~> (call[i].at = "idle")
================================================================================
