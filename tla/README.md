# Verification of the DARTWIC LabJack T7 plugin

TLA+ models, TLC runs and TLAPS proofs for the plugin in `src/`: the C++ engine
plugin that connects DARTWIC to a LabJack T7 through the LJM library, its module, its
stream and digital write tasks and its connection loop; and for the lock-free queue
the plugin is built with. Line numbers refer to `engine/src/labjack_t7_controller.cpp`
in the parts on the plugin and to `engine/libs/concurrent_queue/concurrentqueue.h` in
those on the queue, unless another file is named.

## 1. Inventory

| part | state | operations | meets the others through |
|---|---|---|---|
| connection controller | `handle_`, `handle_mutex_`, `connected_`, `demo_mode_`, `ljm_library_ready_`, the channel `device_connected` | `connectionLoopStart/Loop/End`, `connect`, `disconnect`, `verifyConnection`, `markDisconnectedFromStreamError` | the connection loop and every stream worker run `connect`; both close handles |
| stream worker | `stream_started`, the sample buffer, the scan rate, counters | `runStreamWorker` | reads `connected_`, uses `handle_` under the lock, marks the device disconnected |
| stream ownership | `active_stream_task_key_`, `stream_mutex_` | `tryAcquireStream`, `releaseStream`, `stopStream` (two), `stopStreamTaskKey` | taken by the worker; given back by the worker, `on_end`, the loop's end, the destructor |
| task callbacks (`labjack_t7_plugin.cpp`) | none | `on_task`, `on_end` of `labjack.stream`, `on_task` of `labjack.digital_write`, `get-ljm-info` | look the module up, keep a `shared_ptr` while they run |
| module (`labjack_t7_module.cpp`) | the controller | construction, destruction | the destructor stops the stream and waits for the loop |
| mapping configuration | none (pure) | `parseStreamMappings`, `validateAnalogStreamMapping`, `applyAnalogStreamConfigLocked`, `parseDigitalWriteMappings` | run by the worker and by the digital write task |
| samples, timestamps, diagnostics | counters and times of the worker | the tail of `runStreamWorker`'s loop | writes channels of the host |
| digital write task | the `_state` channels, the outputs of the T7 | `applyDigitalWrite` | takes `handle_mutex_`, tests `connected_` and `demo_mode_` |
| LJM validation | `ljm_library_ready_` | `validateLjmLibrary`, `buildLjmInfoPayload` | the constant verdict every entry point tests |
| interface (`interface/src/index.jsx`) | form fields, loaded lists, loading flags | asynchronous loads, save | operations of the host |
| LJM and the T7 | handles, the stream, the analog settings, the outputs | `LJM_*` | external |
| DARTWIC host | tasks, loops, module instances, channels | starts and stops tasks, removes modules | external |
| queue: sub-queues | `tailIndex`, `headIndex`, `dequeueOptimisticCount`, `dequeueOvercommit`, blocks, block indices | `enqueue(_bulk)`, `dequeue(_bulk)` of both kinds of producers, their destructors | one producer and many consumers share the counters, the index and the blocks |
| queue: block pool | `initialBlockPoolIndex`, the free list, its reference counts | `requisition_block`, `add_block(s)_to_free_list` | producers take blocks, consumers and destructors give them back |
| queue: producers | the producer list, the hash of thread ids, tokens, exit listeners | `get_or_add_implicit_producer`, `recycle_or_create_producer`, `implicit_producer_thread_exited`, the tokens' construction, move and destruction | enqueuing threads, exiting threads, tokens, the destructor of the queue |
| blocking queue, semaphore | `m_count`, `m_sema` | `wait` and its variants, `signal`; `enqueue`, `wait_dequeue` and theirs | producers signal the items consumers wait for |

The queue (`engine/libs/concurrent_queue`) is bundled third-party code. The plugin's
sources do not instantiate it; it is on the include path of every translation unit and
it is where this repository has its most intricate concurrency, so it is modelled for
itself, on its own interface.

The behaviours that are hard to test:

* three kinds of threads (the loop, workers, the host's `on_end` and destructor) and
  the digital write tasks share one handle; four places close it, two open it, one
  reads it unlocked;
* the probe's result, the worker's errors and the copy `stopStream()` takes of the
  key are used after the lock under which they were obtained was released;
* every LJM call may fail, a stream may be left from before, a device may lose its
  settings and outputs; retries run for as long as the task is on;
* a stop may be asked for, and the module removed, at any of these points;
* in the queue nothing is locked: a value is loaded and compared later, a block, an
  index entry or a thread id may have been given up and taken again in between, an
  allocation or a constructor may fail halfway, a timeout may race a signal.

What makes the parts correct: one open handle at most, and `handle_` names it; one
owner of the hardware stream, whose stream runs with its own settings and whose
samples are its own; the key is given back on every path; a stop, a reconnect and a
removal come to an end; nothing is left behind by the destructor. Timestamps that are
accurate and never go back; only valid mappings reach the device, and each finds its
settings there; a `_state` channel that shows what was commanded. A queue that hands
out each item once, finds it where it was put, loses no block, producer or wake-up and
destroys what is left.

## 2. Modules

| module | what it models |
|---|---|
| `LjmDevice` | LJM and the T7 (external): each call is the set of its possible outcomes |
| `T7Controller` | the connection half of `LabJackT7Controller` |
| `T7Stream` | `runStreamWorker`, the ownership of the stream, the ways to stop it |
| `T7System` | composes them with the host: tasks, removal, destructor |
| `StreamLease` | the abstract specification: a lease on the one hardware stream |
| `T7Properties` | the properties, the refinement mapping and the fairness |
| `MCSystem` | the TLC instance of `T7Properties` (symmetry) |
| `T7Digital`, `MCDigital` | the digital write tasks, beside all of the above |
| `MappingConfig` | the mappings of a stream task, parsed, validated and applied |
| `StreamSamples`, `MCSamples` | one worker from there on: rates, timestamps and bulk writes over reconnects |
| `ItemClaims` | the abstract specification of a sub-queue's counters |
| `DequeueClaims`, `MCClaims` | the optimistic protocol by which consumers claim items |
| `SubQueue` | what both kinds of sub-queues share: blocks, calls, the consumers' batches |
| `ExplicitQueue` | `ExplicitProducer`: the circle of blocks and its index |
| `ImplicitQueue`, `MCImplicit` | `ImplicitProducer`: blocks that come and go, the index of entries |
| `BlockPool`, `MCBlockPool` | the initial pool, the free list, the allocator |
| `Producers`, `MCProducers` | the producer list, the hash of thread ids, tokens and thread exits |
| `LightSemaphore` | `LightweightSemaphore` |
| `BlockingQueue` | `BlockingConcurrentQueue`: the semaphore over the counters of the inner queue |
| `T7Proofs` | the lock and the handle; the ownership of the stream, whose stream the device runs, the destruction of the module, the refinement of the lease |
| `T7DigitalProofs` | the digital writes, and that the rest of the module does beside them what it does alone |
| `SampleProofs` | the verdict on the mappings and their settings; the samples and their timestamps |
| `LockFreeProofs` | the dequeue protocol: its safety and the refinement; the free list: nobody gets a block that somebody has, and none is lost |
| `ProducerProofs` | owners of producers, the hash of thread ids through growth, exits and reuse |
| `BlockingProofs` | the books of the semaphore and of the blocking queue |
| `ExplicitProofs` | the explicit sub-queue: its circle of blocks, its index through reuse and growth, the items and flags of its blocks |
| `ImplicitProofs` | the implicit sub-queue: its index through growth and failed calls, its blocks and their items |

How they build on each other: `LjmDevice` ← `T7Controller` ← `T7Stream` ← `T7System`
← `T7Properties` ← `T7Digital`; `MappingConfig` ← `StreamSamples`; `ItemClaims` is what
`DequeueClaims` implements and what `SubQueue` uses in its place, and `SubQueue` is
extended by `ExplicitQueue` and `ImplicitQueue`; `LightSemaphore` ← `BlockingQueue`.
The parts of the queue meet in what each promises the next: the pool hands a block to
one thread only, so a sub-queue's new block is its own; a claim is within what was
published, so a sub-queue's consumer has items to find; a producer has one owner, so a
sub-queue has one producer thread.

### The plugin's state

`pc` says where each thread is. `handle`, `connected`, `demo`, `devConn`,
`libReady` are the members of the same name (`devConn` the channel
`device_connected`); `mutex` is `handle_mutex_` between two steps of its holder.
`owner` is `active_stream_task_key_`; `saved` the local copy of `stopStream()`;
`started` and `data` the locals `stream_started` and `data` of each worker, the
latter reduced to whose samples it holds. `stop` is `isStopRequested()`, `loopEnd`
the host's decision to end the loop. `dev` is the device (see `LjmDevice`), `steady`
the environment's promise that no call fails from here on.

`T7Digital` adds, per task, where its call is (`wpc`), the mappings it has not dealt with
(`todo`, the one at hand first) and the value it is to write (`desired`); the mapped
channels and their `_state` channels, reduced to whether they are nonzero; and
`outputs`, the registers whose bit in `DIO_STATE` is 1. A call that was not answered may
have reached the device; a device that is found again may have been power cycled and
have lost its outputs.

`StreamSamples` and `MappingConfig` look closer at two pieces of one worker that
`T7Stream` keeps abstract (`SetupStarts`, `ReadSucceeds`, `Publish`; `Parse`,
`Configured`). They have no other threads: the buffer, the counters and the parser's
results are locals of `runStreamWorker`. Time is counted in ticks and a scan rate is
kept as its period; the pause after a failed read is the sleep of a second in line
849, and the time at which a worker that reads late reads is free. The two loops over the
scans of a read and the mappings (859-868) are a step for each sample, grouped by
channel, and one for the bulk writes. In `MappingConfig`
the json of one mapping is a record of the cases the parser tells apart, and each pass
of the two loops (353, 485) is a step.

### The queue's state

The variables have the names of the members. A step is one atomic operation on shared
memory; what a thread writes and only itself can read is part of a step beside it, and
a compare-exchange that fails and only repeats its loop is no step. `enqueue` and
`dequeue` are the bulk operations with one item. (A single `enqueue` constructs its item
before it writes the index entry; in the model the entry is written first and, when the
constructor throws, lies beyond the front, where no consumer looks. What a throw leaves
behind in a block of a single `enqueue` is observation 3 below.) In the sub-queues an item is its number, `content` the place it
was constructed at, `NewItems` those of the call under way; a claim is one step of
`ItemClaims`. `indices` and `headers` keep every index ever made, since a consumer may
still read an old one; entries and blocks are shared by them as in the code.

In `BlockPool` the reference count and `SHOULD_BE_ON_FREELIST`, one word in the code,
are two variables changed in one step; `owner` is a history variable, who may use a
block. In `DequeueClaims` the sets of tickets (`granted`, `refused`, `claimed`,
`counted`) are history too. In `Producers` a thread id is taken again by the next
thread once its predecessor is gone; `Home` is its hash. In `LightSemaphore` the spins
are one attempt, and a timeout may occur whenever its waiter sleeps.

### Granularity

In the plugin a step ends wherever another thread can look or come in between: at a
lock and an unlock, at an unlocked read (`handle_` in line 155, `connected_`,
`demo_mode_`) and at every unlocked store. The sections of `connect` and `disconnect`
are split at the LJM call and at each store, since `connected_` and `device_connected`
are read without the lock. The sections whose stores nobody reads outside the lock
(configure and start, read, stop, probe, close) are one step that finds the mutex free
and leaves it free. `stream_mutex_` only guards single reads and writes of the key.
While a worker is inside `LJM_OpenS`, which writes `handle_`, the unlocked read in
line 155 may yield either answer.

The set comprehensions of `EnsureStarted` and `Configured` are the code's sequence
of calls: stop, write the registers, start, and on "already active" stop and start
once more, each call with every outcome the code distinguishes.

### Abstractions

In the plugin: error texts, console messages and sleeps are left out (a sleep is a
place where other threads run). The verdict on the mappings is, in `T7Stream`, a
choice: accepted, refused, or a `json` exception thrown out of the worker after the key
was taken. A device error is any error the code does not single out. Which registers
were written is reduced to whose settings the device holds, `NoTask` when the writes
were only partly done or the device was power cycled.

In the queue: memory is sequentially consistent, so the acquire and release orders of
the code are not what is checked; counters do not wrap (they are as wide as a
`size_t`); the limit `MAX_SUBQUEUE_SIZE` has its default, no limit; values are moved
out and destroyed without throwing.

### Host

The host is external. In `T7System` it starts a task, may ask for its stop at any
time, and calls `on_end` after `on_task` returned, by return or by exception; a task
may then be started again. A module is destroyed when it was removed and nobody is
inside; the destructor waits in `removeLoop` until `connectionLoopEnd` is through.
`HostMoves` adds the moves the runs vary: `remove` the module, call `on_end` while
`on_task` still runs, end the loop under a living module. In `T7Digital` the host
repeats each task's call and anyone may change a source channel at any time. In
`Producers` the user of the queue destroys it only when no operation is under way.

## 3. Runs

In the runs of the plugin every device call may fail at any time unless `steady`; the
device may start with a foreign stream; `libReady` and `devConn` start with either
value.

| run | instance | states | what it shows |
|---|---|---|---|
| `System` | 2 stream tasks, 2 handles, removal, hardware and demo mode | 1.04 M | the safety of the plugin's threads, and `ImplementsLease` |
| `Live` | 1 task, 1 handle, removal, fairness | 68 k | a stop ends the worker, the key is given up, a removed module is destroyed, the records of the connection end up agreeing |
| `Recover` | the same with early `on_end` and a loop that may end early | 193 k | streams resume once the device is reachable |
| `Digital` | 2 digital write tasks, 3 mappings, 1 handle, both modes, fairness | 97 k | outputs and `_state` channels follow the commands, and the rest of the module does what it does without them |
| `Samples` | mapping lists of up to 2 mappings, then 3 mappings on 2 channels, 2 scans a read, 14 ticks | 446 k | exactly the invalid lists are refused; every sample is written once and stamped right |
| `Claims` | 3 consumers, bulk of 2, 4 items, 8 tickets | 629 k | the dequeue protocol, and its refinement of `ItemClaims` |
| `Explicit` | 2 consumers, bulk of 3, 8 items, blocks of 2, an index of 2 | 1.55 M | a producer with a token and its consumers |
| `Implicit` | 2 consumers, bulk of 3, 7 items, blocks of 2, an index of 2 that doubles once | 1.66 M | a producer without one |
| `Pool` | 3 threads, 2 pooled blocks and a third one allocated | 434 k | the free list |
| `Producers` | 2 thread ids with one hash, 2 tokens, 2 tables, 2 producers, fairness | 108 k | owners, tables, exits, moves, destruction |
| `Blocking` | 2 producers, 2 consumers, bulk of 2, 4 items, fairness | 141 k | permits, wake-ups, timeouts |
| `KeptBlocks` | `Explicit` with calls that fail or throw after they added blocks | | a comment of the queue that its code does not keep |

### Bounds

*Plugin.* Two tasks are what ownership needs: one that owns and one that intrudes; a
third only waits. Two handles let LJM answer a reopen with a new value, so that "the
stale handle" and "the current handle" differ; there is no counter to bound. The device
is one record, not one per handle: there is one T7. Tasks and handles are
interchangeable and `System` uses the symmetry; the liveness runs do not, and have one
task, which reacquires and restarts without limit. In `Digital` two tasks share `DIO0`
and command it from different channels, so a readback can meet the other's write; one of
them has a second mapping, which must be left out. It has no stream task: of a worker a
write sees `connected_`, `handle_` and the lock, and the loop changes all three.

*Samples.* The clock stops at `MaxClock` = 14, which has room for three streams of one
read each or one of six, so that a timestamp meets those of the stream before the last;
`Pause` = 3 exceeds `Latency` = 2 as the code's second exceeds the time
`LJM_eStreamStart` takes, and without the pause `StampsIncrease` fails. A step of the
system clock is not modelled. The numbers lie on both sides of every limit of the
parser: registers -1, 0, 1, 48, 255, negative channels 1 and 2 (the partner of 0, and
what is next to 1), 199 for ground and 254; conflicts are between two mappings, and one
more only adds an error.

*Queue.* Blocks of two items and bulks of three make every call of two or more items
cross a block, start in a half-filled one, or need two; indices of two entries fill,
wrap and are replaced within the items of the run. Claims need two consumers whose
tickets were taken before and after another's were wasted; the third makes them
overlap with the waste itself. The free list needs one thread that holds a reference to
a block while two others take it and give it back. Two ids with one hash collide in
every table; four slots make a table half full with the second thread. `MaxItems`,
`MaxTickets`, `MaxBlocks`, `MaxGrowth`, `MaxTables`, `MaxProducers`, `MaxHeld`,
`MaxLive`, `MaxTokens` and `Factors` (how often a table may be doubled at once) are the
bounds; reaching `MaxBlocks`, `MaxGrowth`,
`MaxTables` or `MaxProducers` is an allocation that fails, which the code handles.

`Samples` and the runs of the queue except `Pool` end when their bound or their work
does, or when a queue is destroyed, and consumers of a blocking queue may wait for an
item nobody enqueues: these runs do not check deadlock. `System`, `Live`, `Recover`,
`Digital` and `Pool` do.

### Properties

Plugin (`T7Properties`, `T7Digital`, `StreamSamples`, `MappingConfig`):

* `LockDiscipline`: the mutex is held exactly by the thread inside a section.
* `NoHandleLeak`: LJM has open what `handle_` names and nothing else.
* `StreamExclusive`: a worker between acquire and release is the owner.
* `ReadsOwnStream`: published samples are from the stream the worker started.
* `ConfigMatchesStream`: a task's stream runs with its task's complete settings.
* `OwnerAccounted`: no key of an idle task is left set.
* `NoOrphanStream`: no stream runs for a task that is not the owner, unless LJM
  refused to stop it.
* `SafeTeardown`: after the destructor no handle, lock, owner or stale flag is left.
* `ImplementsLease`: the whole system implements `StreamLease`.
* `StopTerminates`, `OwnershipReturned`, `TeardownCompletes`, `StreamResumes`,
  `ConnectionConverges`: what must happen; see the comments in the module.
* `DigitalInv`: no call reaches the hardware in demo mode.
* `StateMirrorsCommand`: the `_state` channel a call writes has the value the call
  commanded, whoever else writes the register.
* `RestUndisturbed`: seen without the digital writes, the module takes the steps it takes
  alone; a task that has the lock is another holder and no more.
* `WriteReturns`, `OutputsSettle`: a call returns; once the device stays reachable and
  the sources of a register agree and rest, the outputs and `_state` channels are
  theirs, also after a power cycle or a lost answer.
* `RefusedIffInvalid`, `EveryMappingApplied`: the verdict of the sequential parser is
  that of the declarative `ValidConfig`, and an applied configuration is everyone's.
* `SamplesInv`, `StampsIncrease`, `StampsAccurate`: nothing the device handed out is
  lost, doubled or misplaced; in each channel later samples have later timestamps, off
  by at most the time the start took.

Queue:

* `NoItemHidden`, `ImplementsItemClaims`: wasted tickets hide nothing; the counters do
  what `ItemClaims` says, so that claims stay within what is published.
* `FindsItsItems` (of both sub-queues): where a consumer is about to read, its items are.
* `ExplicitInv`, `ImplicitInv`: items are constructed in free slots of blocks that are
  the sub-queue's; the destructor destroys exactly the items that are left and, of the
  implicit one, frees exactly the blocks in use.
* `PoolInv`, `HandedOnce`: the free list loses no block and lists none twice; a block is
  handed to a thread only when it is nobody's.
* `OneOwner`, `FoundAgain`, `ProducersInv`, `CallReturns`: a producer has one owner or
  may be recycled; a thread finds the producer it was given, and the next thread with
  its id does not; nothing points into a destroyed queue; an insertion returns.
* `BlockingInv`, `NoLostWakeup`, `TimedWaitReturns`: the books of the semaphore and of
  the queue agree; nobody sleeps beside an item; a timed wait comes back.

### What `KeptBlocks` shows

An explicit producer's bulk enqueue that cannot get a block or an index, or whose items'
constructor throws, keeps the blocks it has added to its circle and restores
`pr_blockIndexSlotsUsed` and `pr_blockIndexFront` to their values before the call (2095,
2102, 2119, 2204; a single `enqueue`, 1924). The next call finds such a block ahead of
the tail, empty, and reuses it without counting its index entry, as it does with every
block it reuses (2072-2083): "guaranteed to be room since we're conceptually removing
the last block from it first" (1862). Of a kept block no entry is removed. From then on
`pr_blockIndexSlotsUsed` is one less than the entries in use, and when the ring is full
the next new block passes the test `pr_blockIndexSlotsUsed == pr_blockIndexSize` and
overwrites the entry of a block whose items were not read. A consumer of these items
then takes them from another block. In the trace a first call keeps a block, a
later one reuses it, and the next new block overwrites. `Explicit` is the same module without such
failures, and shows that they are what it takes.

### Observations

Met while modelling; each is read off the code, and the runs above assume or avoid it as
said.

1. 3419-3421 of `concurrentqueue.h` says that there is room in the main table for a
   thread found in an older one because the one count reserves it. Reusing a tombstone
   of a main table decrements the count (3513-3516) although the thread may have been
   counted once for the entries in both its tables, so the count may fall below what it
   reserves.
2. `~ThreadExitNotifier` reads `ptr->next` (613) after the callback has made the
   producer inactive; a destructor of the queue running at that moment skips
   `unsubscribe` for an inactive producer (2440-2442) and frees it. `Producers` lets the
   queue be destroyed only while no thread exits.
3. A single `enqueue` of the explicit producer whose constructor throws on a fresh block
   leaves the block in the circle with its flags reset (1903, 1921-1926), that is, not
   empty; the destructor of the sub-queue may then destroy items that were never made.
4. `src/README.md:45` says `device_connected` is 1 when connected. The probe succeeds and
   unlocks; a worker's failed start or read closes the handle and publishes 0; the loop
   then stores `connected_ = true` and publishes 1 (279-281), and sleeps a second with no
   handle open. `ConnectionConverges` says that it ends up right.
5. `src/README.md:173` says that the worker closes the stale handle. It reports its error
   after the unlock (811, 848), the loop may reopen in between, and what it closes then
   (575-580) is the new handle. `StreamResumes` says that the stream comes back.
6. `src/README.md:168` and `:150`: a stop before the configuration that fails with a
   device error makes the worker return (760-763), where the failures before and after it
   (connect, start, read) are retried.
7. `(read_number - 1) * scans_per_read + scan_index` (860) is `int` arithmetic; after 2^31
   scans of one stream it overflows.
8. `get<int>()` (373, 332; for digital writes 524) narrows the json integer before its
   range is tested: `4294967296` streams `AIN0`.

With `on_end` allowed beside a running `on_task`, `StreamExclusive` and `OwnerAccounted`
do not hold and are not claimed: `on_end` releases the key of a worker that goes on
streaming, so another task may be granted the stream; and an `on_end` that runs before
`tryAcquireStream` leaves nobody to give the key back when the worker then throws. A
host that ends and restarts a task forever can also keep stopping the stream between its
start and its first read, and each failed read closes the handle, so
`ConnectionConverges` is not claimed there either. The `TaskRuntime` of the SDK does not
say which order the host keeps; the plugin's own use (`stopStream` in `on_end` as the
clean-up of a worker that ended) suggests the order the other runs assume. Likewise, a
host that ends the connection loop before the module is destroyed gives a worker the
time to open a handle nobody closes: the destructor itself does not disconnect.

## 4. Fairness

*Plugin.* `Fairness` asks for strong fairness of each thread's steps and weak fairness
of the host's `Destroy`, `OnEnd` and `TaskOver`. Strong fairness stands for the
scheduling of `handle_mutex_`: the worker and the loop sleep a second outside the lock
after an error and between passes, so that a waiting thread finds it free again and
again; a `std::mutex` is not fair, and while a stream runs well the worker asks for the
lock right after it let it go, so this is an assumption about the platform. The host
need not stop a task or remove a module: the leads-to properties start from a stop or a
removal. `DigitalFairness` asks the same of the loop and of each call that is under way,
and that the host goes on calling a periodic task.

`StreamResumes` and `ConnectionConverges` assume besides that an error report (the
steps between a failed call and the close that follows it) does not outlast the
loop's sleep of a second from some point on (`SleepsOutlastReports`). Without it there
is a run in which the two threads defeat each other forever: the loop reopens the
device, the worker's pending `markDisconnectedFromStreamError` closes the new handle,
the loop's late probe answer sets `connected_`, and the worker takes that for a
connection it does not find. `OutputsSettle` assumes that the device stays reachable,
that the module stays and that the source channels come to rest in agreement.

*Queue.* `BlockingQueue` has weak fairness only: a thread inside a call takes its next
step, a sleeper in a timed wait times out, a producer that has enqueued signals; whether
a call is made is the caller's choice. Weak fairness is enough because no step of the
semaphore waits for more than a wake-up. In `Producers` a call under way keeps running
(strong fairness, for the lock of the exit notifier and the resize flag), and
`CallReturns` assumes that from some point on growing the table does not fail for want
of memory: a thread that fails at it again and again could otherwise keep another waiting.

## 5. Proofs

Of the plugin, for every set of tasks and handles, demo mode or not:

* `TypeCorrect`: `Spec => []TypeOK`, for every host. One lemma for each LJM call
  says what outcomes may change; one step for each action.
* `HandleSafe`: `Spec => [](LockDiscipline /\ NoHandleLeak)`, for every host, and
  `LockHeld`, its first half. The two need each other: `OpenHandle` keeps
  `opened = {handle} \ {NoHandle}` only when it runs without a handle, which is what
  `ConnectBegin` saw earlier; `HandleInv` adds that a thread at `open` finds no handle,
  and this survives the other threads because the mutex is held throughout.
* `OwnershipSafe`: under `OrderlyHost` (`HostMoves \subseteq {"remove"}`),
  `Spec => [](StreamExclusive /\ OwnerAccounted)`, and `KeysAccounted`, its second half.
  The inductive invariant `OwnerInv` adds why nobody takes a key from a live worker:
  `on_end` is past `idle` only beside a returned worker; the destructor, and the loop's
  end it alone causes, run only when no thread is inside the module.

* `TeardownSafe`: under `OrderlyHost`, `Spec => []SafeTeardown`. `TeardownInv` says what
  each half of the teardown has done when the other looks: the key the destructor copied
  is still the owner's when it clears it, because nobody is left inside (`OwnerInv`), and
  what the loop closed and cleared one by one stays so, because no worker can reconnect.
* `ConfigSafe`: `Spec => []ConfigMatchesStream`, for every host; under `OrderlyHost`
  `ReadsSafe`, `NoOrphans` and `RefinesLease` (`Spec => ImplementsLease`). They rest on
  one lemma, `EffectStep`: whatever thread moves, the stream that runs through the open
  handle ends, stays, or is one that its own task just set up. `SessionInv` relates it to
  the ownership: unless its stop failed, a running stream belongs to the owner, whose
  worker is still where it will stop it or close the handle; and beside a holder that
  believes it has started no other task's stream runs. With the invariants above it is inductive
  (`SystemInv`), and every step then maps to a grant, a start, a halt or a return of the
  lease, or to a stutter.

With these, each invariant of the run `System`, and its refinement, is also a theorem.

Of the digital writes, for any number of tasks, mappings, channels and values, beside any
number of stream tasks (`T7DigitalProofs`):

* `TasksBeside`: `DigitalSpec => RestUndisturbed`, that is, `Alone!Spec`, where `Alone` is
  the whole of the rest with a lock that is free whenever a digital write has it. Each
  action of the module beside the tasks is that action alone, and each step of a task is a
  stutter. Hence every theorem above holds beside digital writes too.
* `DigitalSafe`: `DigitalSpec => []DigitalInv`. The mode is tested without the lock; the
  inductive invariant (`DigitalIInv`) says that demo mode, once configured, is set before
  `connected_` is, so that a call that found the device connected reads the mode that holds.
* `MirrorsCommand`: `DigitalSpec => StateMirrorsCommand`.

Of the mappings and the samples (`SampleProofs`):

* `ConfigJudged` and `ConfigApplied`: `Spec => []RefusedIffInvalid` and
  `Spec => []EveryMappingApplied`, for lists of mappings of any length. The parser meets
  the mappings one by one, the definition of a valid list is about all pairs: `KnownInv`
  says that what the parser remembers of an input is what an earlier mapping of it asked
  for, `CleanInv` that without an error so far the mappings so far agree, `AppliedInv` that
  of an agreeing list the settings of one mapping survive those of the next.
* `SamplesKept`: `Spec => []SamplesInv`, for any mappings, any number of scans a read, any
  number of reconnects. `StreamInv` relates the buffer to the device, what the loops have
  grouped to the buffer, and the channels to both.
* `StampsTrue`: `Spec => []StampsAccurate`, and `StampsOrdered`: `Spec => []StampsIncrease`.

  Three hypotheses stand for what the code needs and does not test. `IntsFit`: the numbers
  of the mappings are not cut by `get<int>()` (observation 8). `ScansFit`: a stream is not
  so long that its scan number overflows (observation 7); `StampsTrue` fails without it.
  `PauseCoversStart`: `LJM_eStreamStart` takes no longer than the second the worker waits
  after an error, without which TLC finds timestamps that go back over a reconnect. The
  configurations of the run satisfy all three.

Of the pool, for any finite set of threads, any number of blocks, and with or without
`RECYCLE_ALLOCATED_BLOCKS` (`LockFreeProofs`):

* `HandsOnce`: `Spec => HandedOnce`, and `TakesWhole`: `Spec => []TakenIsWhole`.

  The invariant `Inv` says what a reference count is: the threads that hold the block,
  and one more for the list, which begins when the block is linked and ends when the
  thread that took it off drops both (`Counted`). At most one thread adds a block, and it
  begins only when the count is zero, so nobody who is about to swap the head still holds
  it (`Added`). That is why the swap is right although the head may have gone and come
  back: a held block is not linked anew, so the successor read from it is still its
  successor (`Linked`), and `head` and `freeNext` lead to each listed block from one
  place only.

* `KeepsBlocks`: `Spec => []PoolInv`, whose heart is `NoBlockLost`.

  Besides `Inv` it takes that a block marked to be added, which nobody is adding, has a
  reference that will be dropped (`Marked`), and that the list leads to every block that
  was put on it (`Reached`). The list is the least set of blocks that contains `head` and
  is closed under `freeNext` (`OnList`); stated for every closed set, no induction along
  the list is needed: whatever set is closed after a step yields one that was closed
  before. `Bounded` keeps `initialBlockPoolIndex` in its type: only the threads that are in
  the middle of a `fetch_add` carry it past the size of the pool.

Of the producers, for any finite set of thread ids, any tokens, any hash of the ids and
any bounds (`ProducerProofs`):

* `ProducersSafe`: `Spec => []ProducersInv`; `OwnedOnce`: `Spec => []OneOwner`;
  `ThreadsFound`: `Spec => []FoundAgain`.

  `Owners`: a producer in use has one owner and knows it, through the back pointer of a
  token that is not being destroyed or the listener of a thread that has subscribed; this
  is what lets the destructor of the queue reach everyone. `Entered` is why the lock-free
  lookup finds a thread: each of its entries can be reached by the probe from its home
  without an empty entry in between (`Placed`), which no step of another thread can undo,
  because an entry that was taken is never empty again, only reusable (`Extends`); while
  it looks for a free entry, those it has passed are not empty (`Probing`); and while it
  exits, the tables it has been through have no entry of it (`Leaving`), so that its id
  can be taken anew. `PassedStays`, `ProbedStays` and `EnteredStays` say this of any
  step, `WriteTable`, `RemoveEntries` and `AppendTable` of the three ways a table changes.
  The probe's arithmetic rests on `Periodic`: it comes back to an entry after as many
  steps as the table has entries, so that an index that has run round reaches the entry
  sooner as well. `Counted` bounds `implicitProducerHashCount` from below by those who
  may still uncount an entry.

Of the blocking queue, for any finite sets of threads and calls of any size
(`BlockingProofs`):

* `BooksBalance`: `Spec => []BlockingInv`. The two accounts (`WaitersAccounted`,
  `PermitsAccounted`) are sums over all threads; they are inductive with `Calls`, which
  says when a waiter has a permit already. The lemmas on sums (`SumUpdate`,
  `CommittedChange`) say what a change at one thread does to the whole.

Of the dequeue protocol, for any number of consumers, items and tickets
(`LockFreeProofs`, where its specification has the name `ClaimsSpec` beside the pool's):

* `ClaimsAreSafe`: `ClaimsSpec => []NoClaimPastTail`; `NothingHidden`:
  `ClaimsSpec => []NoItemHidden`; `RefinesItemClaims`: `ClaimsSpec => ImplementsItemClaims`.

  `NoClaimPastTail` is no property of the run by itself: `ImplementsItemClaims` implies it.
  The difficulty is that a consumer compares its ticket with a `tailIndex` it reads later
  and an overcommit it read earlier. The inductive invariant `TicketInv` counts tickets
  instead of values. Each consumer read `dequeueOvercommit` before it took its tickets,
  so every wasted ticket it counts on lies below its own (`Takers`); a granted ticket `g`
  is therefore less than `tailIndex` plus the wasted tickets below `g` (`Backed`). The
  granted tickets lie in `0..g` for the highest `g` and are not wasted, so there are at
  most `tailIndex` of them, and `headIndex` counts some of them: that is
  `NoClaimPastTail`. Every ticket below `dequeueOptimisticCount` is granted, wasted or
  still in a consumer's hands (`Covered`), which gives `NoItemHidden` when no consumer
  holds any. The refinement follows from the same invariant in the state after a claim.
  The lemmas on cardinalities of intervals and of unions of finite sets are stated once
  and cited.

Of the implicit producer, for any set of consumers and of blocks, any block size and
initial size of the index, any number of items and calls, with or without failing
allocations and constructors (`ImplicitProofs`):

* `ImplicitFindsItsItems`: `Spec => []FindsItsItems`, and `ImplicitInvariant`:
  `Spec => []ImplicitInv`.

  Neither is inductive: both need that a consumer's old index and the current one agree
  wherever there is still something to read, however often the ring went round or grew.
  Blocks are numbered as their items are, and the invariant speaks of numbers. `Indexed`
  says that there are two sequences, one value for each index ever made, with
  `IInv(a, m)`: in the index `j` the block number `k` has the place `(k + a[j])` modulo
  its size, and `m[j]` is the highest number that its tail has stood for. In the current
  index no block in use is a round behind, so no entry in use is overwritten
  (`CurrentRing`); an older one leads, up to `m[j]`, to the very entries the current one
  leads to (`OldRings`), and that is as far as its readers look (`Reads`), because their
  items were published before the index was replaced. A call's blocks are linked and
  indexed one by one and, when it fails, unlinked in the opposite order (`Chained`);
  `CallBlocks` is a recursive function, and what it is for a given list follows from a
  least counterexample (`PathIs`). Each block is free, or the home of one number in use, or
  with the one consumer or call that is about to free it (`Owned`); it holds the items of
  its number that are written and not yet taken, and its count of dequeued items is what
  is missing from the unread ones (`Filled`). `Claimed` adds what a claim gives a
  consumer: items that were published and that no other consumer has.

Of the explicit producer, for any set of consumers and of blocks, any block size and
initial size of the index, any number of items and calls, provided that a call fails only
while it has added no block (`ExplicitProofs`):

* `ExplicitFindsItsItems`: `~KeepsBlocks => (Spec => []FindsItsItems)`, and
  `ExplicitInvariant`: `~KeepsBlocks => (Spec => []ExplicitInv)`.

  The hypothesis is needed: without it the run `KeptBlocks` finds a consumer that reads
  the wrong block, which is the finding of this project. Allocations may fail and
  constructors throw under it all the same, before a call has found a block or when it
  needs none.

  Blocks are numbered as above; those in the circle have the numbers `First..Top`, one for
  each slot the producer counts (`slotsUsed`), and `next` leads from each to the one after
  it and from the last to the first (`Linked`). There is one offset for each ring ever
  made: in the ring `j` the block number `k` has the slot `(k + a[j])` modulo its size, and
  whatever was once written at a slot has the base of a number whose slot it is (`Rings`).
  So a consumer that loaded a stale front still computes the slot of its own block from
  it. That it finds the right entry there is `Reads`: for the numbers it has still to read,
  its ring agrees with the current one. An entry is overwritten only by a number a whole
  round later, when the number it had has left the circle, and a number leaves the circle
  only when the flags of its block are all set; and the flags set are those of the items
  read and marked (`Flagged`), so no consumer with such an item is left. For the same
  reason a reused block is without items (`Filled`), and a flag that is still to be set
  belongs to a published item, never to one about to be constructed.

  The destructor looks for the half-dequeued block from the oldest entry on; the first
  entry that ends beyond the head is that of the block of the head (`HeadBlock`), since
  the entries of the circle have consecutive bases. Block by block, what it then destroys
  is what lies from the head to the tail (`Destructs`).

  The lemmas on quotients, remainders and the items of a block are stated in both modules:
  each is about the constants of its own queue.

The assumptions are those on the constants: the distinguished values are distinct from
the sets they are added to (`TasksAssumption`, `HandlesAssumption`, `ThreadAssumption`,
`WriterAssumption`, `WritersAssumption`, `ProducersAssumption`), the bounds and sizes are
numbers (`BlockAssumption`, `ImplicitAssumption`, `ExplicitAssumption` and others), arguments and mappings are
sequences (`ArgumentsAssumption`, `MappingAssumption`, `SamplesAssumption`), the host and
the configuration are ones the model knows (`HostAssumption`, `DemoAssumption`), and where
something is counted the threads are finitely many (`PoolAssumption`,
`SemaphoreAssumption`, `ProducersAssumption`). `ProducersAssumption` also has a first table
of more than one entry, as the code's default of 32. TLC evaluates them in every run. The
`Consumers` of a sub-queue or of its counters need not be finite.

Every invariant, action property and refinement of the passing runs is thereby a theorem
as well. Only model-checked is liveness, which under fairness is beyond the prover.

## 6. Not modelled

* The build scripts, texts and layout of the panels, the bodies of the SDK (not in the
  repository).
* The interface's few asynchronous loads and its save: two hazards of the list stay
  without a property (an older answer that arrives last, an update under an open form).
  `index.jsx` keeps no state beyond its fields; its remaining code is layout.
* `validateLjmLibrary` and `get-ljm-info`: tests of files and a report, with no state.
* The diagnostic channels and the stale timeout of a stream task, the scaling of a
  value.
* Of the queue: moving and swapping whole queues, the rotation of consumers over
  producers and consumer tokens, the walks of `try_dequeue` over the list of producers
  (which call what is modelled for one producer after another), `MAX_SUBQUEUE_SIZE`,
  memory orders weaker than sequential consistency, counters that wrap around, the
  platform's own semaphores, the tracking code under `MCDBGQ_`.
