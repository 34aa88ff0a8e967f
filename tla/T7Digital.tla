------------------------------- MODULE T7Digital -------------------------------
(***************************************************************************)
(* The digital write task beside the rest of a T7 module: each call of     *)
(* applyDigitalWrite tests connected_ and demo_mode_ without the lock,     *)
(* then writes and reads back every mapping under one hold of              *)
(* handle_mutex_, on whatever handle_ is by then.                          *)
(*                                                                         *)
(* Channels are those of the host, their values reduced to whether they    *)
(* are nonzero; DIO_STATE is the set of registers whose bit is 1.          *)
(***************************************************************************)
EXTENDS T7Properties, FiniteSetsExt, Sequences

CONSTANTS
    Writers,    \* the digital write tasks of this module instance
    Channels,   \* the RAPID channels their mappings name
    NoChannel,  \* a "channel" that is missing or no portal/channel path
    Arguments   \* the mappings each task is configured with

ASSUME WritersAssumption == NoChannel \notin Channels
ASSUME ArgumentsAssumption ==
    \A w \in Writers :
        Arguments[w] \in Seq([register: Int, channel: Channels \union {NoChannel}])

VARIABLES
    wpc,        \* where each task's call is
    todo,       \* the mappings it has not dealt with, by their place in the arguments
    desired,    \* the value it is to write there
    source,     \* the channels the mappings name
    state,      \* their _state channels
    outputs     \* DIO_STATE of the device

callVars == <<wpc, todo, desired>>
digitalVars == <<callVars, source, state, outputs>>
allVars == <<vars, digitalVars>>

Writer(w) == <<"digital_write", w>>

ASSUME WriterAssumption == \A w \in Writers : NoThread # Writer(w)

Registers == 0..22

\* parseDigitalWriteMappings leaves out a mapping it cannot use.
Usable(m) == m.channel \in Channels /\ m.register \in Registers

Mappings(w) == {i \in DOMAIN Arguments[w] : Usable(Arguments[w][i])}
Mapping(w) == Arguments[w][Min(todo[w])]

DigitalTypeOK ==
    /\ wpc \in [Writers -> {"idle", "check", "mode", "lock", "query", "write", "readback",
                            "demo_query", "demo_upsert"}]
    /\ DOMAIN todo = Writers /\ \A w \in Writers : todo[w] \subseteq Mappings(w)
    /\ desired \in [Writers -> BOOLEAN]
    /\ source \in [Channels -> BOOLEAN]
    /\ state \in [Channels -> BOOLEAN]
    /\ outputs \in SUBSET Registers

DigitalInit ==
    /\ Init
    /\ wpc = [w \in Writers |-> "idle"]
    /\ todo = [w \in Writers |-> Mappings(w)]
    /\ desired = [w \in Writers |-> FALSE]
    /\ source = [c \in Channels |-> FALSE]
    /\ state = [c \in Channels |-> FALSE]
    /\ outputs = {}

At(w, label) == wpc[w] = label
Move(w, label) == wpc' = [wpc EXCEPT ![w] = label]

\* What no step of a call changes.
CallOnly == UNCHANGED <<deviceVars, pc, handle, flagVars, setupVars, streamVars, hostVars, source>>

--------------------------------------------------------------------------------
(* One call.                                                                  *)

\* on_task looks the module up; without it there is nothing to do.
BeginWrite(w) ==
    /\ At(w, "idle")
    /\ module = "alive"
    /\ Move(w, "check")
    /\ UNCHANGED <<todo, desired, mutex, state, outputs>>
    /\ CallOnly

\* Faulty: connected_ is not tested.
CheckLibraryOnly(w) ==
    /\ At(w, "check")
    /\ Move(w, IF libReady THEN "mode" ELSE "idle")
    /\ UNCHANGED <<todo, desired, mutex, state, outputs>>
    /\ CallOnly

CheckConnected(w) ==
    /\ At(w, "check")
    /\ Move(w, IF libReady /\ connected THEN "mode" ELSE "idle")
    /\ UNCHANGED <<todo, desired, mutex, state, outputs>>
    /\ CallOnly

\* demo_mode_ is read once; the mappings are parsed before.
ReadMode(w) ==
    /\ At(w, "mode")
    /\ Move(w, IF demo THEN "demo_query" ELSE "lock")
    /\ UNCHANGED <<todo, desired, mutex, state, outputs>>
    /\ CallOnly

\* Faulty: the call does not wait for the lock.
LockAnyway(w) ==
    /\ At(w, "lock")
    /\ mutex' = Writer(w)
    /\ Move(w, "query")
    /\ UNCHANGED <<todo, desired, state, outputs>>
    /\ CallOnly

LockHandle(w) ==
    /\ At(w, "lock")
    /\ Locked(Writer(w))
    /\ Move(w, "query")
    /\ UNCHANGED <<todo, desired, state, outputs>>
    /\ CallOnly

\* The channel's value is read, then used: the host may change it in between.
QuerySource(w, label, then) ==
    /\ At(w, label)
    /\ todo[w] # {}
    /\ desired' = [desired EXCEPT ![w] = source[Mapping(w).channel]]
    /\ Move(w, then)
    /\ UNCHANGED <<todo, mutex, state, outputs>>
    /\ CallOnly

\* Faulty: the call returns without the unlock.
ReturnLocked(w, label) ==
    /\ At(w, label)
    /\ todo[w] = {}
    /\ Move(w, "idle")
    /\ todo' = [todo EXCEPT ![w] = Mappings(w)]
    /\ UNCHANGED <<desired, mutex, state, outputs>>
    /\ CallOnly

\* After the last mapping the lock, if the call took it, is let go.
Return(w, label) ==
    /\ At(w, label)
    /\ todo[w] = {}
    /\ Move(w, "idle")
    /\ todo' = [todo EXCEPT ![w] = Mappings(w)]
    /\ mutex' = IF mutex = Writer(w) THEN NoThread ELSE mutex
    /\ UNCHANGED <<desired, state, outputs>>
    /\ CallOnly

\* The locals of a mapping, and of a call that returned, are dropped.
NextMapping(w, label) ==
    /\ Move(w, label)
    /\ todo' = [todo EXCEPT ![w] = @ \ {Min(@)}]
    /\ desired' = [desired EXCEPT ![w] = FALSE]

\* DIO_STATE after LJM_eWriteName of one DIO register.
Written(w) ==
    IF desired[w] THEN outputs \union {Mapping(w).register}
                  ELSE outputs \ {Mapping(w).register}

\* LJM answers with an error for a handle that is closed or a device that does
\* not answer; a call that was not heard back may have reached the device.
CallFails == handle = NoHandle \/ ~steady

\* Faulty: the lock is given up between the write and the readback.
WriteAndUnlock(w) ==
    /\ At(w, "write")
    /\ handle # NoHandle
    /\ outputs' = Written(w)
    /\ Move(w, "readback")
    /\ mutex' = NoThread
    /\ UNCHANGED <<todo, desired, state>>
    /\ CallOnly

Write(w) ==
    /\ At(w, "write")
    /\ handle # NoHandle
    /\ outputs' = Written(w)
    /\ Move(w, "readback")
    /\ UNCHANGED <<todo, desired, mutex, state>>
    /\ CallOnly

\* The error is reported and the mapping left as it is.
WriteFails(w) ==
    /\ At(w, "write")
    /\ CallFails
    /\ outputs' \in {outputs} \union (IF handle = NoHandle THEN {} ELSE {Written(w)})
    /\ NextMapping(w, "query")
    /\ UNCHANGED <<mutex, state>>
    /\ CallOnly

\* The bit of this register in DIO_STATE goes to the _state channel.
Readback(w) ==
    /\ At(w, "readback")
    /\ handle # NoHandle
    /\ state' = [state EXCEPT ![Mapping(w).channel] = Mapping(w).register \in outputs]
    /\ NextMapping(w, "query")
    /\ UNCHANGED <<mutex, outputs>>
    /\ CallOnly

ReadbackFails(w) ==
    /\ At(w, "readback")
    /\ CallFails
    /\ NextMapping(w, "query")
    /\ UNCHANGED <<mutex, state, outputs>>
    /\ CallOnly

\* In demo mode the commanded value itself goes to the _state channel.
DemoUpsert(w) ==
    /\ At(w, "demo_upsert")
    /\ state' = [state EXCEPT ![Mapping(w).channel] = desired[w]]
    /\ NextMapping(w, "demo_query")
    /\ UNCHANGED <<mutex, outputs>>
    /\ CallOnly

WriteSteps(w) ==
    \/ CheckConnected(w)
    \/ ReadMode(w)
    \/ LockHandle(w)
    \/ QuerySource(w, "query", "write")
    \/ QuerySource(w, "demo_query", "demo_upsert")
    \/ Write(w)
    \/ WriteFails(w)
    \/ Readback(w)
    \/ ReadbackFails(w)
    \/ DemoUpsert(w)
    \/ Return(w, "query")
    \/ Return(w, "demo_query")

--------------------------------------------------------------------------------
(* Around the calls.                                                          *)

\* Anyone may set a source channel.
SetSource(c) ==
    /\ source' = [source EXCEPT ![c] = ~@]
    /\ UNCHANGED <<vars, callVars, state, outputs>>

\* A call holds a reference to the module: the destructor waits for it.
KeepsModule == module' = "destroying" => \A w \in Writers : At(w, "idle")

\* A device found again may have been power cycled and have lost its outputs.
PowerCycled == IF handle' \in dev.opened \/ handle' = NoHandle THEN {outputs} ELSE {outputs, {}}

\* A step of the rest of the module.
Beside(step) ==
    /\ step
    /\ KeepsModule
    /\ outputs' \in PowerCycled
    /\ UNCHANGED <<callVars, source, state>>

DigitalNext ==
    \/ Beside(Next)
    \/ \E w \in Writers : BeginWrite(w) \/ WriteSteps(w)
    \/ \E c \in Channels : SetSource(c)

DigitalSpec == DigitalInit /\ [][DigitalNext]_allVars

\* The host calls a periodic task again and again, and every call that is under
\* way keeps running; threads that wait for the lock get it.
DigitalFairness ==
    /\ SF_allVars(Beside(LoopSteps))
    /\ \A w \in Writers : SF_allVars(WriteSteps(w)) /\ WF_allVars(BeginWrite(w))

FairDigitalSpec == DigitalSpec /\ DigitalFairness

--------------------------------------------------------------------------------
\* No call reaches the hardware path in demo mode, although it reads demo_mode_
\* without the lock while connect, under the lock, may be about to set it.
DemoWritesNothing ==
    demoConfig => \A w \in Writers : wpc[w] \notin {"lock", "query", "write", "readback"}

\* The types, and the mode every call is in.
DigitalInv == DigitalTypeOK /\ DemoWritesNothing

\* README.md:83: the _state channel is a readback.  What a call puts there is the value
\* it has just commanded, also when another task writes the same register at the same
\* time.
StateMirrorsCommand ==
    [][\A w \in Writers : \A c \in Channels :
          (At(w, "readback") \/ At(w, "demo_upsert")) /\ todo'[w] # todo[w]
              /\ state'[c] # state[c]
          => state'[c] = desired[w]]_allVars

\* The module as it is without the tasks, with what is proved about it: a task that
\* holds the lock only makes the other threads wait.
threadMutex == IF mutex \in Threads THEN mutex ELSE NoThread
Alone == INSTANCE T7Proofs WITH mutex <- threadMutex

\* Beside the tasks the rest of the module does nothing it does not do alone: it never
\* runs where it believes it has the lock and a task has it.
RestUndisturbed == Alone!Spec

\* Every call comes back: it does not wait for the lock, or leave others waiting
\* for it, forever.
WriteReturns == \A w \in Writers : ~At(w, "idle") ~> At(w, "idle")

\* The sources of one register and of one _state channel do not contradict each
\* other.
SourcesAgree ==
    \A v, w \in Writers : \A i \in Mappings(v), j \in Mappings(w) :
        Arguments[v][i].register = Arguments[w][j].register
            => source[Arguments[v][i].channel] = source[Arguments[w][j].channel]

\* Each mapped output and _state channel has the value of its source.
OutputsFollow ==
    \A w \in Writers : \A i \in Mappings(w) :
        LET m == Arguments[w][i] IN
            /\ state[m.channel] = source[m.channel]
            /\ demoConfig \/ (m.register \in outputs <=> source[m.channel])

\* README.md:57: once the device stays reachable and the sources stay as they are,
\* the outputs follow them for good, whatever calls had failed, had found the handle
\* closed after they saw the device connected, or had not been read back.
OutputsSettle ==
    (<>steady /\ []libReady /\ []~loopEnd /\ [](module = "alive")
        /\ <>[]SourcesAgree /\ <>[][UNCHANGED source]_allVars)
    => <>[]OutputsFollow
================================================================================
