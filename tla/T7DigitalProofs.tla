---------------------------- MODULE T7DigitalProofs ----------------------------
(***************************************************************************)
(* The digital write tasks beside the rest of a module, proved for any     *)
(* number of tasks, whatever their mappings.                               *)
(***************************************************************************)
EXTENDS T7Digital, WellFoundedInduction, TLAPS

(***************************************************************************)
(* The rest of the module does what it does alone.  Each of its actions is *)
(* one of the module without the tasks, as that sees the lock; what the    *)
(* tasks do is none.                                                       *)
(***************************************************************************)
LEMMA ThreadsAlone ==
    /\ Alone!Conn = Conn /\ Alone!Dtor = Dtor
    /\ \A t : Alone!Worker(t) = Worker(t) /\ Alone!Ender(t) = Ender(t)
    /\ Alone!Workers = Workers /\ Alone!Enders = Enders /\ Alone!Threads = Threads
    /\ Alone!Labels = Labels
    /\ \A thr : Alone!Resume(thr) = Resume(thr)
  BY DEF Conn, Dtor, Worker, Ender, Workers, Enders, Threads, Resume,
         Labels, LoopLabels, ConnectLabels, StopLabels, DtorLabels, WorkerLabels, EnderLabels,
         Alone!Conn, Alone!Dtor, Alone!Worker, Alone!Ender, Alone!Workers, Alone!Enders,
         Alone!Threads, Alone!Resume, Alone!Labels, Alone!LoopLabels, Alone!ConnectLabels,
         Alone!StopLabels, Alone!DtorLabels, Alone!WorkerLabels, Alone!EnderLabels

LEMMA LjmAlone ==
    /\ Alone!Open(dev) = Open(dev)
    /\ \A d, h : Alone!Close(d, h) = Close(d, h)
    /\ \A d, h : Alone!StreamStop(d, h) = StreamStop(d, h)
    /\ \A d, h : Alone!StreamRead(d, h) = StreamRead(d, h)
    /\ \A d : Alone!ReadSerialNumber(d) = ReadSerialNumber(d)
    /\ \A d, t : Alone!WriteAnalogConfig(d, t) = WriteAnalogConfig(d, t)
    /\ \A r : Alone!Harmless(r) = Harmless(r)
  BY DEF Open, Opened, Close, Ended, StreamStop, StreamRead, ReadSerialNumber,
         WriteAnalogConfig, Outcome, MayFail, Harmless,
         Alone!Open, Alone!Opened, Alone!Close, Alone!Ended, Alone!StreamStop,
         Alone!StreamRead, Alone!ReadSerialNumber, Alone!WriteAnalogConfig, Alone!Outcome,
         Alone!MayFail, Alone!Harmless

LEMMA StartAlone ==
    /\ \A t : Alone!Configured(t) = Configured(t)
    /\ \A d, t : Alone!EnsureStarted(d, t) = EnsureStarted(d, t)
  BY DEF Configured, EnsureStarted, StreamStart, StreamStop, WriteAnalogConfig, Ended, Outcome,
         MayFail, Harmless,
         Alone!Configured, Alone!EnsureStarted, Alone!StreamStart, Alone!StreamStop,
         Alone!WriteAnalogConfig, Alone!Ended, Alone!Outcome, Alone!MayFail, Alone!Harmless

\* A thread takes, keeps or lets go of the lock.
LEMMA LockAlone ==
    /\ \A thr \in Threads : Locked(thr) => Alone!Locked(thr)
    /\ InOneStep => Alone!InOneStep
    /\ mutex' = NoThread => threadMutex' = NoThread
    /\ mutex' = mutex => threadMutex' = threadMutex
  BY ThreadAssumption DEF Locked, InOneStep, threadMutex, Alone!Locked, Alone!InOneStep

\* The connection half on any thread.
LEMMA ConnectAlone ==
    ASSUME NEW thr \in Threads, Connect(thr)
    PROVE  Alone!Connect(thr)
<1> USE ThreadsAlone, LjmAlone, LockAlone
    DEF Goto, deviceVars, lockVars, flagVars, setupVars, streamVars, hostVars, connVars,
      Alone!Goto, Alone!deviceVars, Alone!lockVars, Alone!flagVars, Alone!setupVars,
      Alone!streamVars, Alone!hostVars, Alone!connVars
<1>1. CASE ConnectAlready(thr)
  BY <1>1 DEF ConnectAlready, Connect, Alone!ConnectAlready, Alone!Connect
<1>2. CASE ConnectBegin(thr)
  BY <1>2 DEF ConnectBegin, Connect, Alone!ConnectBegin, Alone!Connect
<1>3. CASE OpenHandle(thr)
  BY <1>3 DEF OpenHandle, Connect, Alone!OpenHandle, Alone!Connect
<1>4. CASE SetConnected(thr, "set_true", TRUE) \/ SetConnected(thr, "set_false", FALSE)
  BY <1>4 DEF SetConnected, Connect, Alone!SetConnected, Alone!Connect
<1>5. CASE \/ PublishConnected(thr, "pub_true", TRUE)
           \/ PublishConnected(thr, "pub_false", FALSE)
  BY <1>5 DEF PublishConnected, Connect, Alone!PublishConnected, Alone!Connect
<1> QED
  BY <1>1, <1>2, <1>3, <1>4, <1>5 DEF Connect

LEMMA LoopAlone ==
    ASSUME ConnectionStep
    PROVE  Alone!ConnectionStep
<1> USE ThreadsAlone, LjmAlone, LockAlone
    DEF Goto, deviceVars, lockVars, flagVars, setupVars, streamVars, hostVars, connVars,
      Alone!Goto, Alone!deviceVars, Alone!lockVars, Alone!flagVars, Alone!setupVars,
      Alone!streamVars, Alone!hostVars, Alone!connVars
<1> USE DEF ConnectionStep, VerifyConnection, Alone!ConnectionStep, Alone!VerifyConnection
<1> Conn \in Threads
  BY DEF Threads
<1>1. CASE LoopStart
  BY <1>1 DEF LoopStart, Alone!LoopStart
<1>2. CASE LoopNotReady
  BY <1>2 DEF LoopNotReady, Alone!LoopNotReady
<1>3. CASE LoopTop
  BY <1>3 DEF LoopTop, Alone!LoopTop
<1>4. CASE Connect(Conn)
  BY <1>4, ConnectAlone
<1>5. CASE Disconnect
  BY <1>5 DEF Disconnect, CloseHandle, Alone!Disconnect, Alone!CloseHandle
<1>6. CASE DisconnectFlag
  BY <1>6 DEF DisconnectFlag, Alone!DisconnectFlag
<1>7. CASE DisconnectPublish
  BY <1>7 DEF DisconnectPublish, Alone!DisconnectPublish
<1>8. CASE VerifyDemo
  BY <1>8 DEF VerifyDemo, Alone!VerifyDemo
<1>9. CASE ProbeNoHandle
  BY <1>9 DEF ProbeNoHandle, Alone!ProbeNoHandle
<1>10. CASE Probe
  BY <1>10 DEF Probe, Alone!Probe
<1>11. CASE \/ ProbeFlag("probe_ok", "probe_ok_pub", TRUE)
            \/ ProbeFlag("probe_bad", "probe_bad_pub", FALSE)
  BY <1>11 DEF ProbeFlag, Alone!ProbeFlag
<1>12. CASE \/ ProbePublish("probe_ok_pub", "top", TRUE)
            \/ ProbePublish("probe_bad_pub", "probe_close", FALSE)
  BY <1>12 DEF ProbePublish, Alone!ProbePublish
<1>13. CASE ProbeClose
  BY <1>13 DEF ProbeClose, CloseHandle, Alone!ProbeClose, Alone!CloseHandle
<1> QED
  BY <1>1, <1>2, <1>3, <1>4, <1>5, <1>6, <1>7, <1>8, <1>9, <1>10, <1>11, <1>12, <1>13

\* The ways to stop a stream.
LEMMA StopAlone ==
    ASSUME NEW thr, NEW key, NEW after, NEW label
    PROVE  /\ StopStreamTaskKey(thr, key, after) => Alone!StopStreamTaskKey(thr, key, after)
           /\ Release(thr, label, key, after) => Alone!Release(thr, label, key, after)
           /\ ReadKey(thr, after) => Alone!ReadKey(thr, after)
<1> USE ThreadsAlone, LjmAlone, LockAlone
    DEF Goto, deviceVars, lockVars, flagVars, setupVars, streamVars, hostVars, connVars,
      Alone!Goto, Alone!deviceVars, Alone!lockVars, Alone!flagVars, Alone!setupVars,
      Alone!streamVars, Alone!hostVars, Alone!connVars
<1>1. StopDemo(thr) => Alone!StopDemo(thr)
  BY DEF StopDemo, Alone!StopDemo
<1>2. StopLocked(thr) => Alone!StopLocked(thr)
  BY DEF StopLocked, StopHandle, Alone!StopLocked, Alone!StopHandle
<1>3. \A l : Release(thr, l, key, after) => Alone!Release(thr, l, key, after)
  BY DEF Release, Alone!Release
<1>4. ReadKey(thr, after) => Alone!ReadKey(thr, after)
  BY DEF ReadKey, Alone!ReadKey
<1> QED
  BY <1>1, <1>2, <1>3, <1>4 DEF StopStreamTaskKey, Alone!StopStreamTaskKey

LEMMA SetupAlone ==
    ASSUME NEW t \in Tasks, Setup(t)
    PROVE  Alone!Setup(t)
<1> USE ThreadsAlone, LjmAlone, LockAlone
    DEF Goto, deviceVars, lockVars, flagVars, setupVars, streamVars, hostVars, connVars,
      Alone!Goto, Alone!deviceVars, Alone!lockVars, Alone!flagVars, Alone!setupVars,
      Alone!streamVars, Alone!hostVars, Alone!connVars
<1> USE StartAlone DEF Setup, Alone!Setup
<1>1. CASE SetupFails(t)
  BY <1>1 DEF SetupFails, Alone!SetupFails
<1>2. CASE SetupStopFails(t)
  BY <1>2 DEF SetupStopFails, Alone!SetupStopFails
<1>3. CASE SetupConfigFails(t)
  BY <1>3 DEF SetupConfigFails, Alone!SetupConfigFails
<1>4. CASE SetupStarts(t)
  BY <1>4 DEF SetupStarts, Alone!SetupStarts
<1> QED
  BY <1>1, <1>2, <1>3, <1>4

LEMMA WorkerAlone ==
    ASSUME NEW t \in Tasks, WorkerSteps(t)
    PROVE  Alone!WorkerSteps(t)
<1> USE ThreadsAlone, LjmAlone, LockAlone
    DEF Goto, deviceVars, lockVars, flagVars, setupVars, streamVars, hostVars, connVars,
      Alone!Goto, Alone!deviceVars, Alone!lockVars, Alone!flagVars, Alone!setupVars,
      Alone!streamVars, Alone!hostVars, Alone!connVars
<1> USE DEF WorkerSteps, WorkerStep, Quiet, Alone!WorkerSteps, Alone!WorkerStep, Alone!Quiet
<1>1. CASE Acquire(t)
  BY <1>1 DEF Acquire, Alone!Acquire
<1>2. CASE Parse(t)
  BY <1>2 DEF Parse, Alone!Parse
<1>3. CASE LoopHead(t, stop[t])
  BY <1>3 DEF LoopHead, Alone!LoopHead
<1>4. CASE IsConnected(t)
  BY <1>4 DEF IsConnected, Alone!IsConnected
<1>5. CASE Setup(t)
  BY <1>5, SetupAlone
<1>6. CASE ReadDemo(t)
  BY <1>6 DEF ReadDemo, Streaming, Alone!ReadDemo, Alone!Streaming
<1>7. CASE ReadSucceeds(t)
  BY <1>7 DEF ReadSucceeds, Streaming, Alone!ReadSucceeds, Alone!Streaming
<1>8. CASE ReadFails(t)
  BY <1>8 DEF ReadFails, Streaming, Alone!ReadFails, Alone!Streaming
<1>9. CASE Publish(t)
  BY <1>9 DEF Publish, Streaming, Alone!Publish, Alone!Streaming
<1>10. CASE Exit(t)
  BY <1>10 DEF Exit, StopHandle, Streaming, Alone!Exit, Alone!StopHandle, Alone!Streaming
<1>11. CASE WorkerConnection(t)
  <2>1. Worker(t) \in Threads
    BY DEF Threads, Workers
  <2>2. MarkDisconnected(Worker(t)) => Alone!MarkDisconnected(Worker(t))
    BY <2>1 DEF MarkDisconnected, CloseHandle, Alone!MarkDisconnected, Alone!CloseHandle
  <2> QED
    BY <1>11, <2>1, <2>2, ConnectAlone DEF WorkerConnection, Alone!WorkerConnection
<1>12. CASE \/ StopStreamTaskKey(Worker(t), t, "returned")
            \/ Release(Worker(t), "config_exit", t, "returned")
            \/ Release(Worker(t), "stop_exit", t, "returned")
  BY <1>12, StopAlone
<1> QED
  BY <1>1, <1>2, <1>3, <1>4, <1>5, <1>6, <1>7, <1>8, <1>9, <1>10, <1>11, <1>12 DEF Streaming

LEMMA TaskAlone ==
    ASSUME NEW t \in Tasks, TaskSteps(t)
    PROVE  Alone!TaskSteps(t)
<1> USE ThreadsAlone, LjmAlone, LockAlone
    DEF Goto, deviceVars, lockVars, flagVars, setupVars, streamVars, hostVars, connVars,
      Alone!Goto, Alone!deviceVars, Alone!lockVars, Alone!flagVars, Alone!setupVars,
      Alone!streamVars, Alone!hostVars, Alone!connVars
<1> USE DEF TaskSteps, HostOnly, Alone!TaskSteps, Alone!HostOnly
<1>1. CASE StartTask(t)
  BY <1>1 DEF StartTask, Alone!StartTask
<1>2. CASE RequestStop(t)
  BY <1>2 DEF RequestStop, Alone!RequestStop
<1>3. CASE OnEnd(t)
  BY <1>3 DEF OnEnd, Alone!OnEnd
<1>4. CASE TaskOver(t)
  BY <1>4 DEF TaskOver, Alone!TaskOver
<1>5. CASE WorkerSteps(t)
  BY <1>5, WorkerAlone
<1>6. CASE EnderSteps(t)
  <2>1. EnderCheck(t) => Alone!EnderCheck(t)
    BY DEF EnderCheck, Alone!EnderCheck
  <2> QED
    BY <1>6, <2>1, StopAlone DEF EnderSteps, EnderStep, Alone!EnderSteps, Alone!EnderStep
<1> QED
  BY <1>1, <1>2, <1>3, <1>4, <1>5, <1>6

LEMMA NextAlone ==
    ASSUME Next
    PROVE  Alone!Next
<1> USE ThreadsAlone, LjmAlone, LockAlone
    DEF Goto, deviceVars, lockVars, flagVars, setupVars, streamVars, hostVars, connVars,
      Alone!Goto, Alone!deviceVars, Alone!lockVars, Alone!flagVars, Alone!setupVars,
      Alone!streamVars, Alone!hostVars, Alone!connVars
<1> USE DEF Next, HostOnly, Alone!Next, Alone!HostOnly
<1>1. CASE Steady /\ UNCHANGED <<connVars, streamVars, hostVars>>
  BY <1>1 DEF Steady, Alone!Steady
<1>2. CASE LoopSteps
  <2>1. LoopEndBegin => Alone!LoopEndBegin
    BY StopAlone DEF LoopEndBegin, Alone!LoopEndBegin
  <2>2. LoopEndStop => Alone!LoopEndStop
    BY StopAlone DEF LoopEndStop, Alone!LoopEndStop
  <2> QED
    BY <1>2, <2>1, <2>2, LoopAlone DEF LoopSteps, Alone!LoopSteps
<1>3. CASE DtorSteps
  <2>1. DtorBegin => Alone!DtorBegin
    BY StopAlone DEF DtorBegin, Alone!DtorBegin
  <2>2. DtorStop => Alone!DtorStop
    BY StopAlone DEF DtorStop, Alone!DtorStop
  <2>3. RemoveLoop => Alone!RemoveLoop
    BY DEF RemoveLoop, Alone!RemoveLoop
  <2>4. Destroyed => Alone!Destroyed
    BY DEF Destroyed, Alone!Destroyed
  <2> QED
    BY <1>3, <2>1, <2>2, <2>3, <2>4 DEF DtorSteps, Alone!DtorSteps
<1>4. CASE RemoveModule
  BY <1>4 DEF RemoveModule, Alone!RemoveModule
<1>5. CASE Destroy
  BY <1>5 DEF Destroy, InsideModule, Alone!Destroy, Alone!InsideModule
<1>6. CASE EndLoopEarly
  BY <1>6 DEF EndLoopEarly, Alone!EndLoopEarly
<1>7. CASE \E t \in Tasks : TaskSteps(t)
  BY <1>7, TaskAlone
<1> QED
  BY <1>1, <1>2, <1>3, <1>4, <1>5, <1>6, <1>7

\* A call of a task is no step of the module alone.
LEMMA CallAlone ==
    ASSUME NEW w \in Writers, BeginWrite(w) \/ WriteSteps(w)
    PROVE  UNCHANGED Alone!vars
<1> USE DEF CallOnly
<1>1. Writer(w) \notin Threads
  BY DEF Writer, Threads, Workers, Enders, Conn, Dtor, Worker, Ender
<1>2. UNCHANGED <<deviceVars, pc, handle, flagVars, setupVars, streamVars, hostVars>>
  BY DEF BeginWrite, WriteSteps, CheckConnected, ReadMode, LockHandle, QuerySource, Write,
         WriteFails, Readback, ReadbackFails, DemoUpsert, Return
<1>3. threadMutex' = threadMutex
  <2>1. CASE mutex' = mutex
    BY <2>1, LockAlone
  <2>2. CASE mutex' # mutex
    <3>1. {mutex, mutex'} = {NoThread, Writer(w)}
      BY <2>2 DEF BeginWrite, WriteSteps, CheckConnected, ReadMode, LockHandle, Locked,
                  QuerySource, Write, WriteFails, Readback, ReadbackFails, DemoUpsert, Return
    <3> QED
      BY <1>1, <3>1, ThreadAssumption DEF threadMutex
  <2> QED
    BY <2>1, <2>2
<1> QED
  BY <1>2, <1>3
  DEF deviceVars, flagVars, setupVars, streamVars, hostVars,
      Alone!vars, Alone!deviceVars, Alone!connVars, Alone!lockVars, Alone!flagVars,
      Alone!setupVars, Alone!streamVars, Alone!hostVars

LEMMA StepAlone == [DigitalNext]_allVars => [Alone!Next]_(Alone!vars)
<1> SUFFICES ASSUME [DigitalNext]_allVars PROVE [Alone!Next]_(Alone!vars)
  OBVIOUS
<1>1. CASE Beside(Next)
  BY <1>1, NextAlone DEF Beside
<1>2. CASE \E w \in Writers : BeginWrite(w) \/ WriteSteps(w)
  BY <1>2, CallAlone
<1>3. CASE (\E c \in Channels : SetSource(c)) \/ UNCHANGED allVars
  BY <1>3, LockAlone
  DEF SetSource, allVars, vars, deviceVars, connVars, lockVars, flagVars, setupVars,
      streamVars, hostVars, Alone!vars, Alone!deviceVars, Alone!connVars, Alone!lockVars,
      Alone!flagVars, Alone!setupVars, Alone!streamVars, Alone!hostVars
<1> QED
  BY <1>1, <1>2, <1>3 DEF DigitalNext

LEMMA InitAlone == DigitalInit => Alone!Init
  BY ThreadsAlone, ThreadAssumption
  DEF DigitalInit, Init, LjmInit, ConnInit, StreamInit, Closers, threadMutex,
      Alone!Init, Alone!LjmInit, Alone!ConnInit, Alone!StreamInit, Alone!Closers

\* Digital write tasks add nothing to what the rest of the module does: no thread runs
\* inside a section of the lock that a task has.  All that is proved about the module
\* alone, ownership, sessions and teardown, holds beside any number of them.
THEOREM TasksBeside == DigitalSpec => RestUndisturbed
<1>1. DigitalInit => Alone!Init
  BY InitAlone
<1>2. [DigitalNext]_allVars => [Alone!Next]_(Alone!vars)
  BY StepAlone
<1> QED
  BY <1>1, <1>2, PTL DEF DigitalSpec, RestUndisturbed, Alone!Spec

(***************************************************************************)
(* What a step of the rest does to what the calls of the tasks rely on:    *)
(* the lock, the handle, and the mode.                                     *)
(***************************************************************************)
\* What is proved of the module alone, and used here.
RestInv == Alone!TypeOK /\ Alone!HandleInv

LEMMA RestInit == DigitalInit => RestInv
<1>1. Alone!Init => RestInv
  BY ThreadsAlone, TasksAssumption, HandlesAssumption, DemoAssumption, ThreadAssumption,
     HostAssumption, Alone!TypeInit, Alone!HandleInit DEF RestInv
<1> QED
  BY <1>1, InitAlone

LEMMA RestStep == RestInv /\ [DigitalNext]_allVars => RestInv'
<1>1. RestInv /\ [Alone!Next]_(Alone!vars) => RestInv'
  BY ThreadsAlone, TasksAssumption, HandlesAssumption, DemoAssumption, ThreadAssumption,
     HostAssumption, Alone!TypeStep, Alone!HandleStep DEF RestInv
<1> QED
  BY <1>1, StepAlone

LEMMA RestKnown ==
    ASSUME RestInv
    PROVE  /\ pc \in [Threads -> Labels]
           /\ \A thr \in Threads : pc[thr] \in LockedLabels <=> mutex = thr
           /\ demo \in BOOLEAN /\ demoConfig \in BOOLEAN
           /\ handle = NoHandle \/ handle \in dev.opened
<1>1. pc \in [Threads -> Labels] /\ demo \in BOOLEAN /\ demoConfig \in BOOLEAN
  BY ThreadsAlone DEF RestInv, Alone!TypeOK
<1>2. \A thr \in Threads : pc[thr] \in LockedLabels <=> threadMutex = thr
  BY ThreadsAlone
  DEF RestInv, Alone!HandleInv, Alone!LockDiscipline, Alone!LockedLabels, LockedLabels
<1>3. \A thr \in Threads : threadMutex = thr <=> mutex = thr
  BY ThreadAssumption DEF threadMutex
<1>4. handle = NoHandle \/ handle \in dev.opened
  BY DEF RestInv, Alone!HandleInv, Alone!NoHandleLeak
<1> QED
  BY <1>1, <1>2, <1>3, <1>4

\* The lock goes from nobody to a thread and back; the handle is opened under it.
LockEffect ==
    /\ \/ mutex' = mutex
       \/ mutex = NoThread /\ mutex' \in Threads
       \/ mutex \in Threads /\ mutex' = NoThread
    /\ handle' \in {handle, NoHandle} \/ mutex \in Threads

\* Where a thread has found the device to be there.
Found == {"open", "set_true", "pub_true", "probe_ok", "probe_ok_pub"}

\* Before the first connect of a module with a demo token nothing is found: connected_
\* is not set before demo_mode_ is.
DemoFirst ==
    demoConfig /\ ~demo =>
        handle = NoHandle /\ ~connected /\ \A thr \in Threads : pc[thr] \notin Found

\* A token in the configuration is for the life of the module.
ModeEffect == demoConfig' = demoConfig /\ demo' \in {demo, demoConfig} /\ DemoFirst'

RestEffect == LockEffect /\ ModeEffect

\* A step that finds nothing and does not open a handle.
LEMMA QuietRest ==
    ASSUME RestInv, DemoFirst, mutex' = mutex, handle' \in {handle, NoHandle},
           UNCHANGED <<demo, demoConfig>>, connected' \in {connected, FALSE},
           \A thr \in Threads : pc'[thr] = pc[thr] \/ pc'[thr] \notin Found
    PROVE  RestEffect
<1>1. LockEffect
  BY DEF LockEffect
<1>2. connected' => connected
  OBVIOUS
<1>3. DemoFirst'
  BY <1>2 DEF DemoFirst
<1> QED
  BY <1>1, <1>3 DEF RestEffect, ModeEffect

LEMMA CloseRest ==
    ASSUME CloseHandle
    PROVE  handle' \in {handle, NoHandle}
  BY DEF CloseHandle

LEMMA ConnectRest ==
    ASSUME RestInv, DemoFirst, NEW thr \in Threads, Connect(thr)
    PROVE  RestEffect
<1> USE RestKnown DEF Goto, lockVars, flagVars, setupVars, Locked
<1>1. CASE ConnectAlready(thr)
  BY <1>1 DEF ConnectAlready, RestEffect, LockEffect, ModeEffect, DemoFirst, Found
<1>2. CASE ConnectBegin(thr)
  BY <1>2 DEF ConnectBegin, RestEffect, LockEffect, ModeEffect, DemoFirst, Found
<1>3. CASE OpenHandle(thr)
  BY <1>3 DEF OpenHandle, LockedLabels, RestEffect, LockEffect, ModeEffect, DemoFirst, Found
<1>4. CASE SetConnected(thr, "set_true", TRUE) \/ SetConnected(thr, "set_false", FALSE)
  BY <1>4 DEF SetConnected, RestEffect, LockEffect, ModeEffect, DemoFirst, Found
<1>5. CASE \/ PublishConnected(thr, "pub_true", TRUE)
           \/ PublishConnected(thr, "pub_false", FALSE)
  BY <1>5 DEF PublishConnected, Resume, LockedLabels, RestEffect, LockEffect, ModeEffect,
              DemoFirst, Found
<1> QED
  BY <1>1, <1>2, <1>3, <1>4, <1>5 DEF Connect

LEMMA LoopRest ==
    ASSUME RestInv, DemoFirst, ConnectionStep
    PROVE  RestEffect
<1> USE RestKnown
    DEF Goto, deviceVars, lockVars, flagVars, setupVars, Locked, InOneStep, Found
<1> Conn \in Threads
  BY DEF Threads
<1>1. CASE LoopStart \/ LoopNotReady \/ LoopTop
  BY <1>1, QuietRest DEF LoopStart, LoopNotReady, LoopTop
<1>2. CASE Connect(Conn)
  BY <1>2, ConnectRest
<1>3. CASE Disconnect
  BY <1>3, CloseRest DEF Disconnect, RestEffect, LockEffect, ModeEffect, DemoFirst
<1>4. CASE DisconnectFlag
  BY <1>4, QuietRest DEF DisconnectFlag
<1>5. CASE DisconnectPublish
  BY <1>5 DEF DisconnectPublish, LockedLabels, RestEffect, LockEffect, ModeEffect, DemoFirst
<1>6. CASE VerifyDemo
  BY <1>6 DEF VerifyDemo, RestEffect, LockEffect, ModeEffect, DemoFirst
<1>7. CASE ProbeNoHandle
  BY <1>7 DEF ProbeNoHandle, RestEffect, LockEffect, ModeEffect, DemoFirst
<1>8. CASE Probe
  BY <1>8 DEF Probe, RestEffect, LockEffect, ModeEffect, DemoFirst
<1>9. CASE \/ ProbeFlag("probe_ok", "probe_ok_pub", TRUE)
           \/ ProbeFlag("probe_bad", "probe_bad_pub", FALSE)
  BY <1>9 DEF ProbeFlag, RestEffect, LockEffect, ModeEffect, DemoFirst
<1>10. CASE \/ ProbePublish("probe_ok_pub", "top", TRUE)
            \/ ProbePublish("probe_bad_pub", "probe_close", FALSE)
  BY <1>10, QuietRest DEF ProbePublish
<1>11. CASE ProbeClose
  BY <1>11, QuietRest, CloseRest DEF ProbeClose
<1> QED
  BY <1>1, <1>2, <1>3, <1>4, <1>5, <1>6, <1>7, <1>8, <1>9, <1>10, <1>11
  DEF ConnectionStep, VerifyConnection

LEMMA StopRest ==
    ASSUME RestInv, DemoFirst, NEW thr \in Threads, NEW key, NEW label,
           NEW after \in {"disconnect", "remove_loop", "returned", "done"},
           \/ StopStreamTaskKey(thr, key, after)
           \/ Release(thr, label, key, after)
           \/ ReadKey(thr, after)
    PROVE  RestEffect
  BY RestKnown, QuietRest
  DEF Goto, deviceVars, lockVars, flagVars, setupVars, InOneStep, Found, StopStreamTaskKey,
      StopDemo, StopLocked, StopHandle, Release, ReadKey

LEMMA WorkerRest ==
    ASSUME RestInv, DemoFirst, NEW t \in Tasks, WorkerSteps(t)
    PROVE  RestEffect
<1> USE RestKnown
    DEF Goto, deviceVars, lockVars, flagVars, setupVars, InOneStep, Found, Quiet
<1> Worker(t) \in Threads
  BY DEF Threads, Workers
<1>1. CASE Acquire(t) \/ Parse(t) \/ LoopHead(t, stop[t]) \/ IsConnected(t)
  BY <1>1, QuietRest DEF Acquire, Parse, LoopHead, IsConnected
<1>2. CASE Setup(t)
  BY <1>2, QuietRest DEF Setup, SetupFails, SetupStopFails, SetupConfigFails, SetupStarts
<1>3. CASE Streaming(t)
  BY <1>3, QuietRest DEF Streaming, ReadDemo, ReadSucceeds, ReadFails, Publish, Exit, StopHandle
<1>4. CASE Connect(Worker(t))
  BY <1>4, ConnectRest
<1>5. CASE MarkDisconnected(Worker(t))
  BY <1>5, CloseRest DEF MarkDisconnected, Locked, RestEffect, LockEffect, ModeEffect, DemoFirst
<1>6. CASE \/ StopStreamTaskKey(Worker(t), t, "returned")
           \/ Release(Worker(t), "config_exit", t, "returned")
           \/ Release(Worker(t), "stop_exit", t, "returned")
  BY <1>6, StopRest
<1> QED
  BY <1>1, <1>2, <1>3, <1>4, <1>5, <1>6 DEF WorkerSteps, WorkerStep, WorkerConnection

LEMMA NextRest ==
    ASSUME RestInv, DemoFirst, Next
    PROVE  RestEffect
<1> USE RestKnown DEF Goto, deviceVars, lockVars, flagVars, setupVars, Found, HostOnly
<1> Conn \in Threads /\ Dtor \in Threads /\ \A t \in Tasks : Ender(t) \in Threads
  BY DEF Threads, Enders
<1>1. CASE Steady /\ UNCHANGED <<connVars, streamVars, hostVars>>
  BY <1>1, QuietRest DEF Steady, connVars
<1>2. CASE LoopSteps
  BY <1>2, LoopRest, StopRest DEF LoopSteps, LoopEndBegin, LoopEndStop
<1>3. CASE (DtorBegin \/ DtorStop) /\ UNCHANGED hostVars
  BY <1>3, StopRest DEF DtorBegin, DtorStop
<1>4. CASE RemoveLoop \/ Destroyed \/ RemoveModule \/ Destroy \/ EndLoopEarly
  BY <1>4, QuietRest DEF RemoveLoop, Destroyed, RemoveModule, Destroy, EndLoopEarly
<1>5. ASSUME NEW t \in Tasks, TaskSteps(t)
      PROVE  RestEffect
  <2>1. CASE StartTask(t) \/ RequestStop(t) \/ OnEnd(t) \/ TaskOver(t)
    BY <2>1, QuietRest DEF StartTask, RequestStop, OnEnd, TaskOver
  <2>2. CASE EnderCheck(t)
    BY <2>2, QuietRest DEF EnderCheck
  <2> QED
    BY <1>5, <2>1, <2>2, WorkerRest, StopRest DEF TaskSteps, EnderSteps, EnderStep
<1> QED
  BY <1>1, <1>2, <1>3, <1>4, <1>5 DEF Next, DtorSteps

(***************************************************************************)
(* The calls.                                                              *)
(***************************************************************************)
LEMMA MinIsLeast ==
    ASSUME NEW S \in SUBSET Nat, S # {}
    PROVE  Min(S) \in S
<1> DEFINE R == {ss \in Nat \X Nat : ss[1] < ss[2]}
<1>1. IsWellFoundedOn(R, Nat)
  BY NatLessThanWellFounded DEF OpToRel
<1> HIDE DEF R
<1>2. PICK n \in S : \A m \in S : ~(<<m, n>> \in R)
  BY <1>1, WFMin
<1>3. \A m \in S : m \in Nat /\ n \in Nat /\ ~(m < n)
  BY <1>2 DEF R
<1>4. \A m \in S : n <= m
  BY <1>3
<1> QED
  BY <1>4 DEF Min

\* The mapping a call is at is one it can use.
LEMMA MappingUsable ==
    ASSUME DigitalTypeOK, NEW w \in Writers, todo[w] # {}
    PROVE  Usable(Mapping(w))
<1>1. todo[w] \subseteq Mappings(w) /\ Mappings(w) \subseteq Nat
  BY ArgumentsAssumption DEF DigitalTypeOK, Mappings
<1>2. Min(todo[w]) \in Mappings(w)
  BY <1>1, MinIsLeast
<1> QED
  BY <1>2 DEF Mapping, Mappings

LEMMA WritersApart ==
    \A w \in Writers : /\ Writer(w) # NoThread /\ Writer(w) \notin Threads
                       /\ \A v \in Writers : Writer(v) = Writer(w) => v = w
  BY WriterAssumption DEF Writer, Threads, Workers, Enders, Conn, Dtor, Worker, Ender

(***************************************************************************)
(* A call holds the lock from before its first query until it returns, so  *)
(* between its write and its readback nobody writes a register and nobody  *)
(* opens a handle on a device that lost its outputs.                       *)
(***************************************************************************)
LockHeldByCall ==
    \A w \in Writers : wpc[w] \in {"query", "write", "readback"} <=> mutex = Writer(w)

ModeKnown == demoConfig => \A w \in Writers : wpc[w] = "mode" => demo

AtMapping == \A w \in Writers : wpc[w] \in {"write", "readback", "demo_upsert"} => todo[w] # {}

JustWritten ==
    \A w \in Writers : wpc[w] = "readback" => desired[w] = (Mapping(w).register \in outputs)

CallInv ==
    /\ DigitalTypeOK
    /\ LockHeldByCall
    /\ DemoWritesNothing /\ ModeKnown
    /\ AtMapping /\ JustWritten

\* The steps of the rest of the module.
LEMMA BesideCalls ==
    ASSUME RestInv, DemoFirst, CallInv, Beside(Next)
    PROVE  DemoFirst' /\ CallInv'
<1>1. RestEffect
  BY NextRest DEF Beside
<1>2. UNCHANGED <<wpc, todo, desired, source, state>> /\ outputs' \in {outputs, {}}
  BY DEF Beside, callVars, PowerCycled
<1>3. DigitalTypeOK'
  BY <1>2 DEF CallInv, DigitalTypeOK
<1>4. LockHeldByCall'
  BY <1>1, <1>2, WritersApart DEF CallInv, LockHeldByCall, RestEffect, LockEffect
<1>5. DemoWritesNothing' /\ ModeKnown' /\ AtMapping'
  BY <1>1, <1>2
  DEF CallInv, DemoWritesNothing, ModeKnown, AtMapping, RestEffect, ModeEffect
<1>6. ASSUME NEW w \in Writers, mutex = Writer(w)
      PROVE  outputs' = outputs
  <2>1. handle' = NoHandle \/ handle' \in dev.opened
    BY <1>1, <1>6, RestKnown, WritersApart DEF RestEffect, LockEffect
  <2> QED
    BY <2>1 DEF Beside, PowerCycled
<1>7. JustWritten'
  BY <1>2, <1>6 DEF CallInv, JustWritten, LockHeldByCall, Mapping
<1> QED
  BY <1>1, <1>3, <1>4, <1>5, <1>7 DEF CallInv, RestEffect, ModeEffect

\* The steps of a call.
LEMMA CallCalls ==
    ASSUME RestInv, DemoFirst, CallInv, NEW w \in Writers, BeginWrite(w) \/ WriteSteps(w)
    PROVE  DemoFirst' /\ CallInv'
<1> USE WritersApart, RestKnown DEF At, Move, CallOnly, Locked, flagVars, setupVars
<1>1. DemoFirst' /\ source' = source
  BY DEF BeginWrite, WriteSteps, CheckConnected, ReadMode, LockHandle, QuerySource, Write,
         WriteFails, Readback, ReadbackFails, DemoUpsert, Return, DemoFirst
<1>2. CASE BeginWrite(w)
  BY <1>1, <1>2 DEF BeginWrite, CallInv, DigitalTypeOK, LockHeldByCall, DemoWritesNothing,
                    ModeKnown, AtMapping, JustWritten, Mapping
<1>3. CASE CheckConnected(w)
  BY <1>1, <1>3 DEF CheckConnected, DemoFirst, CallInv, DigitalTypeOK, LockHeldByCall,
                    DemoWritesNothing, ModeKnown, AtMapping, JustWritten, Mapping
<1>4. CASE ReadMode(w)
  BY <1>1, <1>4 DEF ReadMode, CallInv, DigitalTypeOK, LockHeldByCall, DemoWritesNothing,
                    ModeKnown, AtMapping, JustWritten, Mapping
<1>5. CASE LockHandle(w)
  BY <1>1, <1>5 DEF LockHandle, CallInv, DigitalTypeOK, LockHeldByCall, DemoWritesNothing,
                    ModeKnown, AtMapping, JustWritten, Mapping
<1>6. CASE QuerySource(w, "query", "write") \/ QuerySource(w, "demo_query", "demo_upsert")
  <2>1. source[Mapping(w).channel] \in BOOLEAN
    BY <1>6, MappingUsable DEF QuerySource, CallInv, DigitalTypeOK, Usable
  <2> QED
    BY <1>1, <1>6, <2>1
    DEF QuerySource, CallInv, DigitalTypeOK, LockHeldByCall, DemoWritesNothing, ModeKnown,
        AtMapping, JustWritten, Mapping
<1>7. CASE Write(w)
  <2>1. outputs' \subseteq Registers /\ (Mapping(w).register \in outputs' <=> desired[w])
    BY <1>7, MappingUsable
    DEF Write, Written, CallInv, DigitalTypeOK, AtMapping, Usable
  <2>2. desired[w] = (Mapping(w).register \in outputs')
    BY <2>1 DEF CallInv, DigitalTypeOK
  <2>3. DigitalTypeOK'
    BY <1>1, <1>7, <2>1 DEF Write, CallInv, DigitalTypeOK
  <2>4. JustWritten'
    BY <1>7, <2>2 DEF Write, CallInv, DigitalTypeOK, LockHeldByCall, JustWritten, Mapping
  <2> QED
    BY <1>1, <1>7, <2>3, <2>4
    DEF Write, CallInv, DigitalTypeOK, LockHeldByCall, DemoWritesNothing, ModeKnown, AtMapping
<1>8. CASE WriteFails(w)
  <2>1. outputs' \subseteq Registers
    BY <1>8, MappingUsable DEF WriteFails, Written, CallInv, DigitalTypeOK, AtMapping, Usable
  <2>2. DigitalTypeOK'
    BY <1>1, <1>8, <2>1 DEF WriteFails, NextMapping, CallInv, DigitalTypeOK
  <2>3. LockHeldByCall' /\ JustWritten'
    BY <1>8 DEF WriteFails, NextMapping, CallInv, DigitalTypeOK, LockHeldByCall, JustWritten,
                Mapping
  <2>4. DemoWritesNothing' /\ ModeKnown' /\ AtMapping'
    BY <1>1, <1>8 DEF WriteFails, NextMapping, CallInv, DigitalTypeOK, DemoWritesNothing,
                      ModeKnown, AtMapping
  <2> QED
    BY <1>1, <2>2, <2>3, <2>4 DEF CallInv
<1>9. CASE Readback(w) \/ ReadbackFails(w)
  <2>1. ASSUME Readback(w) PROVE DigitalTypeOK'
    <3>1. (Mapping(w).register \in outputs) \in BOOLEAN
      OBVIOUS
    <3>2. PICK b \in BOOLEAN : state' = [state EXCEPT ![Mapping(w).channel] = b]
      BY <2>1, <3>1, Zenon DEF Readback
    <3> QED
      BY <1>1, <2>1, <3>2 DEF Readback, NextMapping, CallInv, DigitalTypeOK
  <2>2. ASSUME ReadbackFails(w) PROVE DigitalTypeOK'
    BY <1>1, <2>2 DEF ReadbackFails, NextMapping, CallInv, DigitalTypeOK
  <2>3. DigitalTypeOK'
    BY <1>9, <2>1, <2>2
  <2> QED
    BY <1>1, <1>9, <2>3
    DEF Readback, ReadbackFails, NextMapping, CallInv, DigitalTypeOK, LockHeldByCall,
        DemoWritesNothing, ModeKnown, AtMapping, JustWritten, Mapping
<1>10. CASE DemoUpsert(w)
  <2>1. DigitalTypeOK'
    BY <1>1, <1>10 DEF DemoUpsert, NextMapping, CallInv, DigitalTypeOK
  <2> QED
    BY <1>1, <1>10, <2>1
    DEF DemoUpsert, NextMapping, CallInv, DigitalTypeOK, LockHeldByCall, DemoWritesNothing,
        ModeKnown, AtMapping, JustWritten, Mapping
<1>11. CASE Return(w, "query") \/ Return(w, "demo_query")
  <2>1. DigitalTypeOK'
    BY <1>1, <1>11 DEF Return, CallInv, DigitalTypeOK
  <2> QED
    BY <1>1, <1>11, <2>1
    DEF Return, CallInv, DigitalTypeOK, LockHeldByCall, DemoWritesNothing, ModeKnown,
        AtMapping, JustWritten, Mapping
<1> QED
  BY <1>2, <1>3, <1>4, <1>5, <1>6, <1>7, <1>8, <1>9, <1>10, <1>11 DEF WriteSteps

LEMMA CallInit == DigitalInit => DemoFirst /\ CallInv
<1> SUFFICES ASSUME DigitalInit PROVE DemoFirst /\ CallInv
  OBVIOUS
<1>1. DemoFirst
  <2>1. \A thr \in Threads : pc[thr] \notin Found
    BY DEF DigitalInit, Init, Found
  <2> QED
    BY <2>1 DEF DigitalInit, Init, ConnInit, DemoFirst
<1>2. DigitalTypeOK
  BY DEF DigitalInit, DigitalTypeOK
<1> QED
  BY <1>1, <1>2, WritersApart
  DEF DigitalInit, Init, ConnInit, CallInv, LockHeldByCall, DemoWritesNothing, ModeKnown,
      AtMapping, JustWritten

DigitalIInv == RestInv /\ DemoFirst /\ CallInv

LEMMA DigitalStep == DigitalIInv /\ [DigitalNext]_allVars => DigitalIInv'
<1> SUFFICES ASSUME DigitalIInv, [DigitalNext]_allVars PROVE DigitalIInv'
  OBVIOUS
<1>1. RestInv /\ DemoFirst /\ CallInv /\ RestInv'
  BY RestStep DEF DigitalIInv
<1>2. CASE Beside(Next)
  BY <1>1, <1>2, BesideCalls DEF DigitalIInv
<1>3. CASE \E w \in Writers : BeginWrite(w) \/ WriteSteps(w)
  BY <1>1, <1>3, CallCalls DEF DigitalIInv
<1>4. CASE (\E c \in Channels : SetSource(c)) \/ UNCHANGED allVars
  <2>1. UNCHANGED <<vars, callVars, state, outputs>>
    BY <1>4 DEF SetSource, allVars, digitalVars
  <2>2. source' \in [Channels -> BOOLEAN]
    BY <1>1, <1>4 DEF SetSource, allVars, digitalVars, CallInv, DigitalTypeOK
  <2> QED
    BY <1>1, <2>1, <2>2
    DEF DigitalIInv, DemoFirst, CallInv, DigitalTypeOK, LockHeldByCall, DemoWritesNothing,
        ModeKnown, AtMapping, JustWritten, Mapping, vars, callVars, connVars, lockVars,
        flagVars, setupVars
<1> QED
  BY <1>2, <1>3, <1>4 DEF DigitalNext

\* No call of a digital write task reaches the hardware path in demo mode, although it
\* tests connected_ and demo_mode_ without the lock while connect sets them.
THEOREM DigitalSafe == DigitalSpec => []DigitalInv
<1>1. DigitalInit => DigitalIInv
  BY RestInit, CallInit DEF DigitalIInv
<1>2. DigitalIInv /\ [DigitalNext]_allVars => DigitalIInv'
  BY DigitalStep
<1>3. DigitalIInv => DigitalInv
  BY DEF DigitalIInv, CallInv, DigitalInv
<1> QED
  BY <1>1, <1>2, <1>3, PTL DEF DigitalSpec

\* What a call puts into a _state channel after a mapping.
MirrorStep ==
    \A w \in Writers : \A c \in Channels :
        (At(w, "readback") \/ At(w, "demo_upsert")) /\ todo'[w] # todo[w]
              /\ state'[c] # state[c]
          => state'[c] = desired[w]

LEMMA MirrorHolds == DigitalIInv /\ [DigitalNext]_allVars => MirrorStep
<1> SUFFICES ASSUME DigitalIInv, [DigitalNext]_allVars, NEW w \in Writers, NEW c \in Channels,
                    At(w, "readback") \/ At(w, "demo_upsert"),
                    todo'[w] # todo[w], state'[c] # state[c]
             PROVE  state'[c] = desired[w]
  BY DEF MirrorStep
<1>1. DigitalTypeOK /\ JustWritten
  BY DEF DigitalIInv, CallInv
<1>2. PICK v \in Writers : WriteSteps(v)
  BY DEF DigitalNext, Beside, BeginWrite, SetSource, allVars, digitalVars, callVars
<1>3. v = w
  BY <1>1, <1>2
  DEF WriteSteps, CheckConnected, ReadMode, LockHandle, QuerySource, Write, WriteFails,
      Readback, ReadbackFails, NextMapping, DemoUpsert, Return, DigitalTypeOK
<1>4. CASE Readback(w)
  BY <1>1, <1>4 DEF Readback, At, JustWritten, DigitalTypeOK
<1>5. CASE DemoUpsert(w)
  BY <1>1, <1>5 DEF DemoUpsert, DigitalTypeOK
<1> QED
  BY <1>2, <1>3, <1>4, <1>5
  DEF At, WriteSteps, CheckConnected, ReadMode, LockHandle, QuerySource, Write, WriteFails,
      ReadbackFails, Return

\* The _state channel is a readback of what was commanded: two tasks that write one
\* register, or a device that reconnects and has lost its outputs, never put another
\* value there.
THEOREM MirrorsCommand == DigitalSpec => StateMirrorsCommand
<1>1. DigitalInit => DigitalIInv
  BY RestInit, CallInit DEF DigitalIInv
<1>2. DigitalIInv /\ [DigitalNext]_allVars => DigitalIInv' /\ MirrorStep
  BY DigitalStep, MirrorHolds
<1> QED
  BY <1>1, <1>2, PTL DEF DigitalSpec, StateMirrorsCommand, MirrorStep
================================================================================
