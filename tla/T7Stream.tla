------------------------------- MODULE T7Stream --------------------------------
(***************************************************************************)
(* The streaming half of LabJackT7Controller: the ownership of the         *)
(* hardware stream (active_stream_task_key_ under stream_mutex_),          *)
(* runStreamWorker, and the three ways to stop a stream from outside it.   *)
(*                                                                         *)
(* stream_mutex_ only ever guards one read or one write of the key, so its *)
(* sections are single steps and the mutex itself needs no variable.       *)
(***************************************************************************)
EXTENDS T7Controller

VARIABLES
    owner,      \* active_stream_task_key_
    saved,      \* the key stopStream() copied before it let go of the lock
    started,    \* stream_started of each worker
    data        \* whose samples are in each worker's buffer

streamVars == <<owner, saved, started, data>>

Closers == {Conn, Dtor}

WorkerLabels ==
    ConnectLabels \union StopLabels \union
    {"idle", "begin", "parse", "loop", "isconn", "setup", "read", "publish",
     "exit", "config_exit", "stop_exit", "returned"}

StreamInit ==
    /\ owner = NoTask
    /\ saved = [thr \in Closers |-> NoTask]
    /\ started = [t \in Tasks |-> FALSE]
    /\ data = [t \in Tasks |-> NoTask]

Harmless(result) == result \in {"ok", "not_running"}

--------------------------------------------------------------------------------
(* stopStreamTaskKey, run by any thread.                                      *)

\* Faulty: in demo mode there is nothing to stop, and it returns at once.
StopDemoReturns(thr) ==
    /\ pc[thr] = "stop_stream"
    /\ Goto(thr, CASE ~demo          -> "stop_lock"
                  [] demo /\ thr = Conn -> "disconnect"
                  [] demo /\ thr = Dtor -> "remove_loop"
                  [] demo /\ thr \in Workers -> "returned"
                  [] OTHER -> "done")
    /\ UNCHANGED <<deviceVars, lockVars, flagVars, setupVars, streamVars>>

\* demo_mode_ is read before the lock is asked for.
StopDemo(thr) ==
    /\ pc[thr] = "stop_stream"
    /\ Goto(thr, IF demo THEN "release" ELSE "stop_lock")
    /\ UNCHANGED <<deviceVars, lockVars, flagVars, setupVars, streamVars>>

\* LJM_eStreamStop under the lock, an error is only reported.
StopHandle ==
    /\ InOneStep
    /\ IF handle = NoHandle
       THEN UNCHANGED dev
       ELSE \E o \in StreamStop(dev, handle) : dev' = o.dev

StopLocked(thr) ==
    /\ pc[thr] = "stop_lock"
    /\ StopHandle
    /\ Goto(thr, "release")
    /\ UNCHANGED <<steady, handle, flagVars, setupVars, streamVars>>

\* Faulty: the key is cleared with the sentinel of the handle.
ReleaseWithHandle(thr, label, key, after) ==
    /\ pc[thr] = label
    /\ owner' = IF owner = key THEN NoHandle ELSE owner
    /\ Goto(thr, after)
    /\ UNCHANGED <<deviceVars, lockVars, flagVars, setupVars,
                   saved, started, data>>

\* releaseStream(key): nothing happens when the key is no longer the owner.
Release(thr, label, key, after) ==
    /\ pc[thr] = label
    /\ owner' = IF owner = key THEN NoTask ELSE owner
    /\ Goto(thr, after)
    /\ UNCHANGED <<deviceVars, lockVars, flagVars, setupVars,
                   saved, started, data>>

StopStreamTaskKey(thr, key, after) ==
    \/ StopDemo(thr)
    \/ StopLocked(thr)
    \/ Release(thr, "release", key, after)

\* stopStream(): the key is read, and the lock released, before anything is
\* stopped.
ReadKey(thr, after) ==
    /\ saved' = [saved EXCEPT ![thr] = owner]
    /\ Goto(thr, IF owner = NoTask THEN after ELSE "stop_stream")
    /\ UNCHANGED <<deviceVars, lockVars, flagVars, setupVars,
                   owner, started, data>>

\* connectionLoopEnd: stopStream(), then disconnect.
LoopEndBegin ==
    /\ pc[Conn] = "top"
    /\ loopEnd
    /\ ReadKey(Conn, "disconnect")

LoopEndStop == StopStreamTaskKey(Conn, saved[Conn], "disconnect")

\* Faulty: on_end leaves everything to the worker.
EnderDoesNothing(t) ==
    /\ pc[Ender(t)] = "check"
    /\ Goto(Ender(t), "done")
    /\ UNCHANGED <<deviceVars, lockVars, flagVars, setupVars, streamVars>>

\* stopStream(task_runtime): only the owner's stream is stopped.
EnderCheck(t) ==
    /\ pc[Ender(t)] = "check"
    /\ Goto(Ender(t), IF owner = t THEN "stop_stream" ELSE "done")
    /\ UNCHANGED <<deviceVars, lockVars, flagVars, setupVars, streamVars>>

EnderStep(t) == EnderCheck(t) \/ StopStreamTaskKey(Ender(t), t, "done")

--------------------------------------------------------------------------------
(* runStreamWorker, before its loop.                                          *)

\* What a step of the worker that touches neither LJM nor the flags leaves alone.
Quiet == UNCHANGED <<deviceVars, lockVars, flagVars, setupVars, saved>>

\* Faulty: the key is taken without looking whether it is free.
AcquireAnyway(t) ==
    /\ pc[Worker(t)] = "begin"
    /\ IF libReady
       THEN owner' = t /\ Goto(Worker(t), "parse")
       ELSE UNCHANGED owner /\ Goto(Worker(t), "returned")
    /\ started' = [started EXCEPT ![t] = FALSE]
    /\ UNCHANGED data
    /\ Quiet

\* tryAcquireStream; without the library the task ends at once.
Acquire(t) ==
    /\ pc[Worker(t)] = "begin"
    /\ IF libReady /\ owner = NoTask
       THEN owner' = t /\ Goto(Worker(t), "parse")
       ELSE UNCHANGED owner /\ Goto(Worker(t), "returned")
    /\ started' = [started EXCEPT ![t] = FALSE]
    /\ UNCHANGED data
    /\ Quiet

\* The arguments are valid, are reported and refused, or make json throw out of
\* the worker (a field of the wrong type), which returns with the key still set.
Parse(t) ==
    /\ pc[Worker(t)] = "parse"
    /\ \E next \in {"loop", "stop_stream", "returned"} : Goto(Worker(t), next)
    /\ UNCHANGED <<owner, started, data>>
    /\ Quiet

--------------------------------------------------------------------------------
(* The head of the loop: reach a started stream.  Whether a stop was asked    *)
(* for is the host's to say.                                                  *)

\* Faulty: only a worker whose stream runs looks at the stop request.
LoopHeadWaitsForStream(t, stopRequested) ==
    /\ pc[Worker(t)] = "loop"
    /\ Goto(Worker(t), IF ~(started[t] \/ demo) THEN "isconn"
                       ELSE IF stopRequested THEN "exit" ELSE "read")
    /\ started' = [started EXCEPT ![t] = @ \/ demo]
    /\ UNCHANGED <<owner, data>>
    /\ Quiet

LoopHead(t, stopRequested) ==
    /\ pc[Worker(t)] = "loop"
    /\ Goto(Worker(t), IF stopRequested THEN "exit"
                       ELSE IF started[t] \/ demo THEN "read" ELSE "isconn")
    /\ started' = [started EXCEPT ![t] = @ \/ (~stopRequested /\ demo)]
    /\ UNCHANGED <<owner, data>>
    /\ Quiet

IsConnected(t) ==
    /\ pc[Worker(t)] = "isconn"
    /\ Goto(Worker(t), IF connected THEN "setup" ELSE "connect")
    /\ UNCHANGED <<owner, started, data>>
    /\ Quiet

--------------------------------------------------------------------------------
(* Configure and start the stream, one locked section.                        *)

\* LJM_eStreamStart, and once more after a stop if a stream is already active.
EnsureStarted(d, t) ==
    UNION { IF first.result # "active" THEN {first} ELSE
            UNION { IF Harmless(s.result) THEN StreamStart(s.dev, handle, t)
                                          ELSE {s} :
                    s \in StreamStop(first.dev, handle) } :
            first \in StreamStart(d, handle, t) }

\* Faulty: a register write that fails is not noticed.
ConfiguredPerhaps(t) ==
    UNION { { c.dev : c \in WriteAnalogConfig(s.dev, t) } :
            s \in {o \in StreamStop(dev, handle) : Harmless(o.result)} }

\* The devices in which the stream is stopped and task t's settings applied.
Configured(t) ==
    UNION { { c.dev : c \in {o \in WriteAnalogConfig(s.dev, t) : o.result = "ok"} } :
            s \in {o \in StreamStop(dev, handle) : Harmless(o.result)} }

\* The section finds no handle, or fails to start: close the handle and retry.
SetupFails(t) ==
    /\ pc[Worker(t)] = "setup"
    /\ InOneStep
    /\ IF handle = NoHandle
       THEN UNCHANGED dev
       ELSE \E d \in Configured(t) : \E o \in EnsureStarted(d, t) :
               o.result # "ok" /\ dev' = o.dev
    /\ Goto(Worker(t), "mark")
    /\ UNCHANGED <<steady, handle, flagVars, setupVars, streamVars>>

\* The stop before the configuration fails: the worker gives up.
SetupStopFails(t) ==
    /\ pc[Worker(t)] = "setup"
    /\ InOneStep
    /\ handle # NoHandle
    /\ \E s \in StreamStop(dev, handle) : ~Harmless(s.result) /\ dev' = s.dev
    /\ Goto(Worker(t), "stop_exit")
    /\ UNCHANGED <<steady, handle, flagVars, setupVars, streamVars>>

\* A register write fails: the stream is stopped again and the worker gives up.
SetupConfigFails(t) ==
    /\ pc[Worker(t)] = "setup"
    /\ InOneStep
    /\ handle # NoHandle
    /\ \E s \in StreamStop(dev, handle) :
          /\ Harmless(s.result)
          /\ \E c \in WriteAnalogConfig(s.dev, t) :
                /\ c.result # "ok"
                /\ \E e \in StreamStop(c.dev, handle) : dev' = e.dev
    /\ Goto(Worker(t), "config_exit")
    /\ UNCHANGED <<steady, handle, flagVars, setupVars, streamVars>>

SetupStarts(t) ==
    /\ pc[Worker(t)] = "setup"
    /\ InOneStep
    /\ handle # NoHandle
    /\ \E d \in Configured(t) : \E o \in EnsureStarted(d, t) :
          o.result = "ok" /\ dev' = o.dev
    /\ started' = [started EXCEPT ![t] = TRUE]
    /\ Goto(Worker(t), "read")
    /\ UNCHANGED <<steady, handle, flagVars, setupVars, owner, saved, data>>

--------------------------------------------------------------------------------
(* Read and publish.                                                          *)

ReadDemo(t) ==
    /\ pc[Worker(t)] = "read"
    /\ demo
    /\ data' = [data EXCEPT ![t] = t]
    /\ Goto(Worker(t), "publish")
    /\ UNCHANGED <<owner, started>>
    /\ Quiet

ReadSucceeds(t) ==
    /\ pc[Worker(t)] = "read"
    /\ ~demo
    /\ InOneStep
    /\ handle # NoHandle
    /\ \E o \in StreamRead(dev, handle) : o.result = "ok" /\ dev' = o.dev
    /\ data' = [data EXCEPT ![t] = dev.session[handle]]
    /\ Goto(Worker(t), "publish")
    /\ UNCHANGED <<steady, handle, flagVars, setupVars, owner, saved, started>>

\* Faulty: stream_started survives the error.
ReadFailsStillStarted(t) ==
    /\ pc[Worker(t)] = "read"
    /\ ~demo
    /\ InOneStep
    /\ IF handle = NoHandle
       THEN UNCHANGED dev
       ELSE \E o \in StreamRead(dev, handle) : o.result # "ok" /\ dev' = o.dev
    /\ Goto(Worker(t), "mark")
    /\ UNCHANGED <<steady, handle, flagVars, setupVars, streamVars>>

ReadFails(t) ==
    /\ pc[Worker(t)] = "read"
    /\ ~demo
    /\ InOneStep
    /\ IF handle = NoHandle
       THEN UNCHANGED dev
       ELSE \E o \in StreamRead(dev, handle) : o.result # "ok" /\ dev' = o.dev
    /\ started' = [started EXCEPT ![t] = FALSE]
    /\ Goto(Worker(t), "mark")
    /\ UNCHANGED <<steady, handle, flagVars, setupVars, owner, saved, data>>

Publish(t) ==
    /\ pc[Worker(t)] = "publish"
    /\ data' = [data EXCEPT ![t] = NoTask]
    /\ Goto(Worker(t), "loop")
    /\ UNCHANGED <<owner, started>>
    /\ Quiet

\* Faulty: the hardware stream is left to the next task.
ExitWithoutStop(t) ==
    /\ pc[Worker(t)] = "exit"
    /\ started' = [started EXCEPT ![t] = FALSE]
    /\ Goto(Worker(t), "release")
    /\ UNCHANGED <<deviceVars, lockVars, flagVars, setupVars, owner, saved, data>>

\* Faulty: the stream is only stopped while connected_ says so.
ExitIfConnected(t) ==
    /\ pc[Worker(t)] = "exit"
    /\ IF started[t] /\ ~demo /\ connected
       THEN StopHandle
       ELSE UNCHANGED <<dev, mutex>>
    /\ started' = [started EXCEPT ![t] = FALSE]
    /\ Goto(Worker(t), "release")
    /\ UNCHANGED <<steady, handle, flagVars, setupVars, owner, saved, data>>

\* After the loop: the worker stops the stream it started, then releases.
Exit(t) ==
    /\ pc[Worker(t)] = "exit"
    /\ IF started[t] /\ ~demo
       THEN StopHandle
       ELSE UNCHANGED <<dev, mutex>>
    /\ started' = [started EXCEPT ![t] = FALSE]
    /\ Goto(Worker(t), "release")
    /\ UNCHANGED <<steady, handle, flagVars, setupVars, owner, saved, data>>

Setup(t) ==
    \/ SetupFails(t)
    \/ SetupStopFails(t)
    \/ SetupConfigFails(t)
    \/ SetupStarts(t)

Streaming(t) ==
    \/ ReadDemo(t)
    \/ ReadSucceeds(t)
    \/ ReadFails(t)
    \/ Publish(t)
    \/ Exit(t)

\* The procedures of the controller a worker runs with the other threads.
WorkerConnection(t) ==
    /\ \/ Connect(Worker(t))
       \/ MarkDisconnected(Worker(t))
    /\ UNCHANGED streamVars

WorkerStep(t, stopRequested) ==
    \/ Acquire(t)
    \/ Parse(t)
    \/ LoopHead(t, stopRequested)
    \/ IsConnected(t)
    \/ Setup(t)
    \/ Streaming(t)
    \/ WorkerConnection(t)
    \/ StopStreamTaskKey(Worker(t), t, "returned")
    \/ Release(Worker(t), "config_exit", t, "returned")
    \/ Release(Worker(t), "stop_exit", t, "returned")
================================================================================
