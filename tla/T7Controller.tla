----------------------------- MODULE T7Controller ------------------------------
(***************************************************************************)
(* The connection half of LabJackT7Controller: the handle, the mutex that  *)
(* guards it, the connected_ and demo_mode_ atomics, the device_connected  *)
(* channel, the once-a-second connection loop, and the procedures connect, *)
(* disconnect, verifyConnection and markDisconnectedFromStreamError, which *)
(* several threads run.                                                    *)
(*                                                                         *)
(* A step of a thread ends where another thread can look: at a lock, at an *)
(* unlocked read or write of shared state, at a store other threads read   *)
(* without the lock.  A thread that keeps handle_mutex_ over several steps *)
(* is recorded in mutex; a locked section that is one step finds it free   *)
(* and leaves it free.                                                     *)
(***************************************************************************)
EXTENDS LjmDevice

CONSTANTS
    NoThread,     \* handle_mutex_ is free
    DemoConfigs   \* the configurations to look at: TRUE with a demo token

ASSUME DemoAssumption == DemoConfigs \subseteq BOOLEAN

\* The connection loop, the thread that destroys the module, the worker and
\* the on_end callback of each stream task.
Conn == <<"loop", NoTask>>
Dtor == <<"destructor", NoTask>>
Worker(t) == <<"worker", t>>
Ender(t) == <<"on_end", t>>

Workers == {Worker(t) : t \in Tasks}
Enders == {Ender(t) : t \in Tasks}
Threads == {Conn, Dtor} \union Workers \union Enders

ASSUME ThreadAssumption == NoThread \notin Threads

VARIABLES
    pc,         \* where each thread is
    mutex,      \* who holds handle_mutex_ between two steps
    handle,     \* handle_
    connected,  \* connected_
    demo,       \* demo_mode_
    demoConfig, \* a demo token is in device_type, connection_type or identifier
    devConn,    \* the device_connected channel, TRUE for 1.0
    libReady,   \* ljm_library_ready_
    loopEnd     \* the host was asked to end the connection loop

lockVars == <<mutex, handle>>
flagVars == <<connected, devConn>>
setupVars == <<demo, demoConfig, libReady, loopEnd>>
connVars == <<pc, lockVars, flagVars, setupVars>>

\* Labels both halves of the controller share.
ConnectLabels ==
    {"connect", "open", "set_true", "pub_true", "mark", "set_false", "pub_false"}
StopLabels == {"stop_stream", "stop_lock", "release"}
LoopLabels ==
    ConnectLabels \union StopLabels \union
    {"start", "top", "verify", "probe", "probe_ok", "probe_ok_pub", "probe_bad",
     "probe_bad_pub", "probe_close", "disconnect", "clear", "clear_pub", "ended"}

Goto(thr, label) == pc' = [pc EXCEPT ![thr] = label]

\* connect and markDisconnectedFromStreamError return to the next pass of the
\* connection loop or of the worker's while.
Resume(thr) == IF thr = Conn THEN "top" ELSE "loop"

Locked(thr) == mutex = NoThread /\ mutex' = thr
InOneStep == mutex = NoThread /\ UNCHANGED mutex

ConnInit ==
    /\ mutex = NoThread
    /\ handle = NoHandle
    /\ connected = FALSE
    /\ demo = FALSE
    /\ demoConfig \in DemoConfigs
    /\ devConn \in BOOLEAN
    /\ libReady \in BOOLEAN
    /\ loopEnd = FALSE

--------------------------------------------------------------------------------
(* connectionLoopStart and one pass of connectionLoop.                        *)

LoopStart ==
    /\ pc[Conn] = "start"
    /\ devConn' = FALSE
    /\ Goto(Conn, "top")
    /\ UNCHANGED <<deviceVars, lockVars, connected, setupVars>>

LoopNotReady ==
    /\ pc[Conn] = "top" /\ ~loopEnd
    /\ ~libReady
    /\ connected' = FALSE
    /\ devConn' = FALSE
    /\ UNCHANGED <<deviceVars, pc, lockVars, setupVars>>

\* Faulty: a pass without a handle leaves the reconnection to the workers.
LoopTopOnlyVerifies ==
    /\ pc[Conn] = "top" /\ ~loopEnd
    /\ libReady
    /\ Goto(Conn, IF handle = NoHandle THEN "top" ELSE "verify")
    /\ UNCHANGED <<deviceVars, lockVars, flagVars, setupVars>>

\* handle_ is read without the lock: while another thread is inside LJM_OpenS,
\* which writes it, the loop may see either value.
LoopTop ==
    /\ pc[Conn] = "top" /\ ~loopEnd
    /\ libReady
    /\ \E isOpen \in IF \E w \in Workers : pc[w] = "open"
                     THEN BOOLEAN ELSE {handle # NoHandle} :
          Goto(Conn, IF isOpen THEN "verify" ELSE "connect")
    /\ UNCHANGED <<deviceVars, lockVars, flagVars, setupVars>>

--------------------------------------------------------------------------------
(* connect, run by the connection loop and by a worker.                       *)

ConnectAlready(thr) ==
    /\ pc[thr] = "connect"
    /\ Locked(thr)
    /\ handle # NoHandle
    /\ Goto(thr, "set_true")
    /\ UNCHANGED <<deviceVars, handle, flagVars, setupVars>>

\* Faulty: connect opens without looking whether another thread just did.
ConnectBlindly(thr) ==
    /\ pc[thr] = "connect"
    /\ Locked(thr)
    /\ demo' = demoConfig
    /\ Goto(thr, "open")
    /\ UNCHANGED <<deviceVars, handle, flagVars, demoConfig, libReady, loopEnd>>

ConnectBegin(thr) ==
    /\ pc[thr] = "connect"
    /\ Locked(thr)
    /\ handle = NoHandle
    /\ demo' = demoConfig
    /\ Goto(thr, "open")
    /\ UNCHANGED <<deviceVars, handle, flagVars, demoConfig, libReady, loopEnd>>

OpenHandle(thr) ==
    /\ pc[thr] = "open"
    /\ \E o \in Open(dev) :
          /\ dev' = o.dev
          /\ handle' = o.handle
          /\ Goto(thr, IF o.result = "ok" THEN "set_true" ELSE "set_false")
    /\ UNCHANGED <<steady, mutex, flagVars, setupVars>>

\* The last two stores of a locked section: connected_, then device_connected
\* and the unlock.
SetConnected(thr, label, value) ==
    /\ pc[thr] = label
    /\ connected' = value
    /\ Goto(thr, IF value THEN "pub_true" ELSE "pub_false")
    /\ UNCHANGED <<deviceVars, lockVars, devConn, setupVars>>

\* Faulty: the section ends without the unlock.
PublishStillLocked(thr, label, value) ==
    /\ pc[thr] = label
    /\ devConn' = value
    /\ Goto(thr, Resume(thr))
    /\ UNCHANGED <<deviceVars, lockVars, connected, setupVars>>

PublishConnected(thr, label, value) ==
    /\ pc[thr] = label
    /\ devConn' = value
    /\ mutex' = NoThread
    /\ Goto(thr, Resume(thr))
    /\ UNCHANGED <<deviceVars, handle, connected, setupVars>>

Connect(thr) ==
    \/ ConnectAlready(thr)
    \/ ConnectBegin(thr)
    \/ OpenHandle(thr)
    \/ SetConnected(thr, "set_true", TRUE)
    \/ SetConnected(thr, "set_false", FALSE)
    \/ PublishConnected(thr, "pub_true", TRUE)
    \/ PublishConnected(thr, "pub_false", FALSE)

--------------------------------------------------------------------------------
\* Close handle_, if there is one, under the lock.
CloseHandle ==
    IF handle = NoHandle
    THEN UNCHANGED <<dev, handle>>
    ELSE dev' \in Close(dev, handle) /\ handle' = NoHandle

(* markDisconnectedFromStreamError, run by a worker.                          *)
MarkDisconnected(thr) ==
    /\ pc[thr] = "mark"
    /\ Locked(thr)
    /\ CloseHandle
    /\ Goto(thr, "set_false")
    /\ UNCHANGED <<steady, flagVars, setupVars>>

(* disconnect, the last step of connectionLoopEnd.                            *)
Disconnect ==
    /\ pc[Conn] = "disconnect"
    /\ Locked(Conn)
    /\ CloseHandle
    /\ Goto(Conn, "clear")
    /\ UNCHANGED <<steady, flagVars, setupVars>>

\* Faulty: disconnect publishes 0 and leaves connected_ as it was.
DisconnectKeepsFlag ==
    /\ pc[Conn] = "clear"
    /\ Goto(Conn, "clear_pub")
    /\ UNCHANGED <<deviceVars, lockVars, flagVars, setupVars>>

DisconnectFlag ==
    /\ pc[Conn] = "clear"
    /\ connected' = FALSE
    /\ Goto(Conn, "clear_pub")
    /\ UNCHANGED <<deviceVars, lockVars, devConn, setupVars>>

DisconnectPublish ==
    /\ pc[Conn] = "clear_pub"
    /\ devConn' = FALSE
    /\ mutex' = NoThread
    /\ Goto(Conn, "ended")
    /\ UNCHANGED <<deviceVars, handle, connected, setupVars>>

--------------------------------------------------------------------------------
(* verifyConnection, run by the connection loop: the probe is made under the  *)
(* lock, what follows from it is done after the unlock.                       *)

VerifyDemo ==
    /\ pc[Conn] = "verify"
    /\ Goto(Conn, IF demo THEN "probe_ok" ELSE "probe")
    /\ UNCHANGED <<deviceVars, lockVars, flagVars, setupVars>>

ProbeNoHandle ==
    /\ pc[Conn] = "probe"
    /\ Locked(Conn)
    /\ handle = NoHandle
    /\ Goto(Conn, "set_false")
    /\ UNCHANGED <<deviceVars, handle, flagVars, setupVars>>

Probe ==
    /\ pc[Conn] = "probe"
    /\ InOneStep
    /\ handle # NoHandle
    /\ \E o \in ReadSerialNumber(dev) :
          Goto(Conn, IF o.result = "ok" THEN "probe_ok" ELSE "probe_bad")
    /\ UNCHANGED <<deviceVars, handle, flagVars, setupVars>>

\* connected_ = value and the upsert, both without the lock.
ProbeFlag(label, next, value) ==
    /\ pc[Conn] = label
    /\ connected' = value
    /\ Goto(Conn, next)
    /\ UNCHANGED <<deviceVars, lockVars, devConn, setupVars>>

ProbePublish(label, next, value) ==
    /\ pc[Conn] = label
    /\ devConn' = value
    /\ Goto(Conn, next)
    /\ UNCHANGED <<deviceVars, lockVars, connected, setupVars>>

ProbeClose ==
    /\ pc[Conn] = "probe_close"
    /\ InOneStep
    /\ CloseHandle
    /\ Goto(Conn, "top")
    /\ UNCHANGED <<steady, flagVars, setupVars>>

VerifyConnection ==
    \/ VerifyDemo
    \/ ProbeNoHandle
    \/ Probe
    \/ ProbeFlag("probe_ok", "probe_ok_pub", TRUE)
    \/ ProbePublish("probe_ok_pub", "top", TRUE)
    \/ ProbeFlag("probe_bad", "probe_bad_pub", FALSE)
    \/ ProbePublish("probe_bad_pub", "probe_close", FALSE)
    \/ ProbeClose

\* One step of the connection loop while it runs, and of disconnect at its end.
ConnectionStep ==
    \/ LoopStart
    \/ LoopNotReady
    \/ LoopTop
    \/ Connect(Conn)
    \/ VerifyConnection
    \/ Disconnect
    \/ DisconnectFlag
    \/ DisconnectPublish
================================================================================
