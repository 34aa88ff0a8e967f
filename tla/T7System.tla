------------------------------- MODULE T7System --------------------------------
(***************************************************************************)
(* One LabJack T7 module instance inside its host: the connection loop,    *)
(* the stream tasks the host starts, stops and ends (labjack_t7_plugin.cpp)*)
(* and the removal and destruction of the module (labjack_t7_module.cpp).  *)
(*                                                                         *)
(* The host is external.  It starts tasks, requests their stop, and calls  *)
(* on_end of a task after on_task returned; HostMoves names what it may do *)
(* besides:                                                                *)
(*   "remove"    remove the module, whose destructor ends the loop;        *)
(*   "on_end"    call on_end while on_task still runs, once a stop of the  *)
(*               task was requested;                                       *)
(*   "loop_end"  end the connection loop while the module stays.           *)
(***************************************************************************)
EXTENDS T7Stream

CONSTANT HostMoves

ASSUME HostAssumption == HostMoves \subseteq {"remove", "on_end", "loop_end"}

VARIABLES
    stop,       \* isStopRequested() of each task
    module      \* the module instance: can be looked up, dropped, destroyed

hostVars == <<stop, module>>
vars == <<deviceVars, connVars, streamVars, hostVars>>

EnderLabels == {"idle", "check", "done"} \union StopLabels
DtorLabels == {"idle", "stop_read", "remove_loop", "joining", "returned"} \union StopLabels
Labels == LoopLabels \union DtorLabels \union WorkerLabels \union EnderLabels

TypeOK ==
    /\ LjmTypeOK
    /\ pc \in [Threads -> Labels]
    /\ mutex \in Threads \union {NoThread}
    /\ handle \in HandleOrNone
    /\ connected \in BOOLEAN /\ devConn \in BOOLEAN
    /\ demo \in BOOLEAN /\ demoConfig \in BOOLEAN /\ libReady \in BOOLEAN /\ loopEnd \in BOOLEAN
    /\ owner \in TaskOrNone
    /\ saved \in [Closers -> TaskOrNone]
    /\ started \in [Tasks -> BOOLEAN]
    /\ data \in [Tasks -> TaskOrNone]
    /\ stop \in [Tasks -> BOOLEAN]
    /\ module \in {"alive", "removed", "destroying", "gone"}

Init ==
    /\ LjmInit
    /\ ConnInit
    /\ StreamInit
    /\ pc = [thr \in Threads |-> IF thr = Conn THEN "start" ELSE "idle"]
    /\ stop = [t \in Tasks |-> FALSE]
    /\ module = "alive"

\* A call into the module that still holds a reference to it.
InsideModule(t) ==
    \/ pc[Worker(t)] \notin {"idle", "returned"}
    \/ pc[Ender(t)] \notin {"idle", "done"}

\* What no step of the host changes.
HostOnly == UNCHANGED <<deviceVars, lockVars, flagVars, demo, demoConfig, libReady, streamVars>>

--------------------------------------------------------------------------------
(* Tasks.                                                                     *)

\* on_task looks the module up and keeps it alive while it runs; without it the
\* task has nothing to do.
StartTask(t) ==
    /\ pc[Worker(t)] = "idle"
    /\ Goto(Worker(t), IF module = "alive" THEN "begin" ELSE "returned")
    /\ UNCHANGED <<loopEnd, hostVars>>
    /\ HostOnly

RequestStop(t) ==
    /\ pc[Worker(t)] # "idle"
    /\ ~stop[t]
    /\ stop' = [stop EXCEPT ![t] = TRUE]
    /\ UNCHANGED <<pc, loopEnd, module>>
    /\ HostOnly

OnEnd(t) ==
    /\ pc[Ender(t)] = "idle"
    /\ \/ pc[Worker(t)] = "returned"
       \/ "on_end" \in HostMoves /\ pc[Worker(t)] # "idle" /\ stop[t]
    /\ Goto(Ender(t), IF module = "alive" THEN "check" ELSE "done")
    /\ UNCHANGED <<loopEnd, hostVars>>
    /\ HostOnly

TaskOver(t) ==
    /\ pc[Worker(t)] = "returned"
    /\ pc[Ender(t)] = "done"
    /\ pc' = [pc EXCEPT ![Worker(t)] = "idle", ![Ender(t)] = "idle"]
    /\ stop' = [stop EXCEPT ![t] = FALSE]
    /\ UNCHANGED <<loopEnd, module>>
    /\ HostOnly

--------------------------------------------------------------------------------
(* The module.  The host drops its reference; the last one to let go runs the *)
(* destructor: stopStream(), then removeLoop, which returns when the loop has *)
(* ended.                                                                     *)

RemoveModule ==
    /\ "remove" \in HostMoves
    /\ module = "alive"
    /\ module' = "removed"
    /\ UNCHANGED <<pc, loopEnd, stop>>
    /\ HostOnly

\* Faulty: on_task holds a plain pointer, which does not keep the module alive.
DestroyAtOnce ==
    /\ module = "removed"
    /\ module' = "destroying"
    /\ Goto(Dtor, "stop_read")
    /\ UNCHANGED <<loopEnd, stop>>
    /\ HostOnly

Destroy ==
    /\ module = "removed"
    /\ \A t \in Tasks : ~InsideModule(t)
    /\ module' = "destroying"
    /\ Goto(Dtor, "stop_read")
    /\ UNCHANGED <<loopEnd, stop>>
    /\ HostOnly

DtorBegin ==
    /\ pc[Dtor] = "stop_read"
    /\ ReadKey(Dtor, "remove_loop")

DtorStop == StopStreamTaskKey(Dtor, saved[Dtor], "remove_loop")

RemoveLoop ==
    /\ pc[Dtor] = "remove_loop"
    /\ loopEnd' = TRUE
    /\ Goto(Dtor, "joining")
    /\ UNCHANGED hostVars
    /\ HostOnly

Destroyed ==
    /\ pc[Dtor] = "joining"
    /\ pc[Conn] = "ended"
    /\ module' = "gone"
    /\ Goto(Dtor, "returned")
    /\ UNCHANGED <<loopEnd, stop>>
    /\ HostOnly

EndLoopEarly ==
    /\ "loop_end" \in HostMoves
    /\ ~loopEnd
    /\ loopEnd' = TRUE
    /\ UNCHANGED <<pc, hostVars>>
    /\ HostOnly

--------------------------------------------------------------------------------
LoopSteps ==
    \/ ConnectionStep /\ UNCHANGED <<streamVars, hostVars>>
    \/ (LoopEndBegin \/ LoopEndStop) /\ UNCHANGED hostVars

DtorSteps ==
    \/ (DtorBegin \/ DtorStop) /\ UNCHANGED hostVars
    \/ RemoveLoop
    \/ Destroyed

WorkerSteps(t) == WorkerStep(t, stop[t]) /\ UNCHANGED hostVars
EnderSteps(t) == EnderStep(t) /\ UNCHANGED hostVars

TaskSteps(t) ==
    \/ StartTask(t)
    \/ RequestStop(t)
    \/ OnEnd(t)
    \/ TaskOver(t)
    \/ WorkerSteps(t)
    \/ EnderSteps(t)

Next ==
    \/ Steady /\ UNCHANGED <<connVars, streamVars, hostVars>>
    \/ LoopSteps
    \/ DtorSteps
    \/ RemoveModule
    \/ Destroy
    \/ EndLoopEarly
    \/ \E t \in Tasks : TaskSteps(t)

Spec == Init /\ [][Next]_vars
================================================================================
