----------------------------- MODULE T7Properties ------------------------------
(***************************************************************************)
(* What must be true of the T7 module whatever the order of its threads,   *)
(* the failures of the device and the calls of the host.                   *)
(***************************************************************************)
EXTENDS T7System

\* A worker between tryAcquireStream and releaseStream.
Holding(t) == pc[Worker(t)] \notin {"idle", "begin", "returned"}

(***************************************************************************)
(* Safety.                                                                 *)
(***************************************************************************)

\* Where a thread is inside a section of handle_mutex_ that takes several steps.
LockedLabels ==
    {"open", "set_true", "pub_true", "set_false", "pub_false", "clear", "clear_pub"}

\* handle_mutex_ is held exactly by the thread inside such a section: no path
\* through connect, the closers or disconnect lets two threads in, goes on without
\* the lock, or leaves it locked behind.
LockDiscipline ==
    \A thr \in Threads : pc[thr] \in LockedLabels <=> mutex = thr

\* Every handle LJM has open is the one in handle_: connect, the two closers of
\* a failed handle and disconnect, on three threads, neither lose nor double one.
NoHandleLeak == dev.opened = {handle} \ {NoHandle}

\* A worker past tryAcquireStream is the owner until it releases: no other worker,
\* no on_end, no destructor takes the stream away from it or runs beside it.
StreamExclusive == \A t \in Tasks : Holding(t) => owner = t

\* The samples a worker publishes to its task's channels are from the stream it
\* configured, although any thread may close and reopen the handle between its
\* setup and its reads.
ReadsOwnStream ==
    \A t \in Tasks : pc[Worker(t)] = "publish" => data[t] = t

\* A stream never runs with the RANGE and NEGATIVE_CH settings of another task or
\* with settings that were only partly written.
ConfigMatchesStream ==
    \A t \in Tasks :
        handle # NoHandle /\ dev.session[handle] = t => dev.analog = t

\* As long as on_end can find the module, the key of a task that is over is not
\* left set: whichever way the worker returned, the task can be started again.
OwnerAccounted ==
    \A t \in Tasks :
        module = "alive" /\ owner = t => pc[Worker(t)] \notin {"idle", "begin"}

\* No hardware stream runs for a task that does not own it, unless its stop
\* failed and was reported.  Demo mode is not asked: it has no hardware, and its
\* streams are never stopped.
NoOrphanStream ==
    ~demoConfig => \A t \in Tasks :
        handle # NoHandle /\ dev.session[handle] = t /\ ~dev.stuck => owner = t

\* Once the destructor returned nothing is left behind: no open handle, no lock
\* held, no owner, and the host sees the device as disconnected.
SafeTeardown ==
    module = "gone" =>
        /\ dev.opened = {}
        /\ mutex = NoThread
        /\ owner = NoTask
        /\ ~connected /\ ~devConn

\* What the threads do to the ownership and to the device is what StreamLease
\* allows.  A stream whose stop failed counts as given up, and so does the one
\* of the demo device.
Lease ==
    INSTANCE StreamLease WITH
        holder <- owner,
        streamer <- IF handle = NoHandle \/ dev.stuck \/ demoConfig
                    THEN NoTask ELSE dev.session[handle]

ImplementsLease == Lease!Spec

(***************************************************************************)
(* Liveness.  Every thread keeps running: the worker and the loop sleep    *)
(* outside the lock after an error, so a thread that waits for it gets it  *)
(* (strong fairness); the host calls on_end once on_task returned and      *)
(* destroys a module nobody refers to.  It need not stop a task or remove  *)
(* the module.                                                             *)
(***************************************************************************)
Fairness ==
    /\ SF_vars(LoopSteps)
    /\ SF_vars(DtorSteps)
    /\ WF_vars(Destroy)
    /\ \A t \in Tasks :
          /\ SF_vars(WorkerSteps(t))
          /\ SF_vars(EnderSteps(t))
          /\ WF_vars(OnEnd(t))
          /\ WF_vars(TaskOver(t))

FairSpec == Spec /\ Fairness

\* A stop request is seen from wherever the worker is, device reachable or not.
StopTerminates ==
    \A t \in Tasks : stop[t] ~> (pc[Worker(t)] = "returned" \/ ~stop[t])

\* The key of a task that was stopped is given up, also when the worker threw it
\* away or the module was removed in between.
OwnershipReturned ==
    \A t \in Tasks : (owner = t /\ stop[t]) ~> (owner # t)

\* A removed module whose tasks were stopped is destroyed: the destructor, the
\* loop's end and the last calls do not wait for each other forever.
TeardownCompletes ==
    (module = "removed" /\ \A t \in Tasks : InsideModule(t) => stop[t])
        ~> (module = "gone")

\* The loop sleeps a second before each pass; what a worker does between its failed
\* call and the close that follows is an error report.  From some point on no pass
\* begins in between.
SleepsOutlastReports ==
    <>[][pc[Conn] = "top" /\ pc'[Conn] # "top" =>
            \A t \in Tasks : pc[Worker(t)] # "mark"]_vars

\* README.md:168-177: once the device stays reachable, a worker that is not told
\* to stop gets to publish samples again, from wherever it is in its loop.
StreamResumes ==
    SleepsOutlastReports => \A t \in Tasks :
        (steady /\ pc[Worker(t)] \in {"loop", "isconn", "connect", "setup", "mark", "read"})
            ~> (pc[Worker(t)] \in {"publish", "returned"} \/ stop[t])

\* README.md:47: with a reachable device the loop ends up connected, for good, and
\* all three records of it agree, whatever stale answers were under way.
ConnectionConverges ==
    (SleepsOutlastReports /\ <>steady /\ []libReady /\ []~loopEnd)
        => <>[](handle # NoHandle /\ connected /\ devConn)
================================================================================
