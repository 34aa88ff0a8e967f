------------------------------- MODULE T7Proofs --------------------------------
(***************************************************************************)
(* Theorems about T7System, proved for every set of tasks and handles: the *)
(* types, the lock and the handle, the ownership of the stream; then which *)
(* task's stream the device runs, whose settings it has and whose samples  *)
(* a worker publishes, that no stream outlives the ownership of its task,  *)
(* and what the destruction of the module leaves behind.                   *)
(***************************************************************************)
EXTENDS T7Properties, TLAPS

(***************************************************************************)
(* The threads are pairwise different.                                     *)
(***************************************************************************)
LEMMA ThreadsDistinct ==
    /\ Conn \in Threads /\ Dtor \in Threads /\ Conn # Dtor
    /\ \A t \in Tasks :
          /\ Worker(t) \in Threads /\ Ender(t) \in Threads
          /\ Worker(t) # Conn /\ Worker(t) # Dtor
          /\ Ender(t) # Conn /\ Ender(t) # Dtor
    /\ \A t, u \in Tasks :
          /\ Worker(t) # Ender(u)
          /\ Worker(t) = Worker(u) => t = u
          /\ Ender(t) = Ender(u) => t = u
  BY DEF Threads, Workers, Enders, Conn, Dtor, Worker, Ender

(***************************************************************************)
(* What each LJM call returns and does to the device, field by field.      *)
(***************************************************************************)
LEMMA OutcomeFields ==
    ASSUME NEW r, NEW d
    PROVE  Outcome(r, d).result = r /\ Outcome(r, d).dev = d
  BY DEF Outcome

\* The sessions f with that of handle h set to t.
With(f, h, t) == [f EXCEPT ![h] = t]

LEMMA EndedFields ==
    ASSUME NEW d \in Device, NEW h \in Handles
    PROVE  /\ Ended(d, h) \in Device
           /\ Ended(d, h).opened = d.opened
           /\ Ended(d, h).session = With(d.session, h, NoTask)
           /\ Ended(d, h).foreign = d.foreign
           /\ Ended(d, h).analog = d.analog
           /\ ~Ended(d, h).stuck
  BY DEF Ended, Device, TaskOrNone, With

\* A stop that is harmless ends the stream of the handle and nothing else of it;
\* one that is not leaves the stream and marks it.
LEMMA StreamStopFields ==
    ASSUME NEW d \in Device, NEW h \in Handles, NEW o \in StreamStop(d, h)
    PROVE  /\ o.dev \in Device
           /\ o.dev.opened = d.opened /\ o.dev.analog = d.analog
           /\ Harmless(o.result) =>
                 /\ o.dev.session = With(d.session, h, NoTask)
                 /\ ~o.dev.stuck
           /\ ~Harmless(o.result) =>
                 /\ o.dev.session = d.session
                 /\ d.session[h] # NoTask => o.dev.stuck
<1>1. CASE o = Outcome("ok", [Ended(d, h) EXCEPT !.foreign = FALSE])
  <2> DEFINE e == [Ended(d, h) EXCEPT !.foreign = FALSE]
  <2>1. /\ e \in Device
        /\ e.opened = d.opened /\ e.analog = d.analog /\ ~e.stuck
        /\ e.session = With(d.session, h, NoTask)
    BY EndedFields DEF Device
  <2>2. o.dev = e /\ o.result = "ok"
    BY <1>1, OutcomeFields
  <2> QED
    BY <2>1, <2>2 DEF Harmless
<1>2. CASE o = Outcome("not_running", Ended(d, h))
  <2>1. o.dev = Ended(d, h) /\ o.result = "not_running"
    BY <1>2, OutcomeFields
  <2> QED
    BY <2>1, EndedFields DEF Harmless
<1>3. CASE o = Outcome("error", [d EXCEPT !.stuck = (d.session[h] # NoTask)])
  <2> DEFINE left == d.session[h] # NoTask
             e == [d EXCEPT !.stuck = left]
  <2>1. left \in BOOLEAN
    OBVIOUS
  <2> HIDE DEF left
  <2>2. /\ e \in Device
        /\ e.opened = d.opened /\ e.analog = d.analog /\ e.session = d.session
        /\ e.stuck = left
    BY <2>1 DEF Device
  <2>3. o.dev = e /\ o.result = "error"
    BY <1>3, OutcomeFields DEF left
  <2>4. d.session[h] # NoTask => left
    BY DEF left
  <2> QED
    BY <2>2, <2>3, <2>4 DEF Harmless
<1> QED
  BY <1>1, <1>2, <1>3, Zenon DEF StreamStop, MayFail

LEMMA WriteAnalogConfigFields ==
    ASSUME NEW d \in Device, NEW t \in Tasks, NEW o \in WriteAnalogConfig(d, t)
    PROVE  /\ o.dev \in Device
           /\ o.dev.opened = d.opened /\ o.dev.session = d.session
           /\ o.dev.stuck = d.stuck
           /\ o.result = "ok" => o.dev.analog = t
<1>1. \/ o = Outcome("ok", [d EXCEPT !.analog = t])
      \/ o = Outcome("error", [d EXCEPT !.analog = NoTask])
  BY DEF WriteAnalogConfig, MayFail
<1> QED
  BY <1>1, OutcomeFields DEF Device, TaskOrNone

\* A start succeeds only where no stream runs, and otherwise changes nothing.
LEMMA StreamStartFields ==
    ASSUME NEW d \in Device, NEW h \in Handles, NEW t \in Tasks,
           NEW o \in StreamStart(d, h, t)
    PROVE  /\ o.dev \in Device
           /\ o.dev.opened = d.opened /\ o.dev.analog = d.analog
           /\ o.result = "ok" =>
                 /\ o.dev.session = With(d.session, h, t)
                 /\ ~o.dev.stuck
           /\ o.result # "ok" => o.dev = d
<1> DEFINE e == [d EXCEPT !.session[h] = t, !.stuck = FALSE]
<1>1. /\ e \in Device
      /\ e.opened = d.opened /\ e.analog = d.analog /\ ~e.stuck
      /\ e.session = With(d.session, h, t)
  BY DEF Device, TaskOrNone, With
<1>2. o = Outcome("ok", e) \/ o = Outcome("active", d) \/ o = Outcome("error", d)
  BY DEF StreamStart, MayFail
<1>3. \/ o.result = "ok" /\ o.dev = e
      \/ o.result # "ok" /\ o.dev = d
  <2> HIDE DEF e
  <2> QED
    BY <1>2, OutcomeFields
<1> QED
  BY <1>1, <1>3

LEMMA StreamReadFields ==
    ASSUME NEW d \in Device, NEW h \in Handles, NEW o \in StreamRead(d, h)
    PROVE  /\ o.dev = d
           /\ o.result = "ok" => d.session[h] # NoTask
<1>1. CASE d.session[h] = NoTask
  BY <1>1, OutcomeFields DEF StreamRead
<1>2. CASE d.session[h] # NoTask
  BY <1>2, OutcomeFields DEF StreamRead, MayFail
<1> QED
  BY <1>1, <1>2

\* A failed open leaves the device alone; a good one returns a new handle.
LEMMA OpenFields ==
    ASSUME NEW d \in Device, NEW o \in Open(d)
    PROVE  \/ o.result = "error" /\ o.handle = NoHandle /\ o.dev = d
           \/ /\ o.result = "ok"
              /\ o.handle \in Handles \ d.opened
              /\ o.dev \in Device
              /\ o.dev.opened = d.opened \union {o.handle}
              /\ o.dev.session = d.session /\ o.dev.stuck = d.stuck
<1>1. CASE o = [result |-> "error", handle |-> NoHandle, dev |-> d]
  BY <1>1
<1>2. CASE \E h \in Handles \ d.opened, a \in {d.analog, NoTask} : o = Opened(d, h, a)
  <2>1. PICK h \in Handles \ d.opened, a \in {d.analog, NoTask} : o = Opened(d, h, a)
    BY <1>2
  <2>2. /\ o.result = "ok" /\ o.handle = h
        /\ o.dev = [d EXCEPT !.opened = @ \union {h}, !.analog = a]
    BY <2>1 DEF Opened
  <2>3. a \in TaskOrNone
    BY DEF Device, TaskOrNone
  <2>4. d.opened \union {h} \in SUBSET Handles
    BY DEF Device
  <2>5. /\ o.dev \in Device
        /\ o.dev.opened = d.opened \union {h}
        /\ o.dev.session = d.session /\ o.dev.stuck = d.stuck
    BY <2>2, <2>3, <2>4 DEF Device
  <2> QED
    BY <2>2, <2>5
<1> QED
  BY <1>1, <1>2 DEF Open, MayFail

LEMMA CloseFields ==
    ASSUME NEW d \in Device, NEW h \in Handles, NEW e \in Close(d, h)
    PROVE  /\ e \in Device
           /\ e.opened = d.opened \ {h}
           /\ e.session = With(d.session, h, NoTask)
           /\ e.analog = d.analog /\ ~e.stuck
<1>1. PICK f \in {d.foreign, d.foreign \/ d.session[h] # NoTask} :
         e = [Ended(d, h) EXCEPT !.opened = @ \ {h}, !.foreign = f]
  BY DEF Close
<1>2. f \in BOOLEAN
  BY DEF Device
<1>3. d.opened \ {h} \in SUBSET Handles
  BY DEF Device
<1> QED
  BY <1>1, <1>2, <1>3, EndedFields DEF Device

\* A device ready for the start: no stream on the handle, the task's settings.
LEMMA ConfiguredFields ==
    ASSUME LjmTypeOK, handle \in Handles, NEW t \in Tasks, NEW d \in Configured(t)
    PROVE  /\ d \in Device
           /\ d.opened = dev.opened /\ d.analog = t /\ ~d.stuck
           /\ d.session = With(dev.session, handle, NoTask)
<1>1. PICK s \in StreamStop(dev, handle) :
         /\ Harmless(s.result)
         /\ d \in { c.dev : c \in {o \in WriteAnalogConfig(s.dev, t) : o.result = "ok"} }
  BY DEF Configured
<1>2. /\ s.dev \in Device
      /\ s.dev.opened = dev.opened /\ ~s.dev.stuck
      /\ s.dev.session = With(dev.session, handle, NoTask)
  BY <1>1, StreamStopFields DEF LjmTypeOK
<1> QED
  BY <1>1, <1>2, WriteAnalogConfigFields

\* After the retry the handle carries the task's stream, or the old one, or none.
LEMMA EnsureStartedFields ==
    ASSUME handle \in Handles, NEW d \in Device, NEW t \in Tasks,
           NEW o \in EnsureStarted(d, t)
    PROVE  /\ o.dev \in Device
           /\ o.dev.opened = d.opened /\ o.dev.analog = d.analog
           /\ o.result = "ok" =>
                 /\ o.dev.session = With(d.session, handle, t)
                 /\ ~o.dev.stuck
           /\ o.result # "ok" =>
                 \/ o.dev.session = d.session
                 \/ o.dev.session = With(d.session, handle, NoTask)
<1>1. PICK first \in StreamStart(d, handle, t) :
         o \in IF first.result # "active" THEN {first} ELSE
               UNION { IF Harmless(s.result) THEN StreamStart(s.dev, handle, t)
                                             ELSE {s} :
                       s \in StreamStop(first.dev, handle) }
  BY DEF EnsureStarted
<1>2. CASE o = first
  <2>1. CASE first.result = "ok"
    BY <1>2, <2>1, StreamStartFields
  <2>2. CASE first.result # "ok"
    <3>1. first.dev = d
      BY <2>2, StreamStartFields
    <3> QED
      BY <1>2, <2>2, <3>1
  <2> QED
    BY <2>1, <2>2
<1>3. CASE /\ first.result = "active"
           /\ \E s \in StreamStop(first.dev, handle) :
                 o \in IF Harmless(s.result) THEN StreamStart(s.dev, handle, t) ELSE {s}
  <2>1. first.dev = d
    <3>1. first.result # "ok"
      BY <1>3
    <3> QED
      BY <3>1, StreamStartFields
  <2>2. PICK s \in StreamStop(d, handle) :
           o \in IF Harmless(s.result) THEN StreamStart(s.dev, handle, t) ELSE {s}
    BY <1>3, <2>1
  <2>3. CASE Harmless(s.result)
    <3>1. /\ s.dev \in Device
          /\ s.dev.opened = d.opened /\ s.dev.analog = d.analog
          /\ s.dev.session = With(d.session, handle, NoTask)
      BY <2>3, StreamStopFields
    <3>2. With(s.dev.session, handle, t) = With(d.session, handle, t)
      BY <3>1 DEF Device, With
    <3>3. o \in StreamStart(s.dev, handle, t)
      BY <2>2, <2>3
    <3>4. CASE o.result = "ok"
      BY <3>1, <3>2, <3>3, <3>4, StreamStartFields
    <3>5. CASE o.result # "ok"
      <4>1. o.dev = s.dev
        BY <3>1, <3>3, <3>5, StreamStartFields
      <4> QED
        BY <3>1, <3>5, <4>1
    <3> QED
      BY <3>4, <3>5
  <2>4. CASE ~Harmless(s.result)
    <3>1. o = s /\ o.result # "ok"
      BY <2>2, <2>4 DEF Harmless
    <3> QED
      BY <2>4, <3>1, StreamStopFields
  <2> QED
    BY <2>3, <2>4
<1> QED
  BY <1>1, <1>2, <1>3

\* Of all this, what type correctness needs.
LEMMA LjmTypes ==
    ASSUME NEW d \in Device, NEW h \in Handles
    PROVE  /\ \A o \in StreamStop(d, h) : o.dev \in Device
           /\ \A t \in Tasks : \A o \in WriteAnalogConfig(d, t) : o.dev \in Device
           /\ \A o \in StreamRead(d, h) : o.dev = d
           /\ \A e \in Close(d, h) : e \in Device
           /\ h = handle => \A t \in Tasks :
                                \A o \in EnsureStarted(d, t) : o.dev \in Device
<1>1. ASSUME NEW o \in StreamStop(d, h) PROVE o.dev \in Device
  BY StreamStopFields
<1>2. ASSUME NEW t \in Tasks, NEW o \in WriteAnalogConfig(d, t) PROVE o.dev \in Device
  BY WriteAnalogConfigFields
<1>3. ASSUME NEW o \in StreamRead(d, h) PROVE o.dev = d
  BY StreamReadFields
<1>4. ASSUME NEW e \in Close(d, h) PROVE e \in Device
  BY CloseFields
<1>5. ASSUME h = handle, NEW t \in Tasks, NEW o \in EnsureStarted(d, t) PROVE o.dev \in Device
  BY <1>5, EnsureStartedFields
<1> QED
  BY <1>1, <1>2, <1>3, <1>4, <1>5

LEMMA OpenTypes ==
    ASSUME NEW d \in Device, NEW o \in Open(d)
    PROVE  o.dev \in Device /\ o.handle \in HandleOrNone
  BY OpenFields DEF HandleOrNone

LEMMA ConfiguredTypes ==
    ASSUME LjmTypeOK, handle \in Handles, NEW t \in Tasks, NEW d \in Configured(t)
    PROVE  d \in Device
  BY ConfiguredFields

(***************************************************************************)
(* Type correctness.                                                       *)
(***************************************************************************)
LEMMA LabelSet ==
    {"start", "top", "verify", "probe", "probe_ok", "probe_ok_pub", "probe_bad",
     "probe_bad_pub", "probe_close", "disconnect", "clear", "clear_pub", "ended",
     "connect", "open", "set_true", "pub_true", "mark", "set_false", "pub_false",
     "stop_stream", "stop_lock", "release", "idle", "begin", "parse", "loop",
     "isconn", "setup", "read", "publish", "exit", "config_exit", "stop_exit",
     "returned", "check", "done", "stop_read", "remove_loop", "joining"}
        \subseteq Labels
  BY DEF Labels, LoopLabels, ConnectLabels, StopLabels, WorkerLabels,
         EnderLabels, DtorLabels

LEMMA TypeInit == Init => TypeOK
<1> SUFFICES ASSUME Init PROVE TypeOK
  OBVIOUS
<1>1. LjmTypeOK
  BY DEF Init, LjmInit, LjmTypeOK, Device, TaskOrNone
<1>2. pc \in [Threads -> Labels]
  BY LabelSet DEF Init
<1>3. /\ mutex \in Threads \union {NoThread}
      /\ handle \in HandleOrNone
  BY DEF Init, ConnInit, HandleOrNone
<1>4. /\ connected \in BOOLEAN /\ devConn \in BOOLEAN
      /\ demo \in BOOLEAN /\ demoConfig \in BOOLEAN /\ libReady \in BOOLEAN /\ loopEnd \in BOOLEAN
  BY DemoAssumption DEF Init, ConnInit
<1>5. /\ owner \in TaskOrNone
      /\ saved \in [Closers -> TaskOrNone]
      /\ started \in [Tasks -> BOOLEAN]
      /\ data \in [Tasks -> TaskOrNone]
  BY DEF Init, StreamInit, TaskOrNone
<1>6. /\ stop \in [Tasks -> BOOLEAN]
      /\ module \in {"alive", "removed", "destroying", "gone"}
  BY DEF Init
<1> QED
  BY <1>1, <1>2, <1>3, <1>4, <1>5, <1>6 DEF TypeOK

\* connect and the four stores that end a locked section, by any thread.
LEMMA TypeConnect ==
    ASSUME TypeOK, NEW thr \in Threads, Connect(thr), UNCHANGED <<streamVars, hostVars>>
    PROVE  TypeOK'
<1> USE LabelSet, ThreadsDistinct
    DEF TypeOK, LjmTypeOK, Goto, Resume, Locked, deviceVars, lockVars, flagVars,
        setupVars, streamVars, hostVars
<1>1. CASE ConnectAlready(thr)
  BY <1>1 DEF ConnectAlready
<1>2. CASE ConnectBegin(thr)
  BY <1>2 DEF ConnectBegin
<1>3. CASE OpenHandle(thr)
  BY <1>3, OpenTypes DEF OpenHandle
<1>4. ASSUME NEW label, NEW value \in BOOLEAN, SetConnected(thr, label, value)
      PROVE  TypeOK'
  BY <1>4 DEF SetConnected
<1>5. ASSUME NEW label, NEW value \in BOOLEAN, PublishConnected(thr, label, value)
      PROVE  TypeOK'
  BY <1>5 DEF PublishConnected
<1> QED
  BY <1>1, <1>2, <1>3, <1>4, <1>5 DEF Connect

\* The connection loop, and the two closers of a handle.
LEMMA TypeLoop ==
    ASSUME TypeOK, NEW thr \in Threads, MarkDisconnected(thr) \/ ConnectionStep,
           UNCHANGED <<streamVars, hostVars>>
    PROVE  TypeOK'
<1> USE LabelSet, ThreadsDistinct
    DEF TypeOK, LjmTypeOK, Goto, Resume, Locked, InOneStep, deviceVars, lockVars,
        flagVars, setupVars, streamVars, hostVars
<1>1. ASSUME CloseHandle PROVE dev' \in Device /\ handle' \in HandleOrNone
  BY <1>1, LjmTypes DEF CloseHandle, HandleOrNone
<1>2. CASE MarkDisconnected(thr)
  BY <1>1, <1>2 DEF MarkDisconnected, HandleOrNone
<1>3. CASE LoopStart
  BY <1>3 DEF LoopStart
<1>4. CASE LoopNotReady
  BY <1>4 DEF LoopNotReady
<1>5. CASE LoopTop
  BY <1>5 DEF LoopTop
<1>6. CASE Connect(Conn)
  BY <1>6, TypeConnect
<1>7. CASE Disconnect
  BY <1>1, <1>7 DEF Disconnect
<1>8. CASE DisconnectFlag
  BY <1>8 DEF DisconnectFlag
<1>9. CASE DisconnectPublish
  BY <1>9 DEF DisconnectPublish
<1>10. CASE VerifyConnection
  <2>1. CASE VerifyDemo
    BY <2>1 DEF VerifyDemo
  <2>2. CASE ProbeNoHandle
    BY <2>2 DEF ProbeNoHandle
  <2>3. CASE Probe
    BY <2>3 DEF Probe
  <2>4. ASSUME NEW label, NEW next \in Labels, NEW value \in BOOLEAN,
               ProbeFlag(label, next, value)
        PROVE  TypeOK'
    BY <2>4 DEF ProbeFlag
  <2>5. ASSUME NEW label, NEW next \in Labels, NEW value \in BOOLEAN,
               ProbePublish(label, next, value)
        PROVE  TypeOK'
    BY <2>5 DEF ProbePublish
  <2>6. CASE ProbeClose
    BY <1>1, <2>6 DEF ProbeClose, HandleOrNone
  <2> QED
    BY <1>10, <2>1, <2>2, <2>3, <2>4, <2>5, <2>6 DEF VerifyConnection
<1> QED
  BY <1>2, <1>3, <1>4, <1>5, <1>6, <1>7, <1>8, <1>9, <1>10 DEF ConnectionStep

\* stopStreamTaskKey, and the calls that lead into it.
LEMMA TypeStop ==
    ASSUME TypeOK, NEW thr \in Threads, NEW key \in TaskOrNone, NEW after \in Labels,
           \/ StopStreamTaskKey(thr, key, after)
           \/ \E label \in Labels : Release(thr, label, key, after)
           \/ thr \in Closers /\ ReadKey(thr, after)
           \/ \E t \in Tasks : EnderCheck(t),
           UNCHANGED hostVars
    PROVE  TypeOK'
<1> USE LabelSet, ThreadsDistinct
    DEF TypeOK, LjmTypeOK, Goto, InOneStep, deviceVars, lockVars, flagVars,
        setupVars, streamVars, hostVars
<1>1. CASE StopDemo(thr)
  BY <1>1 DEF StopDemo
<1>2. CASE StopLocked(thr)
  <2>1. dev' \in Device
    BY <1>2, LjmTypes DEF StopLocked, StopHandle, HandleOrNone
  <2> QED
    BY <1>2, <2>1 DEF StopLocked, StopHandle
<1>3. ASSUME NEW label, Release(thr, label, key, after)
      PROVE  TypeOK'
  BY <1>3 DEF Release, TaskOrNone
<1>4. CASE thr \in Closers /\ ReadKey(thr, after)
  BY <1>4 DEF ReadKey
<1>5. ASSUME NEW t \in Tasks, EnderCheck(t)
      PROVE  TypeOK'
  BY <1>5 DEF EnderCheck
<1> QED
  BY <1>1, <1>2, <1>3, <1>4, <1>5 DEF StopStreamTaskKey

\* runStreamWorker.
LEMMA TypeWorker ==
    ASSUME TypeOK, NEW t \in Tasks, WorkerSteps(t)
    PROVE  TypeOK'
<1> USE LabelSet, ThreadsDistinct
    DEF TypeOK, LjmTypeOK, Goto, Resume, Locked, InOneStep, Quiet, deviceVars,
        lockVars, flagVars, setupVars, streamVars, hostVars
<1> UNCHANGED hostVars
  BY DEF WorkerSteps
<1>1. CASE Acquire(t)
  BY <1>1 DEF Acquire, TaskOrNone
<1>2. CASE Parse(t)
  BY <1>2 DEF Parse
<1>3. CASE LoopHead(t, stop[t])
  <2>1. started' \in [Tasks -> BOOLEAN]
    BY <1>3 DEF LoopHead
  <2>2. \E l \in {"exit", "read", "isconn"} : Goto(Worker(t), l)
    BY <1>3 DEF LoopHead
  <2> QED
    BY <1>3, <2>1, <2>2 DEF LoopHead
<1>4. CASE IsConnected(t)
  BY <1>4 DEF IsConnected
<1>5. CASE SetupFails(t)
  <2>1. dev' \in Device
    BY <1>5, ConfiguredTypes, LjmTypes DEF SetupFails, HandleOrNone
  <2> QED
    BY <1>5, <2>1 DEF SetupFails
<1>6. CASE SetupStopFails(t)
  <2>1. dev' \in Device
    BY <1>6, LjmTypes DEF SetupStopFails, HandleOrNone
  <2> QED
    BY <1>6, <2>1 DEF SetupStopFails
<1>7. CASE SetupConfigFails(t)
  <2>1. handle \in Handles
    BY <1>7 DEF SetupConfigFails, HandleOrNone
  <2>2. PICK s \in StreamStop(dev, handle) :
           \E c \in WriteAnalogConfig(s.dev, t) :
              \E e \in StreamStop(c.dev, handle) : dev' = e.dev
    BY <1>7 DEF SetupConfigFails
  <2>3. s.dev \in Device
    BY <2>1, LjmTypes
  <2>4. dev' \in Device
    BY <2>1, <2>2, <2>3, LjmTypes
  <2> QED
    BY <1>7, <2>4 DEF SetupConfigFails
<1>8. CASE SetupStarts(t)
  <2>1. dev' \in Device
    BY <1>8, ConfiguredTypes, LjmTypes DEF SetupStarts, HandleOrNone
  <2> QED
    BY <1>8, <2>1 DEF SetupStarts
<1>9. CASE ReadDemo(t)
  BY <1>9 DEF ReadDemo, TaskOrNone
<1>10. CASE ReadSucceeds(t)
  <2>1. handle \in Handles
    BY <1>10 DEF ReadSucceeds, HandleOrNone
  <2>2. dev' = dev
    BY <1>10, <2>1, LjmTypes DEF ReadSucceeds
  <2>3. dev.session[handle] \in TaskOrNone
    BY <2>1 DEF Device
  <2> QED
    BY <1>10, <2>2, <2>3 DEF ReadSucceeds
<1>11. CASE ReadFails(t)
  <2>1. dev' = dev
    BY <1>11, LjmTypes DEF ReadFails, HandleOrNone
  <2> QED
    BY <1>11, <2>1 DEF ReadFails
<1>12. CASE Publish(t)
  BY <1>12 DEF Publish, TaskOrNone
<1>13. CASE Exit(t)
  <2>1. dev' \in Device /\ mutex' = mutex
    BY <1>13, LjmTypes DEF Exit, StopHandle, HandleOrNone
  <2> QED
    BY <1>13, <2>1 DEF Exit
<1>14. CASE WorkerConnection(t)
  BY <1>14, TypeConnect, TypeLoop DEF WorkerConnection
<1>15. CASE \/ StopStreamTaskKey(Worker(t), t, "returned")
            \/ Release(Worker(t), "config_exit", t, "returned")
            \/ Release(Worker(t), "stop_exit", t, "returned")
  <2>1. t \in TaskOrNone /\ "returned" \in Labels
    BY DEF TaskOrNone
  <2>2. CASE StopStreamTaskKey(Worker(t), t, "returned")
    BY <2>1, <2>2, TypeStop
  <2>3. CASE Release(Worker(t), "config_exit", t, "returned")
    BY <2>1, <2>3, TypeStop
  <2>4. CASE Release(Worker(t), "stop_exit", t, "returned")
    BY <2>1, <2>4, TypeStop
  <2> QED
    BY <1>15, <2>2, <2>3, <2>4
<1> QED
  BY <1>1, <1>2, <1>3, <1>4, <1>5, <1>6, <1>7, <1>8, <1>9, <1>10, <1>11, <1>12,
     <1>13, <1>14, <1>15 DEF WorkerSteps, WorkerStep, Setup, Streaming

\* The host's own steps.
LEMMA TypeHost ==
    ASSUME TypeOK,
           \/ \E t \in Tasks : StartTask(t) \/ RequestStop(t) \/ OnEnd(t) \/ TaskOver(t)
           \/ RemoveModule \/ Destroy \/ RemoveLoop \/ Destroyed \/ EndLoopEarly
    PROVE  TypeOK'
<1> USE LabelSet, ThreadsDistinct
    DEF TypeOK, LjmTypeOK, Goto, HostOnly, deviceVars, lockVars, flagVars,
        streamVars, hostVars
<1>1. ASSUME NEW t \in Tasks, StartTask(t) PROVE TypeOK'
  BY <1>1 DEF StartTask
<1>2. ASSUME NEW t \in Tasks, RequestStop(t) PROVE TypeOK'
  BY <1>2 DEF RequestStop
<1>3. ASSUME NEW t \in Tasks, OnEnd(t) PROVE TypeOK'
  BY <1>3 DEF OnEnd
<1>4. ASSUME NEW t \in Tasks, TaskOver(t) PROVE TypeOK'
  BY <1>4 DEF TaskOver
<1>5. CASE RemoveModule
  BY <1>5 DEF RemoveModule
<1>6. CASE Destroy
  BY <1>6 DEF Destroy
<1>7. CASE RemoveLoop
  BY <1>7 DEF RemoveLoop
<1>8. CASE Destroyed
  BY <1>8 DEF Destroyed
<1>9. CASE EndLoopEarly
  BY <1>9 DEF EndLoopEarly
<1> QED
  BY <1>1, <1>2, <1>3, <1>4, <1>5, <1>6, <1>7, <1>8, <1>9

LEMMA TypeStep == TypeOK /\ [Next]_vars => TypeOK'
<1> SUFFICES ASSUME TypeOK, [Next]_vars PROVE TypeOK'
  OBVIOUS
<1>1. CASE Steady /\ UNCHANGED <<connVars, streamVars, hostVars>>
  BY <1>1 DEF Steady, TypeOK, LjmTypeOK, connVars, lockVars, flagVars, setupVars,
              streamVars, hostVars
<1>2. CASE LoopSteps
  <2>1. CASE ConnectionStep /\ UNCHANGED <<streamVars, hostVars>>
    BY <2>1, TypeLoop, ThreadsDistinct
  <2>2. CASE LoopEndBegin /\ UNCHANGED hostVars
    BY <2>2, TypeStop, ThreadsDistinct, LabelSet DEF LoopEndBegin, Closers, TaskOrNone
  <2>3. CASE LoopEndStop /\ UNCHANGED hostVars
    <3>1. saved[Conn] \in TaskOrNone
      BY DEF TypeOK, Closers
    <3> QED
      BY <2>3, <3>1, TypeStop, ThreadsDistinct, LabelSet DEF LoopEndStop
  <2> QED
    BY <1>2, <2>1, <2>2, <2>3 DEF LoopSteps
<1>3. CASE DtorSteps
  <2>1. CASE DtorBegin /\ UNCHANGED hostVars
    BY <2>1, TypeStop, ThreadsDistinct, LabelSet DEF DtorBegin, Closers, TaskOrNone
  <2>2. CASE DtorStop /\ UNCHANGED hostVars
    <3>1. saved[Dtor] \in TaskOrNone
      BY DEF TypeOK, Closers
    <3> QED
      BY <2>2, <3>1, TypeStop, ThreadsDistinct, LabelSet DEF DtorStop
  <2> QED
    BY <1>3, <2>1, <2>2, TypeHost DEF DtorSteps
<1>4. CASE RemoveModule \/ Destroy \/ EndLoopEarly
  BY <1>4, TypeHost
<1>5. ASSUME NEW t \in Tasks, TaskSteps(t) PROVE TypeOK'
  <2>1. CASE StartTask(t) \/ RequestStop(t) \/ OnEnd(t) \/ TaskOver(t)
    BY <2>1, TypeHost
  <2>2. CASE WorkerSteps(t)
    BY <2>2, TypeWorker
  <2>3. CASE EnderSteps(t)
    <3>1. t \in TaskOrNone
      BY DEF TaskOrNone
    <3> QED
      BY <2>3, <3>1, TypeStop, ThreadsDistinct, LabelSet DEF EnderSteps, EnderStep
  <2> QED
    BY <1>5, <2>1, <2>2, <2>3 DEF TaskSteps
<1>6. CASE UNCHANGED vars
  BY <1>6 DEF vars, TypeOK, LjmTypeOK, connVars, deviceVars, lockVars, flagVars,
              setupVars, streamVars, hostVars
<1> QED
  BY <1>1, <1>2, <1>3, <1>4, <1>5, <1>6 DEF Next

\* Every variable keeps its type, whatever LJM answers and the host does: the
\* program counters stay labels of the code, the key and the handle stay a task
\* and a handle or their sentinels.
THEOREM TypeCorrect == Spec => []TypeOK
<1>1. Init => TypeOK
  BY TypeInit
<1>2. TypeOK /\ [Next]_vars => TypeOK'
  BY TypeStep
<1> QED
  BY <1>1, <1>2, PTL DEF Spec

(***************************************************************************)
(* The handle.  Nothing about the host is assumed: the lock alone protects *)
(* it.  connect writes handle_ in a second step of its section, so the     *)
(* invariant must say that the section is entered without a handle and     *)
(* that nobody else is in it; the destructor never is.                     *)
(***************************************************************************)
HandleInv ==
    /\ LockDiscipline
    /\ \A thr \in Threads : pc[thr] = "open" => handle = NoHandle
    /\ pc[Dtor] \notin LockedLabels
    /\ NoHandleLeak

\* A step that takes no part in opening, closing or locking, and moves only threads
\* that are not in a locked section to labels that are in none.
LEMMA HandleFrame ==
    ASSUME TypeOK, HandleInv, mutex' = mutex, handle' = handle,
           dev'.opened = dev.opened,
           \A thr \in Threads :
              \/ pc'[thr] = pc[thr]
              \/ pc[thr] \notin LockedLabels /\ pc'[thr] \notin LockedLabels
    PROVE  HandleInv'
  BY ThreadsDistinct DEF HandleInv, LockDiscipline, NoHandleLeak, LockedLabels

LEMMA HandleInit == Init => HandleInv
<1> SUFFICES ASSUME Init PROVE HandleInv
  OBVIOUS
<1>1. \A thr \in Threads : pc[thr] \in {"start", "idle"} /\ mutex # thr
  BY ThreadAssumption DEF Init, ConnInit
<1>2. dev.opened = {} /\ handle = NoHandle
  BY DEF Init, LjmInit, ConnInit
<1> QED
  BY <1>1, <1>2, ThreadsDistinct
  DEF HandleInv, LockDiscipline, LockedLabels, NoHandleLeak

LEMMA HandleConnect ==
    ASSUME TypeOK, HandleInv, NEW thr \in Threads, thr # Dtor, Connect(thr)
    PROVE  HandleInv'
<1> USE ThreadAssumption, ThreadsDistinct
    DEF TypeOK, LjmTypeOK, HandleInv, LockDiscipline, NoHandleLeak, LockedLabels,
        Goto, Resume, Locked, deviceVars, lockVars
<1>1. CASE ConnectAlready(thr)
  BY <1>1 DEF ConnectAlready
<1>2. CASE ConnectBegin(thr)
  BY <1>2 DEF ConnectBegin
<1>3. CASE OpenHandle(thr)
  <2>1. mutex = thr /\ handle = NoHandle /\ dev.opened = {}
    BY <1>3 DEF OpenHandle
  <2>2. PICK o \in Open(dev) :
           /\ dev' = o.dev /\ handle' = o.handle
           /\ Goto(thr, IF o.result = "ok" THEN "set_true" ELSE "set_false")
    BY <1>3 DEF OpenHandle
  <2>3. mutex' = mutex
    BY <1>3 DEF OpenHandle
  <2>4. NoHandleLeak'
    BY <2>1, <2>2, OpenFields, HandlesAssumption
  <2>5. LockDiscipline'
    BY <2>1, <2>2, <2>3
  <2>6. \A u \in Threads : pc'[u] # "open"
    BY <2>1, <2>2
  <2>7. pc'[Dtor] \notin LockedLabels
    BY <2>2
  <2> QED
    BY <2>4, <2>5, <2>6, <2>7
<1>4. CASE SetConnected(thr, "set_true", TRUE) \/ SetConnected(thr, "set_false", FALSE)
  BY <1>4 DEF SetConnected
<1>5. CASE \/ PublishConnected(thr, "pub_true", TRUE)
           \/ PublishConnected(thr, "pub_false", FALSE)
  BY <1>5 DEF PublishConnected
<1> QED
  BY <1>1, <1>2, <1>3, <1>4, <1>5 DEF Connect

LEMMA HandleLoop ==
    ASSUME TypeOK, HandleInv, NEW thr \in Threads, thr # Dtor,
           MarkDisconnected(thr) \/ ConnectionStep
    PROVE  HandleInv'
<1> USE ThreadAssumption, ThreadsDistinct
    DEF TypeOK, LjmTypeOK, HandleInv, LockDiscipline, NoHandleLeak, LockedLabels,
        Goto, Resume, Locked, InOneStep, deviceVars, lockVars
<1>1. ASSUME CloseHandle PROVE handle' = NoHandle /\ dev'.opened = {}
  BY <1>1, CloseFields DEF CloseHandle, HandleOrNone
<1>2. CASE MarkDisconnected(thr)
  BY <1>1, <1>2 DEF MarkDisconnected
<1>3. CASE LoopStart
  BY <1>3 DEF LoopStart
<1>4. CASE LoopNotReady
  BY <1>4 DEF LoopNotReady
<1>5. CASE LoopTop
  BY <1>5 DEF LoopTop
<1>6. CASE Connect(Conn)
  BY <1>6, HandleConnect
<1>7. CASE Disconnect
  BY <1>1, <1>7 DEF Disconnect
<1>8. CASE DisconnectFlag
  BY <1>8 DEF DisconnectFlag
<1>9. CASE DisconnectPublish
  BY <1>9 DEF DisconnectPublish
<1>10. CASE VerifyDemo
  BY <1>10 DEF VerifyDemo
<1>11. CASE ProbeNoHandle
  BY <1>11 DEF ProbeNoHandle
<1>12. CASE Probe
  BY <1>12 DEF Probe
<1>13. CASE \/ ProbeFlag("probe_ok", "probe_ok_pub", TRUE)
            \/ ProbeFlag("probe_bad", "probe_bad_pub", FALSE)
  BY <1>13 DEF ProbeFlag
<1>14. CASE \/ ProbePublish("probe_ok_pub", "top", TRUE)
            \/ ProbePublish("probe_bad_pub", "probe_close", FALSE)
  BY <1>14 DEF ProbePublish
<1>15. CASE ProbeClose
  BY <1>1, <1>15 DEF ProbeClose
<1> QED
  BY <1>2, <1>3, <1>4, <1>5, <1>6, <1>7, <1>8, <1>9, <1>10, <1>11, <1>12, <1>13,
     <1>14, <1>15 DEF ConnectionStep, VerifyConnection

\* An LJM_eStreamStop by any of the threads that stop a stream.
LEMMA StopKeepsHandle ==
    ASSUME TypeOK, StopHandle
    PROVE  mutex' = mutex /\ dev'.opened = dev.opened
  BY StreamStopFields DEF StopHandle, InOneStep, TypeOK, LjmTypeOK, HandleOrNone

LEMMA HandleStop ==
    ASSUME TypeOK, HandleInv, NEW thr \in Threads, NEW key,
           NEW after \in {"disconnect", "remove_loop", "returned", "done"},
           \/ StopStreamTaskKey(thr, key, after)
           \/ Release(thr, "config_exit", key, after)
           \/ Release(thr, "stop_exit", key, after)
           \/ pc[thr] \in {"top", "stop_read"} /\ ReadKey(thr, after)
           \/ \E t \in Tasks : EnderCheck(t)
    PROVE  HandleInv'
<1> USE ThreadsDistinct DEF TypeOK, LockedLabels, Goto, deviceVars, lockVars
<1>1. CASE StopDemo(thr)
  BY <1>1, HandleFrame DEF StopDemo
<1>2. CASE StopLocked(thr)
  BY <1>2, HandleFrame, StopKeepsHandle DEF StopLocked
<1>3. CASE \E l \in {"release", "config_exit", "stop_exit"} : Release(thr, l, key, after)
  BY <1>3, HandleFrame DEF Release
<1>4. CASE pc[thr] \in {"top", "stop_read"} /\ ReadKey(thr, after)
  BY <1>4, HandleFrame DEF ReadKey
<1>5. ASSUME NEW t \in Tasks, EnderCheck(t)
      PROVE  HandleInv'
  BY <1>5, HandleFrame DEF EnderCheck
<1> QED
  BY <1>1, <1>2, <1>3, <1>4, <1>5 DEF StopStreamTaskKey

LEMMA HandleWorker ==
    ASSUME TypeOK, HandleInv, NEW t \in Tasks, WorkerSteps(t)
    PROVE  HandleInv'
<1> USE ThreadsDistinct
    DEF TypeOK, LjmTypeOK, LockedLabels, Goto, Quiet, InOneStep, deviceVars, lockVars
<1>1. CASE Acquire(t) \/ Parse(t) \/ LoopHead(t, stop[t]) \/ IsConnected(t)
  BY <1>1, HandleFrame DEF Acquire, Parse, LoopHead, IsConnected
<1>2. CASE SetupFails(t)
  <2>1. dev'.opened = dev.opened
    <3>1. CASE handle = NoHandle
      BY <1>2, <3>1 DEF SetupFails
    <3>2. CASE handle # NoHandle
      <4>1. handle \in Handles
        BY <3>2 DEF HandleOrNone
      <4>2. PICK d \in Configured(t) : \E o \in EnsureStarted(d, t) : dev' = o.dev
        BY <1>2, <3>2 DEF SetupFails
      <4>3. d \in Device /\ d.opened = dev.opened
        BY <4>1, ConfiguredFields
      <4> QED
        BY <4>1, <4>2, <4>3, EnsureStartedFields
    <3> QED
      BY <3>1, <3>2
  <2> QED
    BY <1>2, <2>1, HandleFrame DEF SetupFails
<1>3. CASE SetupStopFails(t)
  <2>1. dev'.opened = dev.opened
    BY <1>3, StreamStopFields DEF SetupStopFails, HandleOrNone
  <2> QED
    BY <1>3, <2>1, HandleFrame DEF SetupStopFails
<1>4. CASE SetupConfigFails(t)
  <2>1. handle \in Handles
    BY <1>4 DEF SetupConfigFails, HandleOrNone
  <2>2. PICK s \in StreamStop(dev, handle) :
           \E c \in WriteAnalogConfig(s.dev, t) :
              \E e \in StreamStop(c.dev, handle) : dev' = e.dev
    BY <1>4 DEF SetupConfigFails
  <2>3. s.dev \in Device /\ s.dev.opened = dev.opened
    BY <2>1, StreamStopFields
  <2>4. PICK c \in WriteAnalogConfig(s.dev, t) :
           \E e \in StreamStop(c.dev, handle) : dev' = e.dev
    BY <2>2
  <2>5. c.dev \in Device /\ c.dev.opened = dev.opened
    BY <2>3, WriteAnalogConfigFields
  <2>6. dev'.opened = dev.opened
    BY <2>1, <2>4, <2>5, StreamStopFields
  <2> QED
    BY <1>4, <2>6, HandleFrame DEF SetupConfigFails
<1>5. CASE SetupStarts(t)
  <2>1. handle \in Handles
    BY <1>5 DEF SetupStarts, HandleOrNone
  <2>2. PICK d \in Configured(t) : \E o \in EnsureStarted(d, t) : dev' = o.dev
    BY <1>5 DEF SetupStarts
  <2>3. d \in Device /\ d.opened = dev.opened
    BY <2>1, ConfiguredFields
  <2>4. dev'.opened = dev.opened
    BY <2>1, <2>2, <2>3, EnsureStartedFields
  <2> QED
    BY <1>5, <2>4, HandleFrame DEF SetupStarts
<1>6. CASE ReadDemo(t) \/ Publish(t)
  BY <1>6, HandleFrame DEF ReadDemo, Publish
<1>7. CASE ReadSucceeds(t) \/ ReadFails(t)
  <2>1. dev' = dev
    BY <1>7, LjmTypes DEF ReadSucceeds, ReadFails, HandleOrNone
  <2> QED
    BY <1>7, <2>1, HandleFrame DEF ReadSucceeds, ReadFails
<1>8. CASE Exit(t)
  <2>1. mutex' = mutex /\ dev'.opened = dev.opened
    BY <1>8, StopKeepsHandle DEF Exit
  <2> QED
    BY <1>8, <2>1, HandleFrame DEF Exit
<1>9. CASE WorkerConnection(t)
  BY <1>9, HandleConnect, HandleLoop DEF WorkerConnection
<1>10. CASE \/ StopStreamTaskKey(Worker(t), t, "returned")
            \/ Release(Worker(t), "config_exit", t, "returned")
            \/ Release(Worker(t), "stop_exit", t, "returned")
  BY <1>10, HandleStop
<1> QED
  BY <1>1, <1>2, <1>3, <1>4, <1>5, <1>6, <1>7, <1>8, <1>9, <1>10
  DEF WorkerSteps, WorkerStep, Setup, Streaming

LEMMA HandleStep == TypeOK /\ HandleInv /\ [Next]_vars => HandleInv'
<1> SUFFICES ASSUME TypeOK, HandleInv, [Next]_vars PROVE HandleInv'
  OBVIOUS
<1> USE ThreadsDistinct
    DEF TypeOK, LockedLabels, Goto, HostOnly, deviceVars, lockVars
<1>1. CASE Steady /\ UNCHANGED <<connVars, streamVars, hostVars>>
  BY <1>1, HandleFrame DEF Steady, connVars
<1>2. CASE LoopSteps
  BY <1>2, HandleLoop, HandleStop DEF LoopSteps, LoopEndBegin, LoopEndStop
<1>3. CASE (DtorBegin \/ DtorStop) /\ UNCHANGED hostVars
  BY <1>3, HandleStop DEF DtorBegin, DtorStop
<1>4. CASE RemoveLoop \/ Destroyed \/ RemoveModule \/ Destroy \/ EndLoopEarly
  <2>1. CASE RemoveModule \/ EndLoopEarly
    BY <2>1, HandleFrame DEF RemoveModule, EndLoopEarly
  <2>2. CASE RemoveLoop \/ Destroyed \/ Destroy
    <3>1. \E l \in {"joining", "returned", "stop_read"} : pc' = [pc EXCEPT ![Dtor] = l]
      BY <2>2 DEF RemoveLoop, Destroyed, Destroy
    <3>2. pc[Dtor] \notin LockedLabels
      BY DEF HandleInv
    <3>3. mutex' = mutex /\ handle' = handle /\ dev' = dev
      BY <2>2 DEF RemoveLoop, Destroyed, Destroy
    <3> QED
      BY <3>1, <3>2, <3>3, HandleFrame
  <2> QED
    BY <1>4, <2>1, <2>2
<1>5. ASSUME NEW t \in Tasks, TaskSteps(t) PROVE HandleInv'
  <2>1. CASE StartTask(t) \/ RequestStop(t) \/ OnEnd(t) \/ TaskOver(t)
    BY <2>1, HandleFrame DEF StartTask, RequestStop, OnEnd, TaskOver
  <2>2. CASE WorkerSteps(t)
    BY <2>2, HandleWorker
  <2>3. CASE EnderSteps(t)
    BY <2>3, HandleStop DEF EnderSteps, EnderStep
  <2> QED
    BY <1>5, <2>1, <2>2, <2>3 DEF TaskSteps
<1>6. CASE UNCHANGED vars
  BY <1>6, HandleFrame DEF vars, connVars
<1> QED
  BY <1>1, <1>2, <1>3, <1>4, <1>5, <1>6 DEF Next, DtorSteps

\* handle_mutex_ is held exactly inside its sections and no handle is ever leaked,
\* whatever the host does: on_end beside its worker and a loop ended early included.
THEOREM HandleSafe == Spec => [](LockDiscipline /\ NoHandleLeak)
<1>1. Init => TypeOK /\ HandleInv
  BY TypeInit, HandleInit
<1>2. TypeOK /\ HandleInv /\ [Next]_vars => TypeOK' /\ HandleInv'
  BY TypeStep, HandleStep
<1>3. HandleInv => LockDiscipline /\ NoHandleLeak
  BY DEF HandleInv
<1> QED
  BY <1>1, <1>2, <1>3, PTL DEF Spec

\* The lock is owned by exactly the thread inside a multi-step section of
\* handle_mutex_, so every path gives it back.
THEOREM LockHeld == Spec => []LockDiscipline
<1>1. Spec => [](LockDiscipline /\ NoHandleLeak)
  BY HandleSafe
<1> QED
  BY <1>1, PTL

(***************************************************************************)
(* The ownership of the hardware stream, with and without demo mode, under *)
(* a host that calls on_end only after on_task returned and ends the       *)
(* connection loop only from the destructor.                               *)
(***************************************************************************)
OrderlyHost == HostMoves \subseteq {"remove"}

(***************************************************************************)
(* A key is released by its own worker, by the on_end that follows it, by  *)
(* the destructor and by the end of the loop.  That none of the last three *)
(* takes it from a live worker is the orderly host's doing: on_end runs on *)
(* a returned worker, and the destructor, which alone ends the loop, on a  *)
(* module nobody is inside of.                                             *)
(***************************************************************************)
OwnerInv ==
    /\ StreamExclusive
    /\ OwnerAccounted
    /\ \A t \in Tasks : pc[Ender(t)] # "idle" => pc[Worker(t)] = "returned"
    /\ \A t \in Tasks : pc[Ender(t)] = "done" /\ module = "alive" => owner # t
    /\ module \in {"alive", "removed"} => ~loopEnd /\ pc[Dtor] = "idle"
    /\ module \in {"destroying", "gone"} => \A t \in Tasks : ~InsideModule(t)
    /\ pc[Conn] \in StopLabels => loopEnd

LEMMA OwnerInit == Init => OwnerInv
<1> SUFFICES ASSUME Init PROVE OwnerInv
  OBVIOUS
<1>1. \A t \in Tasks : pc[Worker(t)] = "idle" /\ pc[Ender(t)] = "idle"
  BY ThreadsDistinct DEF Init
<1>2. pc[Conn] = "start" /\ pc[Dtor] = "idle" /\ owner = NoTask
  BY ThreadsDistinct DEF Init, StreamInit
<1>3. ~loopEnd /\ module = "alive"
  BY DEF Init, ConnInit
<1> QED
  BY <1>1, <1>2, <1>3, TasksAssumption
  DEF OwnerInv, StreamExclusive, OwnerAccounted, Holding, StopLabels

\* A step that leaves the key, the host's state, on_end and the destructor alone,
\* and keeps each worker on its side of tryAcquireStream.
LEMMA OwnerFrame ==
    ASSUME OwnerInv, owner' = owner, module' = module, loopEnd' = loopEnd,
           pc'[Dtor] = pc[Dtor],
           \A t \in Tasks : pc'[Ender(t)] = pc[Ender(t)],
           \A t \in Tasks : pc'[Worker(t)] = pc[Worker(t)] \/ (Holding(t) /\ Holding(t)'),
           pc'[Conn] \in StopLabels => pc[Conn] \in StopLabels \/ loopEnd
    PROVE  OwnerInv'
<1> USE DEF OwnerInv
<1>1. \A t \in Tasks : Holding(t)' = Holding(t)
  BY DEF Holding
<1>2. StreamExclusive'
  BY <1>1 DEF StreamExclusive
<1>3. OwnerAccounted'
  BY DEF OwnerAccounted, Holding
<1>4. \A t \in Tasks : pc'[Ender(t)] # "idle" => pc'[Worker(t)] = "returned"
  BY DEF Holding
<1>5. \A t \in Tasks : ~InsideModule(t) => ~InsideModule(t)'
  BY DEF InsideModule, Holding
<1> QED
  BY <1>2, <1>3, <1>4, <1>5

\* The procedures of the connection half, run by the loop or by a worker that holds
\* the stream.
LEMMA OwnerConnection ==
    ASSUME TypeOK, OwnerInv,
           \/ ConnectionStep /\ UNCHANGED <<streamVars, hostVars>>
           \/ \E t \in Tasks : WorkerConnection(t) /\ UNCHANGED hostVars
    PROVE  OwnerInv'
<1> USE ThreadsDistinct DEF TypeOK, Goto, Resume, setupVars, streamVars, hostVars
<1>1. ASSUME NEW thr \in Threads, Connect(thr) \/ MarkDisconnected(thr)
      PROVE  /\ loopEnd' = loopEnd
             /\ pc[thr] \in ConnectLabels
             /\ \E l \in ConnectLabels \union {Resume(thr)} : pc' = [pc EXCEPT ![thr] = l]
  BY <1>1 DEF Connect, ConnectAlready, ConnectBegin, OpenHandle, SetConnected,
              PublishConnected, MarkDisconnected, ConnectLabels
<1>2. CASE ConnectionStep /\ UNCHANGED <<streamVars, hostVars>>
  <2>1. /\ loopEnd' = loopEnd
        /\ \E l \in LoopLabels \ StopLabels : pc' = [pc EXCEPT ![Conn] = l] \/ pc' = pc
    <3>1. CASE Connect(Conn)
      BY <1>1, <3>1 DEF ConnectLabels, LoopLabels, StopLabels
    <3>2. CASE LoopStart \/ LoopNotReady \/ LoopTop
      BY <3>2 DEF LoopStart, LoopNotReady, LoopTop, LoopLabels, StopLabels, ConnectLabels
    <3>3. CASE VerifyConnection
      BY <3>3 DEF VerifyConnection, VerifyDemo, ProbeNoHandle, Probe, ProbeFlag,
                  ProbePublish, ProbeClose, LoopLabels, StopLabels, ConnectLabels
    <3>4. CASE Disconnect \/ DisconnectFlag \/ DisconnectPublish
      BY <3>4 DEF Disconnect, DisconnectFlag, DisconnectPublish, LoopLabels,
                  StopLabels, ConnectLabels
    <3> QED
      BY <1>2, <3>1, <3>2, <3>3, <3>4 DEF ConnectionStep
  <2>2. \/ pc' = pc
        \/ \E l \in LoopLabels \ StopLabels : pc' = [pc EXCEPT ![Conn] = l]
    BY <2>1
  <2>3. owner' = owner /\ module' = module
    BY <1>2
  <2> QED
    BY <2>1, <2>2, <2>3, OwnerFrame
<1>3. ASSUME NEW t \in Tasks, WorkerConnection(t), UNCHANGED hostVars
      PROVE  OwnerInv'
  <2>1. PICK l \in ConnectLabels \union {"loop"} : pc' = [pc EXCEPT ![Worker(t)] = l]
    BY <1>1, <1>3 DEF WorkerConnection
  <2>2. pc[Worker(t)] \in ConnectLabels /\ loopEnd' = loopEnd
    BY <1>1, <1>3 DEF WorkerConnection
  <2>3. Holding(t) /\ Holding(t)'
    BY <2>1, <2>2 DEF Holding, ConnectLabels
  <2>4. owner' = owner /\ module' = module
    BY <1>3 DEF WorkerConnection
  <2> QED
    BY <2>1, <2>2, <2>3, <2>4, OwnerFrame
<1> QED
  BY <1>2, <1>3

\* The key taken and given back by a worker.
LEMMA OwnerAcquire ==
    ASSUME TypeOK, OwnerInv, NEW t \in Tasks, Acquire(t), UNCHANGED hostVars
    PROVE  OwnerInv'
<1> USE ThreadsDistinct DEF TypeOK, Goto, Quiet, setupVars, hostVars, OwnerInv
<1>1. /\ pc[Worker(t)] = "begin"
      /\ pc' = [pc EXCEPT ![Worker(t)] = pc'[Worker(t)]]
      /\ pc'[Worker(t)] \in {"parse", "returned"}
      /\ UNCHANGED <<loopEnd, module>>
  BY DEF Acquire
<1>2. \A u \in Tasks : u # t => (Holding(u)' <=> Holding(u))
  BY <1>1 DEF Holding
<1>3. module \in {"alive", "removed"}
  BY <1>1 DEF InsideModule
<1>4. CASE owner' = owner
  <2>1. pc'[Worker(t)] = "returned"
    BY <1>4, <1>1, TasksAssumption DEF Acquire
  <2>2. StreamExclusive' /\ OwnerAccounted'
    BY <1>1, <1>2, <1>4, <2>1 DEF StreamExclusive, OwnerAccounted, Holding
  <2> QED
    BY <1>1, <1>3, <1>4, <2>1, <2>2
<1>5. CASE owner = NoTask /\ owner' = t
  <2>1. \A u \in Tasks : ~Holding(u)
    BY <1>5, TasksAssumption DEF StreamExclusive
  <2>2. StreamExclusive'
    BY <1>2, <1>5, <2>1 DEF StreamExclusive
  <2>3. OwnerAccounted'
    BY <1>1, <1>5 DEF OwnerAccounted
  <2>4. \A u \in Tasks : pc[Ender(u)] = "done" => u # t
    BY <1>1
  <2>5. \A u \in Tasks : pc'[Ender(u)] = pc[Ender(u)]
    BY <1>1
  <2> QED
    BY <1>1, <1>3, <1>5, <2>2, <2>3, <2>4, <2>5
<1> QED
  BY <1>4, <1>5 DEF Acquire

\* releaseStream by a worker that leaves, or by the on_end of one that returned.
LEMMA OwnerRelease ==
    ASSUME TypeOK, OwnerInv, NEW t \in Tasks, NEW l,
           \/ Release(Worker(t), l, t, "returned") /\ Holding(t)
           \/ Release(Ender(t), l, t, "done") /\ pc[Ender(t)] # "idle"
                                               /\ pc[Ender(t)] # "done",
           UNCHANGED hostVars
    PROVE  OwnerInv'
<1> USE ThreadsDistinct DEF TypeOK, Goto, setupVars, hostVars, OwnerInv
<1>1. /\ owner' = IF owner = t THEN NoTask ELSE owner
      /\ UNCHANGED <<loopEnd, module>>
  BY DEF Release
<1>2. module \in {"alive", "removed"}
  BY DEF InsideModule, Holding
<1>3. owner' # t
  BY <1>1, TasksAssumption
<1>4. \A u \in Tasks : owner' = u => owner = u
  BY <1>1, TasksAssumption
<1>5. CASE Release(Worker(t), l, t, "returned") /\ Holding(t)
  <2>1. pc' = [pc EXCEPT ![Worker(t)] = "returned"]
    BY <1>5 DEF Release
  <2>2. \A u \in Tasks : u # t => ~Holding(u)
    BY <1>5 DEF StreamExclusive
  <2>3. StreamExclusive' /\ OwnerAccounted'
    BY <1>1, <1>4, <2>1, <2>2 DEF StreamExclusive, OwnerAccounted, Holding
  <2> QED
    BY <1>1, <1>2, <1>4, <2>1, <2>3
<1>6. CASE Release(Ender(t), l, t, "done") /\ pc[Ender(t)] # "idle" /\ pc[Ender(t)] # "done"
  <2>1. pc' = [pc EXCEPT ![Ender(t)] = "done"]
    BY <1>6 DEF Release
  <2>2. pc[Worker(t)] = "returned"
    BY <1>6
  <2>3. \A u \in Tasks : owner = t => ~Holding(u)
    BY <2>2 DEF StreamExclusive, Holding
  <2>4. StreamExclusive' /\ OwnerAccounted'
    BY <1>1, <1>4, <2>1, <2>3 DEF StreamExclusive, OwnerAccounted, Holding
  <2> QED
    BY <1>1, <1>2, <1>3, <1>4, <2>1, <2>2, <2>4
<1> QED
  BY <1>5, <1>6

LEMMA OwnerWorker ==
    ASSUME TypeOK, OwnerInv, NEW t \in Tasks, WorkerSteps(t)
    PROVE  OwnerInv'
<1> USE ThreadsDistinct DEF TypeOK, Goto, Quiet, setupVars, streamVars, hostVars
<1> UNCHANGED hostVars
  BY DEF WorkerSteps
<1>1. CASE Acquire(t)
  BY <1>1, OwnerAcquire
<1>2. CASE Parse(t)
  <2>1. CASE pc'[Worker(t)] = "returned"
    <3>1. /\ pc[Worker(t)] = "parse" /\ pc' = [pc EXCEPT ![Worker(t)] = "returned"]
          /\ UNCHANGED <<owner, loopEnd, module>>
      BY <1>2, <2>1 DEF Parse
    <3>2. StreamExclusive' /\ OwnerAccounted'
      BY <3>1 DEF OwnerInv, StreamExclusive, OwnerAccounted, Holding
    <3> QED
      BY <3>1, <3>2 DEF OwnerInv, InsideModule
  <2>2. CASE pc'[Worker(t)] # "returned"
    BY <1>2, <2>2, OwnerFrame DEF Parse, Holding
  <2> QED
    BY <2>1, <2>2
<1>3. CASE LoopHead(t, stop[t]) \/ IsConnected(t)
  BY <1>3, OwnerFrame DEF LoopHead, IsConnected, Holding
<1>4. CASE Setup(t)
  BY <1>4, OwnerFrame DEF Setup, SetupFails, SetupStopFails, SetupConfigFails,
                          SetupStarts, Holding
<1>5. CASE Streaming(t)
  BY <1>5, OwnerFrame DEF Streaming, ReadDemo, ReadSucceeds, ReadFails, Publish, Exit, Holding
<1>6. CASE WorkerConnection(t)
  BY <1>6, OwnerConnection
<1>7. CASE StopDemo(Worker(t)) \/ StopLocked(Worker(t))
  BY <1>7, OwnerFrame DEF StopDemo, StopLocked, Holding
<1>8. ASSUME NEW l \in {"release", "config_exit", "stop_exit"},
             Release(Worker(t), l, t, "returned")
      PROVE  OwnerInv'
  <2>1. Holding(t)
    BY <1>8 DEF Release, Holding
  <2> QED
    BY <1>8, <2>1, OwnerRelease
<1> QED
  BY <1>1, <1>2, <1>3, <1>4, <1>5, <1>6, <1>7, <1>8
  DEF WorkerSteps, WorkerStep, StopStreamTaskKey

LEMMA OwnerEnder ==
    ASSUME TypeOK, OwnerInv, NEW t \in Tasks, EnderSteps(t)
    PROVE  OwnerInv'
<1> USE ThreadsDistinct DEF TypeOK, Goto, setupVars, streamVars, hostVars
<1> UNCHANGED hostVars
  BY DEF EnderSteps
<1>1. ASSUME NEW l \in {"stop_stream", "stop_lock", "release", "done"},
             pc[Ender(t)] \notin {"idle", "done"},
             pc' = [pc EXCEPT ![Ender(t)] = l], l = "done" => owner # t,
             UNCHANGED <<owner, loopEnd, module>>
      PROVE  OwnerInv'
  <2>1. pc[Worker(t)] = "returned" /\ module \in {"alive", "removed"}
    BY <1>1 DEF OwnerInv, InsideModule
  <2>2. StreamExclusive' /\ OwnerAccounted'
    BY <1>1 DEF OwnerInv, StreamExclusive, OwnerAccounted, Holding
  <2> QED
    BY <1>1, <2>1, <2>2 DEF OwnerInv
<1>2. CASE EnderCheck(t)
  BY <1>1, <1>2 DEF EnderCheck
<1>3. CASE StopDemo(Ender(t)) \/ StopLocked(Ender(t))
  BY <1>1, <1>3 DEF StopDemo, StopLocked
<1>4. CASE Release(Ender(t), "release", t, "done")
  <2>1. pc[Ender(t)] = "release"
    BY <1>4 DEF Release
  <2> QED
    BY <1>4, <2>1, OwnerRelease
<1> QED
  BY <1>2, <1>3, <1>4 DEF EnderSteps, EnderStep, StopStreamTaskKey

\* stopStream() by the loop's end and by the destructor: nobody is left inside.
LEMMA OwnerCloser ==
    ASSUME TypeOK, OwnerInv, NEW thr \in Closers, NEW key, NEW after \in Labels \ StopLabels,
           \/ StopStreamTaskKey(thr, key, after)
           \/ ReadKey(thr, after),
           thr = Conn => loopEnd,
           thr = Dtor => pc[Dtor] # "idle",
           UNCHANGED hostVars
    PROVE  OwnerInv'
<1> USE ThreadsDistinct DEF TypeOK, Closers, Goto, setupVars, streamVars, hostVars, OwnerInv
<1>1. module \in {"destroying", "gone"}
  OBVIOUS
<1>2. /\ \E l \in Labels : pc' = [pc EXCEPT ![thr] = l]
      /\ UNCHANGED <<loopEnd, module>>
  BY LabelSet DEF StopStreamTaskKey, StopDemo, StopLocked, Release, ReadKey
<1>3. \A t \in Tasks : /\ pc'[Worker(t)] = pc[Worker(t)]
                       /\ pc'[Ender(t)] = pc[Ender(t)]
  BY <1>2
<1>4. \A t \in Tasks : ~InsideModule(t) /\ ~InsideModule(t)' /\ ~Holding(t)'
  BY <1>1, <1>3 DEF InsideModule, Holding
<1>5. StreamExclusive' /\ OwnerAccounted'
  BY <1>1, <1>2, <1>4 DEF StreamExclusive, OwnerAccounted
<1>6. loopEnd' = loopEnd /\ (pc'[Conn] \in StopLabels => loopEnd)
  <2>1. CASE thr = Conn
    BY <1>2, <2>1
  <2>2. CASE thr = Dtor
    <3>1. pc'[Conn] = pc[Conn]
      BY <1>2, <2>2
    <3> QED
      BY <1>2, <3>1
  <2> QED
    BY <2>1, <2>2
<1> QED
  BY <1>1, <1>2, <1>3, <1>4, <1>5, <1>6

LEMMA OwnerHost ==
    ASSUME TypeOK, OwnerInv, OrderlyHost,
           \/ \E t \in Tasks : StartTask(t) \/ RequestStop(t) \/ OnEnd(t) \/ TaskOver(t)
           \/ RemoveModule \/ Destroy \/ RemoveLoop \/ Destroyed \/ EndLoopEarly
    PROVE  OwnerInv'
<1> USE ThreadsDistinct
    DEF TypeOK, OwnerInv, StreamExclusive, OwnerAccounted, Holding, InsideModule, Goto,
        HostOnly, streamVars, hostVars
<1>1. ASSUME NEW t \in Tasks, StartTask(t) PROVE OwnerInv'
  BY <1>1 DEF StartTask
<1>2. ASSUME NEW t \in Tasks, RequestStop(t) PROVE OwnerInv'
  BY <1>2 DEF RequestStop
<1>3. ASSUME NEW t \in Tasks, OnEnd(t) PROVE OwnerInv'
  <2>1. pc[Worker(t)] = "returned"
    BY <1>3 DEF OnEnd, OrderlyHost
  <2> QED
    BY <1>3, <2>1 DEF OnEnd
<1>4. ASSUME NEW t \in Tasks, TaskOver(t) PROVE OwnerInv'
  BY <1>4 DEF TaskOver
<1>5. CASE RemoveModule
  BY <1>5 DEF RemoveModule
<1>6. CASE Destroy
  BY <1>6 DEF Destroy
<1>7. CASE RemoveLoop
  BY <1>7 DEF RemoveLoop
<1>8. CASE Destroyed
  BY <1>8 DEF Destroyed
<1>9. CASE EndLoopEarly
  BY <1>9 DEF EndLoopEarly, OrderlyHost
<1> QED
  BY <1>1, <1>2, <1>3, <1>4, <1>5, <1>6, <1>7, <1>8, <1>9

LEMMA OwnerStep ==
    ASSUME OrderlyHost
    PROVE  TypeOK /\ OwnerInv /\ [Next]_vars => OwnerInv'
<1> SUFFICES ASSUME TypeOK, OwnerInv, [Next]_vars PROVE OwnerInv'
  OBVIOUS
<1>1. CASE Steady /\ UNCHANGED <<connVars, streamVars, hostVars>>
  BY <1>1, OwnerFrame DEF connVars, setupVars, streamVars, hostVars
<1>2. CASE LoopSteps
  <2>1. CASE ConnectionStep /\ UNCHANGED <<streamVars, hostVars>>
    BY <2>1, OwnerConnection
  <2>2. CASE (LoopEndBegin \/ LoopEndStop) /\ UNCHANGED hostVars
    <3>1. loopEnd
      BY <2>2 DEF LoopEndBegin, LoopEndStop, OwnerInv, StopStreamTaskKey, StopDemo,
                  StopLocked, Release, StopLabels
    <3>2. "disconnect" \in Labels \ StopLabels
      BY LabelSet DEF StopLabels
    <3> QED
      BY <2>2, <3>1, <3>2, OwnerCloser, ThreadsDistinct DEF LoopEndBegin, LoopEndStop, Closers
  <2> QED
    BY <1>2, <2>1, <2>2 DEF LoopSteps
<1>3. CASE (DtorBegin \/ DtorStop) /\ UNCHANGED hostVars
  <2>1. pc[Dtor] # "idle"
    BY <1>3 DEF DtorBegin, DtorStop, StopStreamTaskKey, StopDemo, StopLocked, Release
  <2>2. "remove_loop" \in Labels \ StopLabels
    BY LabelSet DEF StopLabels
  <2> QED
    BY <1>3, <2>1, <2>2, OwnerCloser, ThreadsDistinct DEF DtorBegin, DtorStop, Closers
<1>4. CASE RemoveLoop \/ Destroyed \/ RemoveModule \/ Destroy \/ EndLoopEarly
  BY <1>4, OwnerHost
<1>5. ASSUME NEW t \in Tasks, TaskSteps(t) PROVE OwnerInv'
  BY <1>5, OwnerHost, OwnerWorker, OwnerEnder DEF TaskSteps
<1>6. CASE UNCHANGED vars
  BY <1>6, OwnerFrame DEF vars, connVars, setupVars, streamVars, hostVars
<1> QED
  BY <1>1, <1>2, <1>3, <1>4, <1>5, <1>6 DEF Next, DtorSteps

\* Whatever the device does and however the threads are scheduled, a worker past
\* tryAcquireStream owns the stream until it releases it, so no two workers stream;
\* and a task that is over has not left its key behind.
THEOREM OwnershipSafe ==
    ASSUME OrderlyHost
    PROVE  Spec => [](StreamExclusive /\ OwnerAccounted)
<1>1. Init => TypeOK /\ OwnerInv
  BY TypeInit, OwnerInit
<1>2. TypeOK /\ OwnerInv /\ [Next]_vars => TypeOK' /\ OwnerInv'
  BY TypeStep, OwnerStep
<1>3. OwnerInv => StreamExclusive /\ OwnerAccounted
  BY DEF OwnerInv
<1> QED
  BY <1>1, <1>2, <1>3, PTL DEF Spec

\* The key of the stream is the key of a task that is streaming or being ended: no
\* finished task keeps it from the others.
THEOREM KeysAccounted ==
    ASSUME OrderlyHost
    PROVE  Spec => []OwnerAccounted
<1>1. Spec => [](StreamExclusive /\ OwnerAccounted)
  BY OwnershipSafe
<1> QED
  BY <1>1, PTL

(***************************************************************************)
(* The stream of the device.                                               *)
(***************************************************************************)
\* The task whose hardware stream runs through handle_.
running == IF handle = NoHandle THEN NoTask ELSE dev.session[handle]

\* A stream is only known for the handle that is open.
IdleHandles == \A h \in Handles : h # handle => dev.session[h] = NoTask

\* What a step may do to the stream: end it, start the one of a task that set it
\* up, or leave it as it was, where a stop that failed may have marked it.
StreamEffect ==
    \/ running' = NoTask
    \/ running' = running /\ dev'.analog = dev.analog /\ (dev.stuck => dev'.stuck)
    \/ \E t \in Tasks :
          SetupStarts(t) /\ running' = t /\ dev'.analog = t /\ ~dev'.stuck

\* A token in the configuration is for the life of the module, and demo_mode_,
\* once it is set, stays set.
DemoEffect == demoConfig' = demoConfig /\ demo' \in {demo, demoConfig}

Effect == IdleHandles' /\ StreamEffect /\ DemoEffect

LEMMA WithAt ==
    ASSUME NEW f \in [Handles -> TaskOrNone], NEW h \in Handles, NEW t \in TaskOrNone
    PROVE  /\ With(f, h, t) \in [Handles -> TaskOrNone]
           /\ With(f, h, t)[h] = t
           /\ \A g \in Handles : g # h => With(f, h, t)[g] = f[g]
  BY DEF With

\* The sessions of one handle changed, or none.
LEMMA SessionChange ==
    ASSUME TypeOK, IdleHandles, handle \in Handles, handle' \in {handle, NoHandle},
           NEW t \in TaskOrNone, dev'.session = With(dev.session, handle, t),
           handle' = NoHandle => t = NoTask
    PROVE  IdleHandles' /\ running' = t
<1>1. dev.session \in [Handles -> TaskOrNone]
  BY DEF TypeOK, LjmTypeOK, Device
<1>2. /\ dev'.session[handle] = t
      /\ \A g \in Handles : g # handle => dev'.session[g] = NoTask
  BY <1>1, WithAt DEF IdleHandles
<1> QED
  BY <1>2, HandlesAssumption DEF IdleHandles, running

LEMMA NoSessionChange ==
    ASSUME IdleHandles, handle' = handle, dev'.session = dev.session
    PROVE  IdleHandles' /\ running' = running
  BY DEF IdleHandles, running

LEMMA QuietEffect ==
    ASSUME IdleHandles, UNCHANGED <<dev, handle>>
    PROVE  IdleHandles' /\ StreamEffect
  BY NoSessionChange DEF StreamEffect

\* LJM_eStreamStop by any thread: the stream is over, or marked as stuck.
LEMMA StopEffect ==
    ASSUME TypeOK, IdleHandles, StopHandle, handle' = handle
    PROVE  /\ IdleHandles' /\ StreamEffect
           /\ running' = NoTask \/ dev'.stuck
<1>1. CASE handle = NoHandle
  BY <1>1, QuietEffect DEF StopHandle, running
<1>2. CASE handle # NoHandle
  <2>1. handle \in Handles /\ dev \in Device
    BY <1>2 DEF TypeOK, LjmTypeOK, HandleOrNone
  <2>2. PICK o \in StreamStop(dev, handle) : dev' = o.dev
    BY <1>2 DEF StopHandle
  <2>3. CASE Harmless(o.result)
    <3>1. dev'.session = With(dev.session, handle, NoTask)
      BY <2>1, <2>2, <2>3, StreamStopFields
    <3> QED
      BY <2>1, <3>1, SessionChange DEF StreamEffect, TaskOrNone
  <2>4. CASE ~Harmless(o.result)
    <3>1. /\ dev'.session = dev.session /\ dev'.analog = dev.analog
          /\ dev.session[handle] # NoTask => dev'.stuck
      BY <2>1, <2>2, <2>4, StreamStopFields
    <3>2. IdleHandles' /\ running' = running
      BY <3>1, NoSessionChange
    <3> QED
      BY <1>2, <3>1, <3>2 DEF StreamEffect, running
  <2> QED
    BY <2>3, <2>4
<1> QED
  BY <1>1, <1>2

\* LJM_Close by any thread.
LEMMA CloseEffect ==
    ASSUME TypeOK, IdleHandles, CloseHandle
    PROVE  IdleHandles' /\ running' = NoTask
<1>1. CASE handle = NoHandle
  BY <1>1, NoSessionChange DEF CloseHandle, running
<1>2. CASE handle # NoHandle
  <2>1. handle \in Handles /\ dev \in Device
    BY <1>2 DEF TypeOK, LjmTypeOK, HandleOrNone
  <2>2. dev' \in Close(dev, handle) /\ handle' = NoHandle
    BY <1>2 DEF CloseHandle
  <2>3. dev'.session = With(dev.session, handle, NoTask)
    BY <2>1, <2>2, CloseFields
  <2> QED
    BY <2>1, <2>2, <2>3, SessionChange DEF TaskOrNone
<1> QED
  BY <1>1, <1>2

\* LJM_OpenS: the new handle has no stream.
LEMMA OpenEffect ==
    ASSUME TypeOK, HandleInv, IdleHandles, NEW thr \in Threads, OpenHandle(thr)
    PROVE  IdleHandles' /\ running' = NoTask
<1>1. handle = NoHandle /\ dev \in Device
  BY DEF OpenHandle, HandleInv, TypeOK, LjmTypeOK
<1>2. PICK o \in Open(dev) : dev' = o.dev /\ handle' = o.handle
  BY DEF OpenHandle
<1>3. dev'.session = dev.session
  BY <1>1, <1>2, OpenFields
<1>4. handle' \in HandleOrNone
  BY <1>1, <1>2, OpenTypes
<1>5. \A h \in Handles : dev.session[h] = NoTask
  BY <1>1, HandlesAssumption DEF IdleHandles
<1> QED
  BY <1>3, <1>4, <1>5 DEF IdleHandles, running, HandleOrNone

--------------------------------------------------------------------------------

\* The procedures of the connection half, on whichever thread.
LEMMA EffectConnection ==
    ASSUME TypeOK, HandleInv, IdleHandles, NEW thr \in Threads,
           \/ Connect(thr) \/ MarkDisconnected(thr) \/ ConnectionStep
    PROVE  Effect
<1> USE ThreadsDistinct DEF Effect, DemoEffect, deviceVars, lockVars, setupVars
<1>1. ASSUME NEW u \in Threads, Connect(u) PROVE Effect
  <2>1. CASE OpenHandle(u)
    BY <2>1, OpenEffect DEF OpenHandle, StreamEffect
  <2>2. CASE ~OpenHandle(u)
    BY <1>1, <2>2, QuietEffect DEF Connect, ConnectAlready, ConnectBegin,
                                   SetConnected, PublishConnected
  <2> QED
    BY <2>1, <2>2
<1>2. CASE MarkDisconnected(thr) \/ Disconnect \/ ProbeClose
  BY <1>2, CloseEffect DEF MarkDisconnected, Disconnect, ProbeClose, StreamEffect
<1>3. CASE \/ LoopStart \/ LoopNotReady \/ LoopTop
           \/ DisconnectFlag \/ DisconnectPublish
  BY <1>3, QuietEffect DEF LoopStart, LoopNotReady, LoopTop, DisconnectFlag,
                           DisconnectPublish
<1>4. CASE VerifyConnection /\ ~ProbeClose
  BY <1>4, QuietEffect DEF VerifyConnection, VerifyDemo, ProbeNoHandle, Probe,
                           ProbeFlag, ProbePublish
<1> QED
  BY <1>1, <1>2, <1>3, <1>4 DEF ConnectionStep, VerifyConnection

LEMMA EffectStop ==
    ASSUME TypeOK, IdleHandles, NEW thr, NEW key, NEW label, NEW after,
           \/ StopStreamTaskKey(thr, key, after)
           \/ Release(thr, label, key, after)
           \/ ReadKey(thr, after)
    PROVE  Effect
<1> USE DEF Effect, DemoEffect, deviceVars, lockVars, setupVars
<1>1. CASE StopLocked(thr)
  BY <1>1, StopEffect DEF StopLocked
<1>2. CASE ~StopLocked(thr)
  BY <1>2, QuietEffect DEF StopStreamTaskKey, StopDemo, Release, ReadKey
<1> QED
  BY <1>1, <1>2

\* A start that succeeds: the stream and the settings are the worker's.
LEMMA StartEffect ==
    ASSUME TypeOK, IdleHandles, NEW t \in Tasks, SetupStarts(t)
    PROVE  IdleHandles' /\ running' = t /\ dev'.analog = t /\ ~dev'.stuck
<1>1. handle \in Handles /\ dev \in Device /\ LjmTypeOK /\ handle' = handle
  BY DEF SetupStarts, TypeOK, LjmTypeOK, HandleOrNone
<1>2. t \in TaskOrNone
  BY DEF TaskOrNone
<1>3. PICK d \in Configured(t) : \E o \in EnsureStarted(d, t) :
         o.result = "ok" /\ dev' = o.dev
  BY DEF SetupStarts
<1>4. d \in Device /\ d.session = With(dev.session, handle, NoTask) /\ d.analog = t
  BY <1>1, ConfiguredFields
<1>5. /\ dev'.session = With(d.session, handle, t)
      /\ dev'.analog = t /\ ~dev'.stuck
  BY <1>1, <1>3, <1>4, EnsureStartedFields
<1>6. dev'.session = With(dev.session, handle, t)
  BY <1>1, <1>4, <1>5 DEF With, Device
<1> QED
  BY <1>1, <1>2, <1>5, <1>6, SessionChange, HandlesAssumption

\* Configuring and starting a stream: whatever the outcome, the one that runs
\* afterwards is the worker's own, the old one after a stop that failed, or none.
LEMMA EffectSetup ==
    ASSUME TypeOK, IdleHandles, NEW t \in Tasks, Setup(t)
    PROVE  Effect
<1> USE DEF Effect, setupVars
<1>1. DemoEffect /\ handle' = handle
  BY DEF DemoEffect, Setup, SetupFails, SetupStopFails, SetupConfigFails, SetupStarts
<1>2. CASE handle = NoHandle
  <2>1. dev' = dev
    BY <1>2 DEF Setup, SetupFails, SetupStopFails, SetupConfigFails, SetupStarts
  <2> QED
    BY <1>1, <2>1, QuietEffect
<1>3. CASE handle # NoHandle
  <2>1. handle \in Handles /\ dev \in Device /\ LjmTypeOK
    BY <1>3 DEF TypeOK, LjmTypeOK, HandleOrNone
  <2>2. t \in TaskOrNone /\ NoTask \in TaskOrNone
    BY DEF TaskOrNone
  <2>3. dev.session \in [Handles -> TaskOrNone]
    BY <2>1 DEF Device
  <2>4. \A u, v \in TaskOrNone :
           With(With(dev.session, handle, u), handle, v) = With(dev.session, handle, v)
    BY <2>1, <2>3 DEF With
  <2>5. ASSUME dev'.session = With(dev.session, handle, NoTask) PROVE Effect
    BY <1>1, <2>1, <2>2, <2>5, SessionChange DEF StreamEffect
  <2>6. CASE SetupFails(t)
    <3>1. PICK d \in Configured(t) : \E o \in EnsureStarted(d, t) :
             o.result # "ok" /\ dev' = o.dev
      BY <1>3, <2>6 DEF SetupFails
    <3>2. d \in Device /\ d.session = With(dev.session, handle, NoTask)
      BY <2>1, ConfiguredFields
    <3>3. \/ dev'.session = d.session
          \/ dev'.session = With(d.session, handle, NoTask)
      BY <2>1, <3>1, <3>2, EnsureStartedFields
    <3> QED
      BY <2>2, <2>4, <2>5, <3>2, <3>3
  <2>7. CASE SetupStopFails(t)
    <3>1. StopHandle
      BY <2>7 DEF SetupStopFails, StopHandle
    <3> QED
      BY <1>1, <3>1, StopEffect
  <2>8. CASE SetupConfigFails(t)
    <3>1. PICK s \in StreamStop(dev, handle) :
             /\ Harmless(s.result)
             /\ \E c \in WriteAnalogConfig(s.dev, t) :
                   \E e \in StreamStop(c.dev, handle) : dev' = e.dev
      BY <2>8 DEF SetupConfigFails
    <3>2. s.dev \in Device /\ s.dev.session = With(dev.session, handle, NoTask)
      BY <2>1, <3>1, StreamStopFields
    <3>3. PICK c \in WriteAnalogConfig(s.dev, t) :
             \E e \in StreamStop(c.dev, handle) : dev' = e.dev
      BY <3>1
    <3>4. c.dev \in Device /\ c.dev.session = s.dev.session
      BY <3>2, WriteAnalogConfigFields
    <3>5. \/ dev'.session = c.dev.session
          \/ dev'.session = With(c.dev.session, handle, NoTask)
      BY <2>1, <3>3, <3>4, StreamStopFields
    <3> QED
      BY <2>2, <2>4, <2>5, <3>2, <3>4, <3>5
  <2>9. CASE SetupStarts(t)
    BY <1>1, <2>9, StartEffect DEF StreamEffect
  <2> QED
    BY <2>6, <2>7, <2>8, <2>9 DEF Setup
<1> QED
  BY <1>2, <1>3

LEMMA EffectWorker ==
    ASSUME TypeOK, HandleInv, IdleHandles, NEW t \in Tasks, WorkerSteps(t)
    PROVE  Effect
<1> USE ThreadsDistinct DEF deviceVars, lockVars, setupVars, Quiet
<1>1. CASE Acquire(t) \/ Parse(t) \/ LoopHead(t, stop[t]) \/ IsConnected(t)
  BY <1>1, QuietEffect DEF Acquire, Parse, LoopHead, IsConnected, Effect, DemoEffect
<1>2. CASE Setup(t)
  BY <1>2, EffectSetup
<1>3. CASE ReadDemo(t) \/ Publish(t)
  BY <1>3, QuietEffect DEF ReadDemo, Publish, Effect, DemoEffect
<1>4. CASE ReadSucceeds(t) \/ ReadFails(t)
  <2>1. dev' = dev
    <3>1. dev \in Device /\ (handle # NoHandle => handle \in Handles)
      BY DEF TypeOK, LjmTypeOK, HandleOrNone
    <3> QED
      BY <1>4, <3>1, StreamReadFields DEF ReadSucceeds, ReadFails
  <2> QED
    BY <1>4, <2>1, QuietEffect DEF ReadSucceeds, ReadFails, Effect, DemoEffect
<1>5. CASE Exit(t)
  <2>1. DemoEffect /\ handle' = handle /\ (StopHandle \/ dev' = dev)
    BY <1>5 DEF Exit, DemoEffect
  <2> QED
    BY <2>1, StopEffect, QuietEffect DEF Effect
<1>6. CASE WorkerConnection(t)
  BY <1>6, EffectConnection DEF WorkerConnection
<1>7. CASE \/ StopStreamTaskKey(Worker(t), t, "returned")
           \/ Release(Worker(t), "config_exit", t, "returned")
           \/ Release(Worker(t), "stop_exit", t, "returned")
  BY <1>7, EffectStop
<1> QED
  BY <1>1, <1>2, <1>3, <1>4, <1>5, <1>6, <1>7 DEF WorkerSteps, WorkerStep, Streaming

\* Every step of the system has one of these effects on the stream.
LEMMA EffectStep == TypeOK /\ HandleInv /\ IdleHandles /\ [Next]_vars => Effect
<1> SUFFICES ASSUME TypeOK, HandleInv, IdleHandles, [Next]_vars PROVE Effect
  OBVIOUS
<1> USE ThreadsDistinct DEF deviceVars, lockVars, setupVars, HostOnly
<1>1. CASE Steady /\ UNCHANGED <<connVars, streamVars, hostVars>>
  BY <1>1, QuietEffect DEF Steady, connVars, Effect, DemoEffect
<1>2. CASE LoopSteps
  BY <1>2, EffectConnection, EffectStop DEF LoopSteps, LoopEndBegin, LoopEndStop
<1>3. CASE (DtorBegin \/ DtorStop) /\ UNCHANGED hostVars
  BY <1>3, EffectStop DEF DtorBegin, DtorStop
<1>4. CASE RemoveLoop \/ Destroyed \/ RemoveModule \/ Destroy \/ EndLoopEarly
  BY <1>4, QuietEffect DEF RemoveLoop, Destroyed, RemoveModule, Destroy, EndLoopEarly,
                           Effect, DemoEffect
<1>5. ASSUME NEW t \in Tasks, TaskSteps(t) PROVE Effect
  <2>1. CASE StartTask(t) \/ RequestStop(t) \/ OnEnd(t) \/ TaskOver(t)
    BY <2>1, QuietEffect DEF StartTask, RequestStop, OnEnd, TaskOver, Effect, DemoEffect
  <2>2. CASE EnderCheck(t)
    BY <2>2, QuietEffect DEF EnderCheck, Effect, DemoEffect
  <2> QED
    BY <1>5, <2>1, <2>2, EffectWorker, EffectStop DEF TaskSteps, EnderSteps, EnderStep
<1>6. CASE UNCHANGED vars
  BY <1>6, QuietEffect DEF vars, connVars, Effect, DemoEffect
<1> QED
  BY <1>1, <1>2, <1>3, <1>4, <1>5, <1>6 DEF Next, DtorSteps

--------------------------------------------------------------------------------

(***************************************************************************)
(* The settings of the device go with its stream, whatever the host does.  *)
(***************************************************************************)
LEMMA ConfigStep ==
    ConfigMatchesStream /\ Effect => ConfigMatchesStream'
<1> SUFFICES ASSUME ConfigMatchesStream, Effect,
                    NEW t \in Tasks, running' = t
             PROVE  dev'.analog = t
  BY TasksAssumption DEF ConfigMatchesStream, running
<1>1. t # NoTask
  BY TasksAssumption
<1>2. CASE running' = running /\ dev'.analog = dev.analog
  <2>1. handle # NoHandle /\ dev.session[handle] = t
    BY <1>1, <1>2 DEF running
  <2> QED
    BY <1>2, <2>1 DEF ConfigMatchesStream
<1> QED
  BY <1>1, <1>2 DEF Effect, StreamEffect

\* A stream never runs with the RANGE and NEGATIVE_CH settings of another task or
\* with settings that were only partly written, also when on_end runs beside its
\* worker or the loop is ended early.
THEOREM ConfigSafe == Spec => []ConfigMatchesStream
<1>1. Init => TypeOK /\ HandleInv /\ IdleHandles /\ ConfigMatchesStream
  <2>1. Init => IdleHandles /\ ConfigMatchesStream
    BY DEF Init, LjmInit, ConnInit, IdleHandles, ConfigMatchesStream
  <2> QED
    BY <2>1, TypeInit, HandleInit
<1>2. TypeOK /\ HandleInv /\ IdleHandles /\ ConfigMatchesStream /\ [Next]_vars
         => TypeOK' /\ HandleInv' /\ IdleHandles' /\ ConfigMatchesStream'
  BY TypeStep, HandleStep, EffectStep, ConfigStep DEF Effect
<1> QED
  BY <1>1, <1>2, PTL DEF Spec

(***************************************************************************)
(* Where a worker may be while its stream runs: it believes it is started  *)
(* and will stop it, or it is about to close the handle.  It is only at    *)
(* these labels that a stream may be left to the worker, and none of them  *)
(* gives the key away.                                                     *)
(***************************************************************************)
Live(t) ==
    \/ pc[Worker(t)] = "mark"
    \/ started[t] /\ pc[Worker(t)] \in {"loop", "read", "publish", "exit"}

SessionInv ==
    /\ IdleHandles
    /\ demo => demoConfig
    /\ \A t \in Tasks : pc[Worker(t)] = "read" => started[t]
    /\ ReadsOwnStream
    /\ \A t \in Tasks : Holding(t) /\ started[t] /\ ~demo => running \in {t, NoTask}
    /\ \A t \in Tasks :
          ~demoConfig /\ running = t /\ ~dev.stuck => owner = t /\ Live(t)

LEMMA SessionInit == Init => SessionInv
<1> SUFFICES ASSUME Init PROVE SessionInv
  OBVIOUS
<1>1. handle = NoHandle /\ running = NoTask /\ ~demo
  BY DEF Init, ConnInit, running
<1>2. IdleHandles
  BY DEF Init, LjmInit, IdleHandles
<1>3. \A t \in Tasks : pc[Worker(t)] = "idle"
  BY ThreadsDistinct DEF Init
<1> QED
  BY <1>1, <1>2, <1>3, TasksAssumption DEF SessionInv, ReadsOwnStream

\* What the steps of everybody but a worker inside runStreamWorker have in common:
\* they leave those workers and their books alone, and take no key from one whose
\* stream runs.
LEMMA SessionFrame ==
    ASSUME TypeOK, SessionInv, Effect, UNCHANGED <<started, data>>,
           \A t \in Tasks : \/ pc'[Worker(t)] = pc[Worker(t)]
                            \/ ~Holding(t) /\ ~Holding(t)',
           \A t \in Tasks : owner = t /\ Live(t) => owner' = t
    PROVE  SessionInv'
<1>1. \A t \in Tasks : ~SetupStarts(t)
  BY ThreadsDistinct DEF SetupStarts, Goto, TypeOK, Holding
<1>2. \/ running' = NoTask
      \/ running' = running /\ (dev.stuck => dev'.stuck)
  BY <1>1 DEF Effect, StreamEffect
<1>3. \A t \in Tasks : /\ Live(t)' = Live(t)
                       /\ Holding(t)' = Holding(t)
  BY DEF Live, Holding
<1>4. demoConfig' = demoConfig /\ (demo => demo') /\ (demo' => demoConfig') /\ IdleHandles'
  BY DEF Effect, DemoEffect, SessionInv
<1>5. ReadsOwnStream' /\ \A t \in Tasks : pc'[Worker(t)] = "read" => started'[t]
  BY DEF SessionInv, ReadsOwnStream, Holding
<1>6. \A t \in Tasks : Holding(t)' /\ started'[t] /\ ~demo' => running' \in {t, NoTask}
  BY <1>2, <1>3, <1>4 DEF SessionInv
<1>7. \A t \in Tasks :
         ~demoConfig' /\ running' = t /\ ~dev'.stuck => owner' = t /\ Live(t)'
  BY <1>2, <1>3, <1>4, TasksAssumption DEF SessionInv
<1> QED
  BY <1>4, <1>5, <1>6, <1>7 DEF SessionInv

\* A step of a worker that owns the stream.  Nobody else is inside then, so all
\* there is to show is about the worker itself.
LEMMA SessionOwn ==
    ASSUME TypeOK, OwnerInv, SessionInv, Effect, NEW t \in Tasks, Holding(t),
           \A u \in Tasks \ {t} : /\ pc'[Worker(u)] = pc[Worker(u)]
                                  /\ started'[u] = started[u] /\ data'[u] = data[u],
           pc'[Worker(t)] = "read" => started'[t],
           pc'[Worker(t)] = "publish" => data'[t] = t,
           started'[t] /\ ~demo' => started[t] \/ running' = t,
           ~demoConfig /\ running' = t /\ ~dev'.stuck /\ (Live(t) \/ SetupStarts(t))
              => owner' = t /\ Live(t)'
    PROVE  SessionInv'
<1>1. /\ owner = t
      /\ \A u \in Tasks \ {t} : ~Holding(u) /\ ~Holding(u)' /\ ~SetupStarts(u)
  BY DEF OwnerInv, StreamExclusive, Holding, SetupStarts
<1>2. \/ running' = NoTask
      \/ running' = running /\ (dev.stuck => dev'.stuck)
      \/ SetupStarts(t) /\ running' = t
  BY <1>1 DEF Effect, StreamEffect
<1>3. demoConfig' = demoConfig /\ (demo => demo') /\ (demo' => demoConfig') /\ IdleHandles'
  BY DEF Effect, DemoEffect, SessionInv
<1>4. \A u \in Tasks : pc'[Worker(u)] = "read" => started'[u]
  BY <1>1 DEF Holding
<1>5. ReadsOwnStream'
  BY <1>1 DEF ReadsOwnStream, Holding
<1>6. \A u \in Tasks : Holding(u)' /\ started'[u] /\ ~demo' => running' \in {u, NoTask}
  BY <1>1, <1>2, <1>3 DEF SessionInv
<1>7. \A u \in Tasks :
         ~demoConfig' /\ running' = u /\ ~dev'.stuck => owner' = u /\ Live(u)'
  BY <1>1, <1>2, <1>3, TasksAssumption DEF SessionInv
<1> QED
  BY <1>3, <1>4, <1>5, <1>6, <1>7 DEF SessionInv

LEMMA SessionAcquire ==
    ASSUME TypeOK, SessionInv, Effect, NEW t \in Tasks, Acquire(t)
    PROVE  SessionInv'
<1> USE ThreadsDistinct DEF TypeOK, Goto, Quiet, deviceVars, lockVars, setupVars
<1>1. /\ running' = running /\ dev' = dev /\ UNCHANGED <<demo, demoConfig, data>>
      /\ pc[Worker(t)] = "begin" /\ pc'[Worker(t)] \in {"parse", "returned"}
      /\ ~started'[t] /\ owner' \in {owner, t} /\ (owner' # owner => owner = NoTask)
      /\ \A u \in Tasks \ {t} : /\ pc'[Worker(u)] = pc[Worker(u)]
                                /\ started'[u] = started[u]
  BY DEF Acquire, running
<1>2. ReadsOwnStream' /\ \A u \in Tasks : pc'[Worker(u)] = "read" => started'[u]
  BY <1>1 DEF SessionInv, ReadsOwnStream
<1>3. \A u \in Tasks : Holding(u)' /\ started'[u] /\ ~demo' => running' \in {u, NoTask}
  BY <1>1 DEF SessionInv, Holding
<1>4. \A u \in Tasks :
         ~demoConfig' /\ running' = u /\ ~dev'.stuck => owner' = u /\ Live(u)'
  BY <1>1, TasksAssumption DEF SessionInv, Live
<1> QED
  BY <1>1, <1>2, <1>3, <1>4 DEF SessionInv, Effect

LEMMA SessionWorker ==
    ASSUME TypeOK, OwnerInv, SessionInv, Effect, NEW t \in Tasks, WorkerSteps(t)
    PROVE  SessionInv'
<1> USE ThreadsDistinct DEF TypeOK, Goto, Quiet, deviceVars, lockVars, setupVars
<1>1. ASSUME Holding(t) PROVE owner = t
  BY <1>1 DEF OwnerInv, StreamExclusive
<1>2. ~demoConfig => ~demo
  BY DEF SessionInv
<1>3. CASE Parse(t) \/ IsConnected(t)
  BY <1>3, SessionOwn DEF Parse, IsConnected, Holding, Live, SetupStarts
<1>4. CASE LoopHead(t, stop[t])
  BY <1>1, <1>2, <1>4, SessionOwn DEF LoopHead, Holding, Live, SetupStarts
<1>5. CASE SetupFails(t) \/ SetupStopFails(t) \/ SetupConfigFails(t)
  <2>1. /\ pc[Worker(t)] = "setup" /\ UNCHANGED <<started, data>>
        /\ \E l \in {"mark", "stop_exit", "config_exit"} : pc' = [pc EXCEPT ![Worker(t)] = l]
    BY <1>5 DEF SetupFails, SetupStopFails, SetupConfigFails, streamVars
  <2> QED
    BY <2>1, SessionOwn DEF Holding, Live, SetupStarts
<1>6. CASE SetupStarts(t)
  <2>1. running' = t
    BY <1>6, StartEffect DEF SessionInv
  <2>2. /\ pc[Worker(t)] = "setup" /\ pc' = [pc EXCEPT ![Worker(t)] = "read"]
        /\ started' = [started EXCEPT ![t] = TRUE] /\ UNCHANGED <<owner, data>>
    BY <1>6 DEF SetupStarts
  <2> QED
    BY <1>1, <2>1, <2>2, SessionOwn DEF Holding, Live
<1>7. CASE ReadDemo(t) \/ Publish(t)
  BY <1>1, <1>2, <1>7, SessionOwn DEF ReadDemo, Publish, Holding, Live, SetupStarts
<1>8. CASE ReadSucceeds(t)
  <2>1. /\ pc[Worker(t)] = "read" /\ ~demo /\ handle # NoHandle
        /\ pc' = [pc EXCEPT ![Worker(t)] = "publish"] /\ UNCHANGED <<owner, started>>
        /\ data' = [data EXCEPT ![t] = running]
        /\ \E o \in StreamRead(dev, handle) : o.result = "ok"
    BY <1>8 DEF ReadSucceeds, running
  <2>2. started[t] /\ running \in {t, NoTask}
    BY <2>1 DEF SessionInv, Holding
  <2>3. running # NoTask
    BY <2>1, StreamReadFields DEF running, LjmTypeOK, HandleOrNone
  <2>4. data'[t] = t
    BY <2>1, <2>2, <2>3
  <2> QED
    BY <1>1, <2>1, <2>2, <2>4, SessionOwn DEF Holding, Live
<1>9. CASE ReadFails(t)
  BY <1>1, <1>9, SessionOwn DEF ReadFails, Holding, Live
<1>10. CASE Exit(t)
  <2>1. ~demoConfig /\ Live(t) => running' = NoTask \/ dev'.stuck
    BY <1>2, <1>10, StopEffect DEF Exit, Live, SessionInv
  <2>2. /\ pc[Worker(t)] = "exit" /\ pc' = [pc EXCEPT ![Worker(t)] = "release"]
        /\ started' = [started EXCEPT ![t] = FALSE] /\ UNCHANGED <<owner, data>>
    BY <1>10 DEF Exit
  <2>3. Holding(t) /\ ~SetupStarts(t) /\ ~started'[t]
    BY <2>2 DEF Holding, SetupStarts
  <2> QED
    BY <2>1, <2>2, <2>3, SessionOwn, TasksAssumption
<1>11. CASE WorkerConnection(t)
  <2>1. /\ pc[Worker(t)] \in ConnectLabels /\ UNCHANGED <<started, data>>
        /\ \E l \in ConnectLabels \union {"loop"} : pc' = [pc EXCEPT ![Worker(t)] = l]
    BY <1>11 DEF WorkerConnection, Connect, ConnectAlready, ConnectBegin, OpenHandle,
          SetConnected, PublishConnected, MarkDisconnected, Resume, ConnectLabels, streamVars
  <2>2. Live(t) => running' = NoTask
    BY <1>11, CloseEffect DEF WorkerConnection, Connect, ConnectAlready, ConnectBegin,
          OpenHandle, SetConnected, PublishConnected, MarkDisconnected, Live, SessionInv
  <2>3. Holding(t) /\ ~SetupStarts(t)
    BY <2>1 DEF Holding, SetupStarts, ConnectLabels
  <2>4. pc'[Worker(t)] \notin {"read", "publish"}
    BY <2>1 DEF ConnectLabels
  <2>5. \A u \in Tasks \ {t} : pc'[Worker(u)] = pc[Worker(u)]
    BY <2>1
  <2> QED
    BY <2>1, <2>2, <2>3, <2>4, <2>5, SessionOwn, TasksAssumption
<1>12. CASE \/ StopDemo(Worker(t)) \/ StopLocked(Worker(t))
            \/ \E l \in {"release", "config_exit", "stop_exit"} :
                  Release(Worker(t), l, t, "returned")
  <2>1. /\ pc[Worker(t)] \in StopLabels \union {"config_exit", "stop_exit"}
        /\ UNCHANGED <<started, data>>
        /\ \E l \in StopLabels \union {"returned"} : pc' = [pc EXCEPT ![Worker(t)] = l]
    BY <1>12 DEF StopDemo, StopLocked, Release, StopLabels, streamVars
  <2> QED
    BY <2>1, SessionOwn DEF Holding, Live, SetupStarts, StopLabels
<1> QED
  BY <1>3, <1>4, <1>5, <1>6, <1>7, <1>8, <1>9, <1>10, <1>11, <1>12, SessionAcquire
  DEF WorkerSteps, WorkerStep, Setup, Streaming, StopStreamTaskKey

LEMMA SessionStep ==
    ASSUME OrderlyHost
    PROVE  TypeOK /\ HandleInv /\ OwnerInv /\ SessionInv /\ [Next]_vars => SessionInv'
<1> SUFFICES ASSUME TypeOK, HandleInv, OwnerInv, SessionInv, [Next]_vars PROVE SessionInv'
  OBVIOUS
<1> USE ThreadsDistinct DEF TypeOK, Goto, streamVars, hostVars, HostOnly
<1>1. Effect
  BY EffectStep DEF SessionInv
<1>2. CASE Steady /\ UNCHANGED <<connVars, streamVars, hostVars>>
  BY <1>1, <1>2, SessionFrame DEF connVars
<1>3. CASE ConnectionStep /\ UNCHANGED <<streamVars, hostVars>>
  <2>1. \A t \in Tasks : pc'[Worker(t)] = pc[Worker(t)]
    BY <1>3 DEF ConnectionStep, LoopStart, LoopNotReady, LoopTop, Connect, ConnectAlready,
          ConnectBegin, OpenHandle, SetConnected, PublishConnected, VerifyConnection,
          VerifyDemo, ProbeNoHandle, Probe, ProbeFlag, ProbePublish, ProbeClose,
          Disconnect, DisconnectFlag, DisconnectPublish
  <2> QED
    BY <1>1, <1>3, <2>1, SessionFrame
<1>4. CASE (LoopEndBegin \/ LoopEndStop \/ DtorBegin \/ DtorStop) /\ UNCHANGED hostVars
  <2>1. /\ UNCHANGED <<started, data>>
        /\ \A t \in Tasks : pc'[Worker(t)] = pc[Worker(t)]
    BY <1>4 DEF LoopEndBegin, LoopEndStop, DtorBegin, DtorStop, StopStreamTaskKey,
                StopDemo, StopLocked, Release, ReadKey
  <2>2. loopEnd \/ pc[Dtor] # "idle"
    BY <1>4 DEF LoopEndBegin, LoopEndStop, DtorBegin, DtorStop, StopStreamTaskKey,
                StopDemo, StopLocked, Release, OwnerInv, StopLabels
  <2>3. \A t \in Tasks : ~Live(t)
    BY <2>2 DEF OwnerInv, InsideModule, Live
  <2> QED
    BY <1>1, <2>1, <2>3, SessionFrame
<1>5. CASE RemoveLoop \/ Destroyed \/ RemoveModule \/ Destroy \/ EndLoopEarly
  BY <1>1, <1>5, SessionFrame DEF RemoveLoop, Destroyed, RemoveModule, Destroy, EndLoopEarly
<1>6. ASSUME NEW t \in Tasks, StartTask(t) \/ RequestStop(t) \/ OnEnd(t) \/ TaskOver(t)
      PROVE  SessionInv'
  <2>1. CASE StartTask(t)
    <3>1. \A u \in Tasks : pc'[Worker(u)] = pc[Worker(u)] \/ u = t
      BY <2>1 DEF StartTask
    <3>2. pc[Worker(t)] = "idle" /\ pc'[Worker(t)] \in {"begin", "returned"}
      BY <2>1 DEF StartTask
    <3> QED
      BY <1>1, <2>1, <3>1, <3>2, SessionFrame DEF StartTask, Holding
  <2>2. CASE RequestStop(t) \/ OnEnd(t)
    BY <1>1, <2>2, SessionFrame DEF RequestStop, OnEnd
  <2>3. CASE TaskOver(t)
    BY <1>1, <2>3, SessionFrame DEF TaskOver, Holding
  <2> QED
    BY <1>6, <2>1, <2>2, <2>3
<1>7. ASSUME NEW t \in Tasks, EnderSteps(t) PROVE SessionInv'
  <2>1. /\ UNCHANGED <<started, data>> /\ (owner' = owner \/ owner = t)
        /\ pc[Ender(t)] # "idle"
        /\ \A u \in Tasks : pc'[Worker(u)] = pc[Worker(u)]
    BY <1>7 DEF EnderSteps, EnderStep, EnderCheck, StopStreamTaskKey, StopDemo,
                StopLocked, Release
  <2>2. ~Live(t)
    BY <2>1 DEF OwnerInv, Live
  <2> QED
    BY <1>1, <2>1, <2>2, SessionFrame
<1>8. ASSUME NEW t \in Tasks, TaskSteps(t) PROVE SessionInv'
  BY <1>1, <1>6, <1>7, <1>8, SessionWorker DEF TaskSteps
<1>9. CASE UNCHANGED vars
  BY <1>1, <1>9, SessionFrame DEF vars, connVars
<1> QED
  BY <1>2, <1>3, <1>4, <1>5, <1>8, <1>9 DEF Next, LoopSteps, DtorSteps

SystemInv == TypeOK /\ HandleInv /\ OwnerInv /\ SessionInv

LEMMA SystemInit == Init => SystemInv
  BY TypeInit, HandleInit, OwnerInit, SessionInit DEF SystemInv

LEMMA SystemStep ==
    ASSUME OrderlyHost
    PROVE  SystemInv /\ [Next]_vars => SystemInv'
  BY TypeStep, HandleStep, OwnerStep, SessionStep DEF SystemInv

LEMMA SystemNoOrphan == SystemInv => NoOrphanStream
  BY TasksAssumption DEF SystemInv, SessionInv, NoOrphanStream, running

\* The samples a worker publishes are from the stream it configured itself, although
\* the loop and the other workers close and reopen the handle between its setup and
\* its reads.
THEOREM ReadsSafe ==
    ASSUME OrderlyHost
    PROVE  Spec => []ReadsOwnStream
<1>1. SystemInv => ReadsOwnStream
  BY DEF SystemInv, SessionInv
<1> QED
  BY <1>1, SystemInit, SystemStep, PTL DEF Spec

\* No hardware stream runs for a task that does not own it, unless its stop failed:
\* no path through the worker, on_end, the destructor or the loop's end gives the key
\* away before the stream is stopped.
THEOREM NoOrphans ==
    ASSUME OrderlyHost
    PROVE  Spec => []NoOrphanStream
  BY SystemInit, SystemStep, SystemNoOrphan, PTL DEF Spec

(***************************************************************************)
(* The system implements StreamLease.                                      *)
(***************************************************************************)

\* The task whose stream the lease knows of.
leased == IF handle = NoHandle \/ dev.stuck \/ demoConfig
          THEN NoTask ELSE dev.session[handle]

\* What a step does to the key: nothing, a grant of the free one, or its return,
\* and the last two do nothing else.
LEMMA KeyStep ==
    ASSUME TypeOK, [Next]_vars
    PROVE  \/ owner' = owner
           \/ /\ owner = NoTask /\ owner' \in Tasks
              /\ UNCHANGED <<dev, handle, demoConfig>>
           \/ owner' = NoTask /\ UNCHANGED <<dev, handle, demoConfig>>
<1> USE DEF streamVars, hostVars, deviceVars, lockVars, setupVars, HostOnly, Quiet
<1>1. ASSUME NEW thr, NEW key, NEW label, NEW after,
             \/ StopStreamTaskKey(thr, key, after)
             \/ Release(thr, label, key, after)
             \/ ReadKey(thr, after)
      PROVE  \/ owner' = owner
             \/ owner' = NoTask /\ UNCHANGED <<dev, handle, demoConfig>>
  <2>1. CASE StopDemo(thr) \/ StopLocked(thr) \/ ReadKey(thr, after)
    BY <2>1 DEF StopDemo, StopLocked, ReadKey
  <2>2. CASE Release(thr, "release", key, after) \/ Release(thr, label, key, after)
    BY <2>2 DEF Release
  <2> QED
    BY <1>1, <2>1, <2>2 DEF StopStreamTaskKey
<1>2. CASE Steady /\ UNCHANGED <<connVars, streamVars, hostVars>>
  BY <1>2
<1>3. CASE LoopSteps
  BY <1>1, <1>3 DEF LoopSteps, LoopEndBegin, LoopEndStop
<1>4. CASE DtorSteps
  BY <1>1, <1>4 DEF DtorSteps, DtorBegin, DtorStop, RemoveLoop, Destroyed
<1>5. CASE RemoveModule \/ Destroy \/ EndLoopEarly
  BY <1>5 DEF RemoveModule, Destroy, EndLoopEarly
<1>6. ASSUME NEW t \in Tasks, TaskSteps(t)
      PROVE  \/ owner' = owner
             \/ /\ owner = NoTask /\ owner' \in Tasks
                /\ UNCHANGED <<dev, handle, demoConfig>>
             \/ owner' = NoTask /\ UNCHANGED <<dev, handle, demoConfig>>
  <2>1. CASE StartTask(t) \/ RequestStop(t) \/ OnEnd(t) \/ TaskOver(t)
    BY <2>1 DEF StartTask, RequestStop, OnEnd, TaskOver
  <2>2. CASE EnderSteps(t)
    BY <1>1, <2>2 DEF EnderSteps, EnderStep, EnderCheck
  <2>3. CASE WorkerStep(t, stop[t])
    <3>1. CASE Acquire(t)
      BY <3>1 DEF Acquire
    <3>2. CASE Parse(t) \/ LoopHead(t, stop[t]) \/ IsConnected(t) \/ WorkerConnection(t)
      BY <3>2 DEF Parse, LoopHead, IsConnected, WorkerConnection
    <3>3. CASE Setup(t) \/ Streaming(t)
      BY <3>3 DEF Setup, SetupFails, SetupStopFails, SetupConfigFails, SetupStarts,
                  Streaming, ReadDemo, ReadSucceeds, ReadFails, Publish, Exit
    <3> QED
      BY <1>1, <2>3, <3>1, <3>2, <3>3 DEF WorkerStep
  <2> QED
    BY <1>6, <2>1, <2>2, <2>3 DEF TaskSteps, WorkerSteps
<1>7. CASE UNCHANGED vars
  BY <1>7 DEF vars
<1> QED
  BY <1>2, <1>3, <1>4, <1>5, <1>6, <1>7 DEF Next

LEMMA LeaseStep ==
    ASSUME SystemInv, SystemInv', [Next]_vars
    PROVE  Lease!Next \/ UNCHANGED <<owner, leased>>
<1> USE TasksAssumption DEF leased
<1>1. ASSUME NEW t \in Tasks, leased' = t PROVE owner' = t
  BY <1>1 DEF SystemInv, SessionInv, running
<1>2. leased \in TaskOrNone
  BY DEF SystemInv, TypeOK, LjmTypeOK, Device, TaskOrNone, HandleOrNone
<1>3. CASE owner' = owner
  <2>1. demoConfig' = demoConfig /\ StreamEffect
    BY EffectStep DEF SystemInv, SessionInv, Effect, DemoEffect
  <2>2. leased' \in {leased, NoTask} \/ leased' \in Tasks
    BY <2>1 DEF StreamEffect, running
  <2>3. CASE leased' = leased
    BY <1>3, <2>3
  <2>4. CASE leased' = NoTask
    BY <1>3, <2>4 DEF Lease!Next, Lease!Halt
  <2>5. CASE leased' \in Tasks
    BY <1>1, <1>3, <2>5 DEF Lease!Next, Lease!Start
  <2> QED
    BY <2>2, <2>3, <2>4, <2>5
<1>4. CASE owner = NoTask /\ owner' \in Tasks /\ UNCHANGED <<dev, handle, demoConfig>>
  BY <1>4 DEF Lease!Next, Lease!Grant
<1>5. CASE owner' = NoTask /\ UNCHANGED <<dev, handle, demoConfig>>
  <2>1. leased' = leased
    BY <1>5
  <2>2. leased = NoTask
    BY <1>1, <1>2, <1>5, <2>1 DEF TaskOrNone
  <2> QED
    BY <1>5, <2>1, <2>2 DEF Lease!Next, Lease!Return
<1> QED
  BY <1>3, <1>4, <1>5, KeyStep DEF SystemInv

\* What the threads do to the ownership and to the device is what StreamLease allows:
\* a task is granted the stream only when nobody holds it, only the holder's stream
\* runs, and it is over before the lease is returned.
THEOREM RefinesLease ==
    ASSUME OrderlyHost
    PROVE  Spec => ImplementsLease
<1>1. Init => Lease!Init
  BY DEF Init, ConnInit, StreamInit, Lease!Init
<1>2. SystemInv /\ SystemInv' /\ [Next]_vars => [Lease!Next]_(Lease!lease)
  BY LeaseStep DEF Lease!lease, leased
<1> QED
  BY <1>1, <1>2, SystemInit, SystemStep, PTL DEF Spec, ImplementsLease, Lease!Spec

(***************************************************************************)
(* The destruction of the module under an orderly host: the destructor     *)
(* gives up the stream, joins a loop that disconnects, and leaves nothing  *)
(* behind.                                                                 *)
(***************************************************************************)
EndLabels == {"disconnect", "clear", "clear_pub", "ended"}

(***************************************************************************)
(* What each half of the teardown has done by the time the other looks.    *)
(* The destructor copies the key and clears it later, so it is only        *)
(* because nobody is left inside that the key it copied is still the       *)
(* owner's.  The loop closes the handle and then drops connected_ and      *)
(* device_connected one by one, so it is only because no worker can        *)
(* reconnect that they stay down.                                          *)
(***************************************************************************)
DtorDone ==
    /\ loopEnd <=> pc[Dtor] \in {"joining", "returned"}
    /\ pc[Dtor] \in StopLabels => owner \in {saved[Dtor], NoTask}
    /\ pc[Dtor] \in {"remove_loop", "joining", "returned"} => owner = NoTask
    /\ module = "gone" => pc[Dtor] = "returned" /\ pc[Conn] = "ended"

LoopDone ==
    /\ pc[Conn] \in EndLabels => loopEnd
    /\ pc[Conn] \in {"clear", "clear_pub", "ended"} => handle = NoHandle
    /\ pc[Conn] \in {"clear_pub", "ended"} => ~connected
    /\ pc[Conn] = "ended" => ~devConn

TeardownInv == DtorDone /\ LoopDone

LEMMA TeardownInit == Init => TeardownInv
<1> SUFFICES ASSUME Init PROVE TeardownInv
  OBVIOUS
<1>1. pc[Conn] = "start" /\ pc[Dtor] = "idle" /\ ~loopEnd /\ module = "alive"
  BY ThreadsDistinct DEF Init, ConnInit
<1> QED
  BY <1>1 DEF TeardownInv, DtorDone, LoopDone, EndLabels, StopLabels

\* As long as somebody is inside the module, its teardown has not begun.
LEMMA TeardownInside ==
    ASSUME TypeOK, OwnerInv, TeardownInv, NEW t \in Tasks, InsideModule(t)
    PROVE  /\ pc[Dtor] = "idle" /\ ~loopEnd
           /\ module \in {"alive", "removed"}
           /\ pc[Conn] \notin EndLabels
  BY DEF TypeOK, OwnerInv, TeardownInv, LoopDone

\* A step that neither moves the destructor nor ends the loop, before the teardown.
LEMMA TeardownBefore ==
    ASSUME pc[Dtor] = "idle", ~loopEnd, module' \in {"alive", "removed"},
           pc[Conn] \notin EndLabels,
           pc'[Dtor] = pc[Dtor], pc'[Conn] = pc[Conn], loopEnd' = loopEnd
    PROVE  TeardownInv'
  BY DEF TeardownInv, DtorDone, LoopDone, StopLabels, EndLabels

\* A step that leaves both halves of the teardown alone.
LEMMA TeardownFrame ==
    ASSUME TeardownInv, pc'[Dtor] = pc[Dtor], pc'[Conn] = pc[Conn],
           UNCHANGED <<loopEnd, module, owner, saved, handle, connected, devConn>>
    PROVE  TeardownInv'
  BY DEF TeardownInv, DtorDone, LoopDone

LEMMA TeardownTask ==
    ASSUME TypeOK, OwnerInv, TeardownInv, OrderlyHost, NEW t \in Tasks, TaskSteps(t)
    PROVE  TeardownInv'
<1> USE ThreadsDistinct
    DEF TypeOK, Goto, HostOnly, lockVars, flagVars, setupVars, streamVars, hostVars
<1>1. CASE StartTask(t) \/ RequestStop(t) \/ OnEnd(t) \/ TaskOver(t)
  BY <1>1, TeardownFrame DEF StartTask, RequestStop, OnEnd, TaskOver
<1>2. CASE WorkerSteps(t) \/ EnderSteps(t)
  <2>1. /\ UNCHANGED <<loopEnd, module>>
        /\ pc'[Dtor] = pc[Dtor] /\ pc'[Conn] = pc[Conn]
    <3>1. CASE EnderSteps(t)
      BY <3>1 DEF EnderSteps, EnderStep, EnderCheck, StopStreamTaskKey, StopDemo,
                  StopLocked, Release
    <3>2. CASE WorkerStep(t, stop[t]) /\ UNCHANGED hostVars
      <4>1. CASE Acquire(t) \/ Parse(t) \/ LoopHead(t, stop[t]) \/ IsConnected(t)
        BY <3>2, <4>1 DEF Acquire, Parse, LoopHead, IsConnected, Quiet
      <4>2. CASE Setup(t) \/ Streaming(t)
        BY <3>2, <4>2 DEF Setup, SetupFails, SetupStopFails, SetupConfigFails,
              SetupStarts, Streaming, ReadDemo, ReadSucceeds, ReadFails, Publish,
              Exit, Quiet
      <4>3. CASE WorkerConnection(t)
        BY <3>2, <4>3 DEF WorkerConnection, Connect, ConnectAlready, ConnectBegin,
              OpenHandle, SetConnected, PublishConnected, MarkDisconnected
      <4>4. CASE \/ StopStreamTaskKey(Worker(t), t, "returned")
                 \/ Release(Worker(t), "config_exit", t, "returned")
                 \/ Release(Worker(t), "stop_exit", t, "returned")
        BY <3>2, <4>4 DEF StopStreamTaskKey, StopDemo, StopLocked, Release
      <4> QED
        BY <3>2, <4>1, <4>2, <4>3, <4>4 DEF WorkerStep
    <3> QED
      BY <1>2, <3>1, <3>2 DEF WorkerSteps
  <2>2. InsideModule(t)
    <3>1. CASE EnderSteps(t)
      BY <3>1 DEF EnderSteps, EnderStep, EnderCheck, StopStreamTaskKey, StopDemo,
                  StopLocked, Release, InsideModule
    <3>2. CASE WorkerSteps(t)
      BY <3>2 DEF WorkerSteps, WorkerStep, Acquire, Parse, LoopHead, IsConnected,
            Setup, SetupFails, SetupStopFails, SetupConfigFails, SetupStarts,
            Streaming, ReadDemo, ReadSucceeds, ReadFails, Publish, Exit,
            WorkerConnection, Connect, ConnectAlready, ConnectBegin, OpenHandle,
            SetConnected, PublishConnected, MarkDisconnected, StopStreamTaskKey,
            StopDemo, StopLocked, Release, InsideModule
    <3> QED
      BY <1>2, <3>1, <3>2
  <2>3. /\ pc[Dtor] = "idle" /\ ~loopEnd
        /\ module \in {"alive", "removed"} /\ pc[Conn] \notin EndLabels
    BY <2>2, TeardownInside
  <2> QED
    BY <2>1, <2>3, TeardownBefore
<1> QED
  BY <1>1, <1>2 DEF TaskSteps

\* One pass of the connection loop, and disconnect.  A pass may finish after the
\* destructor asked the loop to end; it moves nothing disconnect does not undo.
LEMMA TeardownConnection ==
    ASSUME TypeOK, OwnerInv, TeardownInv,
           ConnectionStep, UNCHANGED <<streamVars, hostVars>>
    PROVE  TeardownInv'
<1> USE ThreadsDistinct
    DEF TypeOK, Goto, Resume, Locked, InOneStep, lockVars, flagVars, setupVars,
        streamVars, hostVars
<1>1. CASE Disconnect
  <2>1. /\ pc[Conn] = "disconnect" /\ pc' = [pc EXCEPT ![Conn] = "clear"]
        /\ handle' = NoHandle /\ loopEnd' = loopEnd
    BY <1>1 DEF Disconnect, CloseHandle
  <2> QED
    BY <2>1 DEF TeardownInv, DtorDone, LoopDone, EndLabels
<1>2. CASE DisconnectFlag \/ DisconnectPublish
  BY <1>2 DEF DisconnectFlag, DisconnectPublish, TeardownInv, DtorDone, LoopDone, EndLabels
<1>3. CASE \/ LoopStart \/ LoopNotReady \/ LoopTop
           \/ Connect(Conn) \/ VerifyConnection
  <2>1. /\ loopEnd' = loopEnd
        /\ pc[Conn] \notin EndLabels
        /\ \E l \in LoopLabels \ EndLabels : pc' = [pc EXCEPT ![Conn] = l]
    <3>1. CASE Connect(Conn)
      BY <3>1 DEF Connect, ConnectAlready, ConnectBegin, OpenHandle, SetConnected,
                  PublishConnected, EndLabels, LoopLabels, ConnectLabels
    <3>2. CASE LoopStart \/ LoopTop
      BY <3>2 DEF LoopStart, LoopTop, EndLabels, LoopLabels, ConnectLabels
    <3>3. CASE LoopNotReady
      <4>1. pc[Conn] = "top" /\ pc' = [pc EXCEPT ![Conn] = "top"] /\ loopEnd' = loopEnd
        BY <3>3 DEF LoopNotReady
      <4> QED
        BY <4>1 DEF EndLabels, LoopLabels
    <3>4. CASE VerifyConnection
      BY <3>4 DEF VerifyConnection, VerifyDemo, ProbeNoHandle, Probe, ProbeFlag,
                  ProbePublish, ProbeClose, EndLabels, LoopLabels, ConnectLabels
    <3> QED
      BY <1>3, <3>1, <3>2, <3>3, <3>4
  <2>2. pc'[Dtor] = pc[Dtor] /\ pc'[Conn] \notin EndLabels
    BY <2>1
  <2> QED
    BY <2>1, <2>2 DEF TeardownInv, DtorDone, LoopDone, EndLabels
<1> QED
  BY <1>1, <1>2, <1>3 DEF ConnectionStep

\* stopStream() at the end of the loop, when the destructor is past its own.
LEMMA TeardownLoopEnd ==
    ASSUME TypeOK, OwnerInv, TeardownInv, LoopEndBegin \/ LoopEndStop, UNCHANGED hostVars
    PROVE  TeardownInv'
<1> USE ThreadsDistinct
    DEF TypeOK, Closers, Goto, lockVars, flagVars, setupVars, streamVars, hostVars
<1>1. loopEnd /\ pc[Conn] \in StopLabels \union {"top"}
  BY DEF LoopEndBegin, LoopEndStop, StopStreamTaskKey, StopDemo, StopLocked, Release,
         OwnerInv, StopLabels
<1>2. \E l \in StopLabels \union {"disconnect"} : pc' = [pc EXCEPT ![Conn] = l]
  BY DEF LoopEndBegin, LoopEndStop, StopStreamTaskKey, StopDemo, StopLocked, Release,
         ReadKey, StopLabels
<1>3. UNCHANGED <<loopEnd, module>> /\ owner' \in {owner, NoTask}
  BY DEF LoopEndBegin, LoopEndStop, StopStreamTaskKey, StopDemo, StopLocked, Release, ReadKey
<1>4. pc[Dtor] \in {"joining", "returned"} /\ module # "gone"
  BY <1>1 DEF TeardownInv, DtorDone, StopLabels
<1> QED
  BY <1>1, <1>2, <1>3, <1>4 DEF TeardownInv, DtorDone, LoopDone, EndLabels, StopLabels

LEMMA TeardownDtor ==
    ASSUME TypeOK, OwnerInv, TeardownInv, DtorSteps \/ Destroy
    PROVE  TeardownInv'
<1> USE ThreadsDistinct
    DEF TypeOK, Closers, Goto, HostOnly, lockVars, flagVars, setupVars, streamVars, hostVars
<1>1. ASSUME NEW l, pc' = [pc EXCEPT ![Dtor] = l],
             UNCHANGED <<loopEnd, handle, connected, devConn>>
      PROVE  LoopDone'
  BY <1>1 DEF TeardownInv, LoopDone
<1>2. CASE DtorBegin /\ UNCHANGED hostVars
  BY <1>1, <1>2 DEF DtorBegin, ReadKey, TeardownInv, DtorDone, StopLabels
<1>3. CASE DtorStop /\ UNCHANGED hostVars
  <2>1. CASE StopDemo(Dtor) \/ StopLocked(Dtor)
    BY <1>1, <1>3, <2>1 DEF StopDemo, StopLocked, TeardownInv, DtorDone, StopLabels
  <2>2. CASE Release(Dtor, "release", saved[Dtor], "remove_loop")
    <3>1. owner' = NoTask
      BY <2>2 DEF Release, TeardownInv, DtorDone, StopLabels
    <3> QED
      BY <1>1, <1>3, <2>2, <3>1 DEF Release, TeardownInv, DtorDone, StopLabels
  <2> QED
    BY <1>3, <2>1, <2>2 DEF DtorStop, StopStreamTaskKey
<1>4. CASE RemoveLoop
  BY <1>4 DEF RemoveLoop, TeardownInv, DtorDone, LoopDone, StopLabels
<1>5. CASE Destroyed
  BY <1>1, <1>5 DEF Destroyed, TeardownInv, DtorDone, StopLabels
<1>6. CASE Destroy
  <2>1. pc[Dtor] = "idle" /\ ~loopEnd
    BY <1>6 DEF Destroy, OwnerInv
  <2> QED
    BY <1>1, <1>6, <2>1 DEF Destroy, TeardownInv, DtorDone, StopLabels
<1> QED
  BY <1>2, <1>3, <1>4, <1>5, <1>6 DEF DtorSteps

LEMMA TeardownStep ==
    ASSUME OrderlyHost
    PROVE  TypeOK /\ OwnerInv /\ TeardownInv /\ [Next]_vars => TeardownInv'
<1> SUFFICES ASSUME TypeOK, OwnerInv, TeardownInv, [Next]_vars PROVE TeardownInv'
  OBVIOUS
<1> USE DEF lockVars, flagVars, setupVars, streamVars, hostVars
<1>1. CASE Steady /\ UNCHANGED <<connVars, streamVars, hostVars>>
  BY <1>1, TeardownFrame DEF connVars
<1>2. CASE LoopSteps
  BY <1>2, TeardownConnection, TeardownLoopEnd DEF LoopSteps
<1>3. CASE DtorSteps \/ Destroy
  BY <1>3, TeardownDtor
<1>4. CASE RemoveModule
  <2>1. /\ pc[Dtor] = "idle" /\ ~loopEnd /\ module' = "removed"
        /\ UNCHANGED <<pc, loopEnd>>
    BY <1>4 DEF RemoveModule, OwnerInv
  <2>2. pc[Conn] \notin EndLabels
    BY <2>1 DEF TeardownInv, LoopDone
  <2> QED
    BY <2>1, <2>2, TeardownBefore
<1>5. CASE EndLoopEarly
  BY <1>5 DEF EndLoopEarly, OrderlyHost
<1>6. ASSUME NEW t \in Tasks, TaskSteps(t) PROVE TeardownInv'
  BY <1>6, TeardownTask
<1>7. CASE UNCHANGED vars
  BY <1>7, TeardownFrame DEF vars, connVars
<1> QED
  BY <1>1, <1>2, <1>3, <1>4, <1>5, <1>6, <1>7 DEF Next

\* Once the destructor returned nothing is left behind, whatever the device did and
\* whichever threads ran beside it: no open handle, no lock held, no owner, and the
\* host sees the device as disconnected.
THEOREM TeardownSafe ==
    ASSUME OrderlyHost
    PROVE  Spec => []SafeTeardown
<1>1. Init => TypeOK /\ HandleInv /\ OwnerInv /\ TeardownInv
  BY TypeInit, HandleInit, OwnerInit, TeardownInit
<1>2. TypeOK /\ HandleInv /\ OwnerInv /\ TeardownInv /\ [Next]_vars
         => TypeOK' /\ HandleInv' /\ OwnerInv' /\ TeardownInv'
  BY TypeStep, HandleStep, OwnerStep, TeardownStep
<1>3. TypeOK /\ HandleInv /\ OwnerInv /\ TeardownInv => SafeTeardown
  <2> SUFFICES ASSUME TypeOK, HandleInv, OwnerInv, TeardownInv, module = "gone"
               PROVE  /\ dev.opened = {} /\ mutex = NoThread /\ owner = NoTask
                      /\ ~connected /\ ~devConn
    BY DEF SafeTeardown
  <2>1. pc[Dtor] = "returned" /\ pc[Conn] = "ended" /\ owner = NoTask
    BY DEF TeardownInv, DtorDone
  <2>2. handle = NoHandle /\ ~connected /\ ~devConn
    BY <2>1 DEF TeardownInv, LoopDone
  <2>3. dev.opened = {}
    BY <2>2 DEF HandleInv, NoHandleLeak
  <2>4. \A t \in Tasks : /\ pc[Worker(t)] \in {"idle", "returned"}
                         /\ pc[Ender(t)] \in {"idle", "done"}
    BY DEF OwnerInv, InsideModule
  <2>5. \A thr \in Threads : pc[thr] \notin LockedLabels
    BY <2>1, <2>4 DEF Threads, Workers, Enders, LockedLabels
  <2>6. mutex = NoThread
    BY <2>5 DEF TypeOK, HandleInv, LockDiscipline
  <2> QED
    BY <2>1, <2>2, <2>3, <2>6
<1> QED
  BY <1>1, <1>2, <1>3, PTL DEF Spec
================================================================================
