------------------------------- MODULE LjmDevice -------------------------------
(***************************************************************************)
(* The LabJack LJM library and the T7 behind it, as the plugin's           *)
(* controller uses them.  LJM is external code: what it may answer is read *)
(* off the calls the controller makes and the errors it tells apart        *)
(* (labjack_t7_controller.cpp).                                            *)
(*                                                                         *)
(* Every LJM call is one operator that returns the set of its possible     *)
(* outcomes, each a result together with the device it leaves behind.      *)
(***************************************************************************)
EXTENDS FiniteSets

CONSTANTS
    Tasks,      \* stream tasks of one module instance
    NoTask,     \* the empty active_stream_task_key_
    Handles,    \* values LJM_OpenS may return
    NoHandle    \* the controller's -1

ASSUME TasksAssumption == NoTask \notin Tasks
ASSUME HandlesAssumption == NoHandle \notin Handles

VARIABLES
    dev,        \* what LJM and the device know, see Device
    steady      \* the device stays reachable from here on: no call fails

deviceVars == <<dev, steady>>

TaskOrNone == Tasks \union {NoTask}
HandleOrNone == Handles \union {NoHandle}

(***************************************************************************)
(* opened:  handles opened and not closed.                                 *)
(* session: whose stream was started through the handle and not ended.     *)
(* foreign: the device streams, but for no open handle (a stream left by   *)
(*          an earlier process, or by a handle closed without a stop).     *)
(* analog:  whose RANGE and NEGATIVE_CH settings the device holds.         *)
(* stuck:   the last LJM_eStreamStop failed and left a stream as it was.   *)
(***************************************************************************)
Device ==
    [opened: SUBSET Handles, session: [Handles -> TaskOrNone],
     foreign: BOOLEAN, analog: TaskOrNone, stuck: BOOLEAN]

LjmTypeOK == dev \in Device /\ steady \in BOOLEAN

LjmInit ==
    /\ dev \in [opened: {{}}, session: {[h \in Handles |-> NoTask]},
                foreign: BOOLEAN, analog: {NoTask}, stuck: {FALSE}]
    /\ steady = FALSE

Outcome(result, d) == [result |-> result, dev |-> d]

\* A call that may also fail, as long as the device is not steady.
MayFail(good, bad) == IF steady THEN good ELSE good \union bad

\* The stream started through h, if any, is over.
Ended(d, h) == [d EXCEPT !.session[h] = NoTask, !.stuck = FALSE]

\* LJM_eStreamStop(h): it also ends a foreign stream; what it cannot end it
\* leaves running.
StreamStop(d, h) ==
    MayFail({Outcome("ok", [Ended(d, h) EXCEPT !.foreign = FALSE])},
            {Outcome("not_running", Ended(d, h)),
             Outcome("error", [d EXCEPT !.stuck = (d.session[h] # NoTask)])})

\* The writes of one task's RANGE and NEGATIVE_CH registers; one that fails
\* leaves the device with neither the old nor the new settings.
WriteAnalogConfig(d, t) ==
    MayFail({Outcome("ok", [d EXCEPT !.analog = t])},
            {Outcome("error", [d EXCEPT !.analog = NoTask])})

\* LJM_eStreamStart(h) with the scan list of task t.
StreamStart(d, h, t) ==
    IF d.foreign \/ d.session[h] # NoTask
    THEN MayFail({Outcome("active", d)}, {Outcome("error", d)})
    ELSE MayFail({Outcome("ok", [d EXCEPT !.session[h] = t, !.stuck = FALSE])},
                 {Outcome("error", d)})

\* LJM_eStreamRead(h): samples of the stream started through h, or an error.
StreamRead(d, h) ==
    IF d.session[h] = NoTask
    THEN {Outcome("error", d)}
    ELSE MayFail({Outcome("ok", d)}, {Outcome("error", d)})

\* LJM_eReadName(h, "SERIAL_NUMBER").
ReadSerialNumber(d) == MayFail({Outcome("ok", d)}, {Outcome("error", d)})

\* LJM_OpenS: a handle that is not open yet; the device may have been power
\* cycled in the meantime and have lost its settings.
Opened(d, h, a) ==
    [result |-> "ok", handle |-> h,
     dev |-> [d EXCEPT !.opened = @ \union {h}, !.analog = a]]

Open(d) ==
    MayFail(UNION {{Opened(d, h, a) : a \in {d.analog, NoTask}} : h \in Handles \ d.opened},
            {[result |-> "error", handle |-> NoHandle, dev |-> d]})

\* LJM_Close(h): the stream of h is lost to the program and may survive it.
Close(d, h) ==
    {[Ended(d, h) EXCEPT !.opened = @ \ {h}, !.foreign = f] :
        f \in {d.foreign, d.foreign \/ d.session[h] # NoTask}}

\* The environment: from here on the device is powered, plugged in and
\* reachable.
Steady ==
    /\ ~steady
    /\ steady' = TRUE
    /\ dev' = dev
================================================================================
