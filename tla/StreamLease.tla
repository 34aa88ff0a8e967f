------------------------------ MODULE StreamLease ------------------------------
(***************************************************************************)
(* What the controller promises about the one hardware stream of a T7      *)
(* (README.md of the plugin, "Only one stream task can own the LabJack     *)
(* hardware stream at a time"): a task is granted the stream only when     *)
(* nobody holds it, only the holder's stream runs, and the stream is over  *)
(* before the lease is returned.                                           *)
(***************************************************************************)
CONSTANTS Tasks, NoTask

VARIABLES
    holder,     \* the task that owns the hardware stream
    streamer    \* the task whose stream runs

lease == <<holder, streamer>>

Init == holder = NoTask /\ streamer = NoTask

Grant(t) ==
    /\ holder = NoTask
    /\ holder' = t
    /\ UNCHANGED streamer

Start(t) ==
    /\ holder = t
    /\ streamer' = t
    /\ UNCHANGED holder

\* The stream is stopped, lost with the connection, or given up after a stop
\* that failed was reported.
Halt ==
    /\ streamer' = NoTask
    /\ UNCHANGED holder

Return ==
    /\ streamer = NoTask
    /\ holder' = NoTask
    /\ UNCHANGED streamer

Next ==
    \/ \E t \in Tasks : Grant(t) \/ Start(t)
    \/ Halt
    \/ Return

Spec == Init /\ [][Next]_lease
================================================================================
