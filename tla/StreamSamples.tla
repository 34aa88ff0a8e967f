----------------------------- MODULE StreamSamples -----------------------------
(***************************************************************************)
(* What one stream worker makes of the samples it reads: the scan rate it  *)
(* asks for and the one it was given, the timestamps it computes, and the  *)
(* bulk writes to the mapped channels (runStreamWorker).  Before that come *)
(* its mappings (MappingConfig).  T7Stream has the worker among the other  *)
(* threads; here it is alone with the clock, and a read may fail at any    *)
(* time.                                                                   *)
(*                                                                         *)
(* Time is counted in ticks.  A rate of r scans per second is kept as the  *)
(* period 1/r, so that scan_number / scan_rate is scan_number * period.    *)
(***************************************************************************)
EXTENDS MappingConfig

CONSTANTS
    Mappings,       \* the destination channel of each mapping, in order
    ScansPerRead,   \* scans_per_read
    Target,         \* the period of target_scan_rate
    Latency,        \* LJM_eStreamStart returns at most this long after the start
    Pause,          \* the sleep of a second after an error
    MaxClock,       \* bound: the clock stops here
    MaxPeriod       \* bound: the slowest rate LJM accepts

ASSUME SamplesAssumption ==
    /\ Mappings \in Seq(STRING) /\ Mappings # <<>>
    /\ ScansPerRead \in Nat \ {0}
    /\ MaxPeriod \in Nat \ {0}
    /\ Target \in 1..MaxPeriod
    /\ Latency \in Nat
    /\ Pause \in Nat
    /\ MaxClock \in Nat

VARIABLES
    clock,          \* the time
    demo_mode,      \* demo_mode_, which does not change under a connected worker
    at,             \* where the worker is
    since,          \* when it came there
    scan_rate,      \* scan_rate, as a period
    stream_start,   \* stream_start
    read_number,    \* read_number
    data,           \* the buffer of one read
    scan_index,     \* the loops over its samples; mappings count from 1
    mapping_index,
    grouped,        \* grouped, by channel
    device,         \* the stream of the T7, see Streaming
    written         \* what was written to each channel so far, in order

stream == <<scan_rate, stream_start, read_number>>
loops == <<scan_index, mapping_index, grouped>>
worker == <<at, since, stream, data, loops>>
sampleVars == <<clock, demo_mode, worker, device, written>>
vars == <<mappingVars, sampleVars>>

Channels == {Mappings[m] : m \in DOMAIN Mappings}
Scans == 0..ScansPerRead - 1

\* session counts the streams started, start and period are those of the last one,
\* next is its first scan that was not handed out yet.
Streaming == [session: Nat, start: Nat, period: 1..MaxPeriod, next: Nat]

Samples ==
    [session: Nat, scan: Nat, mapping: DOMAIN Mappings, taken: Nat]
Stamped == [value: Samples, stamp: Int]
Nothing == [c \in Channels |-> <<>>]

TypeOK ==
    /\ MappingTypeOK
    /\ clock \in 0..MaxClock
    /\ demo_mode \in BOOLEAN
    /\ at \in {"config", "start", "starting", "read", "publish", "pause"}
    /\ since \in 0..MaxClock
    /\ scan_rate \in 1..MaxPeriod
    /\ stream_start \in 0..MaxClock
    /\ read_number \in Nat
    /\ data \in Seq(Samples)
    /\ scan_index \in 0..ScansPerRead
    /\ mapping_index \in DOMAIN Mappings
    /\ grouped \in [Channels -> Seq(Stamped)]
    /\ device \in Streaming
    /\ written \in [Channels -> Seq(Stamped)]

Init ==
    /\ MappingInit
    /\ clock = 0
    /\ demo_mode \in BOOLEAN
    /\ at = "config"
    /\ since = 0
    /\ scan_rate = Target
    /\ stream_start = 0
    /\ read_number = 0
    /\ data = <<>>
    /\ scan_index = 0 /\ mapping_index = 1 /\ grouped = Nothing
    /\ device = [session |-> 0, start |-> 0, period |-> Target, next |-> 0]
    /\ written = Nothing

Goto(label) == at' = label /\ since' = clock

--------------------------------------------------------------------------------
\* In demo mode the mappings are parsed and no register is written.
Configure ==
    /\ at = "config"
    /\ demo_mode => phase = "parse"
    /\ MappingNext

\* The worker has parsed its mappings and, but for demo mode, written their
\* registers.  The lists are of no consequence from here on: Mappings has the
\* destinations.
Accept ==
    /\ at = "config"
    /\ phase = IF demo_mode THEN "range" ELSE "applied"
    /\ Goto("start")
    /\ arguments' = <<>> /\ resolved' = <<>> /\ known' = [i \in {} |-> 0]
    /\ next' = 1 /\ errors' = {} /\ phase' = "parse" /\ position' = 1
    /\ settings' = [i \in DOMAIN settings |-> [negative |-> GND, range |-> "10"]]
    /\ UNCHANGED <<clock, demo_mode, stream, data, loops, device, written>>

\* LJM_eStreamStart returns in time; everything else may take as long as it likes.
Tick ==
    /\ at # "config"
    /\ clock < MaxClock
    /\ at = "starting" => clock < since + Latency
    /\ clock' = clock + 1
    /\ UNCHANGED <<demo_mode, worker, device, written>>

\* LJM_eStreamStart starts the stream with a rate near the requested one.
Accepted(period) == {period, period + 1} \intersect 1..MaxPeriod

StartStream ==
    /\ at = "start"
    /\ ~demo_mode
    /\ \E period \in Accepted(scan_rate) :
          device' = [session |-> device.session + 1, start |-> clock,
                     period |-> period, next |-> 0]
    /\ Goto("starting")
    /\ UNCHANGED <<clock, demo_mode, stream, data, loops, written>>

\* Faulty: stream_start is only set when the task starts.
StartedOnce ==
    /\ at = "starting"
    /\ scan_rate' = device.period
    /\ stream_start' = IF device.session = 1 THEN clock ELSE stream_start
    /\ read_number' = 0
    /\ Goto("read")
    /\ UNCHANGED <<clock, demo_mode, data, loops, device, written>>

\* Faulty: the timestamps are computed with the rate that was asked for.
StartedAtRequestedRate ==
    /\ at = "starting"
    /\ stream_start' = clock
    /\ read_number' = 0
    /\ Goto("read")
    /\ UNCHANGED <<clock, demo_mode, scan_rate, data, loops, device, written>>

\* LJM_eStreamStart has returned with the rate it accepted.
Started ==
    /\ at = "starting"
    /\ scan_rate' = device.period
    /\ stream_start' = clock
    /\ read_number' = 0
    /\ Goto("read")
    /\ UNCHANGED <<clock, demo_mode, data, loops, device, written>>

\* In demo mode there is no stream, only a start time.
StartedDemo ==
    /\ at = "start"
    /\ demo_mode
    /\ device' = [session |-> device.session + 1, start |-> clock,
                  period |-> scan_rate, next |-> 0]
    /\ stream_start' = clock
    /\ read_number' = 0
    /\ Goto("read")
    /\ UNCHANGED <<clock, demo_mode, scan_rate, data, loops, written>>

--------------------------------------------------------------------------------
\* Faulty: the buffer is taken for one mapping after the other.
DataIndexByMapping(scan, mapping) == (mapping - 1) * ScansPerRead + scan + 1

\* The buffer holds scan after scan, in each scan the mappings in order.
DataIndex(scan, mapping) == scan * Len(Mappings) + mapping

\* The scan and the mapping of the i-th sample the device sends.
ScanOf(i) == (i - 1) \div Len(Mappings)
MappingOf(i) == ((i - 1) % Len(Mappings)) + 1
Places == 1..ScansPerRead * Len(Mappings)

\* LJM_eStreamRead waits for its scans; so does the sleep of demo mode.
BlockReady == clock >= device.start + (device.next + ScansPerRead) * device.period

Block ==
    [i \in Places |->
        [session |-> device.session, scan |-> device.next + ScanOf(i), mapping |-> MappingOf(i),
         taken |-> device.start + (device.next + ScanOf(i)) * device.period]]

Read ==
    /\ at = "read"
    /\ BlockReady
    /\ data' = Block
    /\ device' = [device EXCEPT !.next = @ + ScansPerRead]
    /\ read_number' = read_number + 1
    /\ Goto("publish")
    /\ UNCHANGED <<clock, demo_mode, scan_rate, stream_start, loops, written>>

\* The read fails and the device is marked disconnected.
ReadFails ==
    /\ at = "read"
    /\ ~demo_mode
    /\ Goto("pause")
    /\ UNCHANGED <<clock, demo_mode, stream, data, loops, device, written>>

\* A second later the worker tries again.
Retry ==
    /\ at = "pause"
    /\ clock >= since + Pause
    /\ Goto("start")
    /\ UNCHANGED <<clock, demo_mode, stream, data, loops, device, written>>

--------------------------------------------------------------------------------
\* The timestamp of a scan of the n-th read.
ScanNumber(n, scan) == Narrow(Narrow((n - 1) * ScansPerRead) + scan)
Timestamp(n, scan) == stream_start + ScanNumber(n, scan) * scan_rate

Destination == Mappings[mapping_index]
NextSample ==
    [value |-> data[DataIndex(scan_index, mapping_index)],
     stamp |-> Timestamp(read_number, scan_index)]

\* The inner loop: one sample goes to the channel of its mapping.
Group ==
    /\ at = "publish"
    /\ scan_index < ScansPerRead
    /\ grouped' = [grouped EXCEPT ![Destination] = Append(@, NextSample)]
    /\ IF mapping_index < Len(Mappings)
       THEN mapping_index' = mapping_index + 1 /\ UNCHANGED scan_index
       ELSE mapping_index' = 1 /\ scan_index' = scan_index + 1
    /\ UNCHANGED <<clock, demo_mode, at, since, stream, data, device, written>>

\* The bulk writes; then the loop over the reads begins anew.
Publish ==
    /\ at = "publish"
    /\ scan_index = ScansPerRead
    /\ written' = [c \in Channels |-> written[c] \o grouped[c]]
    /\ data' = <<>>
    /\ scan_index' = 0 /\ mapping_index' = 1 /\ grouped' = Nothing
    /\ Goto("read")
    /\ UNCHANGED <<clock, demo_mode, stream, device>>

SampleSteps ==
    \/ Tick
    \/ StartStream \/ Started \/ StartedDemo
    \/ Read \/ ReadFails \/ Retry
    \/ Group \/ Publish

Next ==
    \/ Configure /\ UNCHANGED sampleVars
    \/ Accept
    \/ SampleSteps /\ UNCHANGED mappingVars

Spec == Init /\ [][Next]_vars

--------------------------------------------------------------------------------
(***************************************************************************)
(* Properties.                                                             *)
(***************************************************************************)

\* Two samples of one channel, the second written after the first, are stamped in
\* that order and only those of one scan alike, also across a reconnect.
StampsIncrease ==
    \A c \in Channels : \A i, j \in DOMAIN written[c] :
        i < j =>
            LET a == written[c][i] b == written[c][j]
            IN  IF a.value.session = b.value.session /\ a.value.scan = b.value.scan
                THEN a.stamp = b.stamp
                ELSE a.stamp < b.stamp

\* A timestamp is off by no more than the time LJM_eStreamStart took, however long
\* the stream runs and whatever rate was accepted.
StampsAccurate ==
    \A c \in Channels : \A i \in DOMAIN written[c] :
        written[c][i].stamp - written[c][i].value.taken \in 0..Latency

\* The samples of mapping m of a session in its channel, by their places there.
PlacesOf(session, m) ==
    {i \in DOMAIN written[Mappings[m]] :
        /\ written[Mappings[m]][i].value.session = session
        /\ written[Mappings[m]][i].value.mapping = m}

ScanAt(m, i) == written[Mappings[m]][i].value.scan

\* The scans that were handed out and are not written yet.
Unpublished == IF at = "publish" THEN ScansPerRead ELSE 0

\* Every sample the device handed out is written once, to the channel of its
\* mapping and to no other, in the order it was taken, whichever mappings share a
\* channel; none is left out, neither at the end nor in between.
EverySampleWritten ==
    /\ \A m \in DOMAIN Mappings, s \in 1..device.session :
          LET mine == PlacesOf(s, m) scans == {ScanAt(m, i) : i \in mine}
          IN  /\ \A i, j \in mine : i < j => ScanAt(m, i) < ScanAt(m, j)
              /\ \A k \in scans : 0..k \subseteq scans
              /\ s = device.session => scans = 0..device.next - Unpublished - 1
    /\ \A c \in Channels : \A i \in DOMAIN written[c] :
          Mappings[written[c][i].value.mapping] = c

\* The types, and what has been written of what the device handed out.
SamplesInv == TypeOK /\ EverySampleWritten
================================================================================
