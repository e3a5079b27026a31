----------------------------- MODULE LidarClock -----------------------------
(***************************************************************************)
(* Time stamps (src/src/clients/concrete/LivoxClient.cpp, setTimestamp and  *)
(* its callers). A lidar's packet carries the time since the lidar was      *)
(* powered on. The first point packet of any lidar fixes a delay that maps  *)
(* its clock to the system's; the delay is added to every later time, and   *)
(* the time of the newest point packet is what the other clients' data is   *)
(* stamped with. Packets take a while to arrive; those of one kind of one   *)
(* lidar arrive in order; one that gets lost is like one that is not sent.  *)
(*                                                                         *)
(* That samples are kept only while logging is modelled in LivoxClient;     *)
(* here every stamp that a sample could get is recorded.                    *)
(***************************************************************************)
EXTENDS Integers, Sequences, FiniteSets

CONSTANTS
    Lidars,
    Words,        \* 2^64: stamps are counted modulo this number
    Dots,         \* points of a packet, one unit of time apart
    MaxTime,      \* BOUND: the last time of the system clock
    MaxPackets    \* BOUND: packets that arrive

ASSUME ClockAssumption ==
    /\ Words \in Nat /\ Dots \in Nat \ {0} /\ MaxTime \in Nat /\ MaxPackets \in Nat
    /\ 2 * MaxTime + Dots < Words - 1     \* 2^64 nanoseconds are 584 years

VARIABLES
    now,                    \* the system's clock
    boot,                   \* per lidar: when it was powered on
    last,                   \* per lidar and kind: when the newest packet to arrive was sent
    packets,                \* packets that have arrived, for the bound
    m_timestamp,
    systemTimestampDelay,
    first,                  \* history: the first point packet's lidar start and latency
    heard,                  \* history: the lidar starts whose point packets have arrived
    arrivals,               \* history: point packets that have arrived
    samples                 \* history: the stamps given

world == <<boot, last, packets>>
clock == <<m_timestamp, systemTimestampDelay>>
stamped == <<first, heard, arrivals, samples>>
clockVars == <<now, world, clock, stamped>>

Kinds    == {"point", "imu"}
Sentinel == Words - 1      \* -1 in an unsigned integer
Stamp    == 0..(Words - 1)
Start    == Lidars \X (0..MaxTime)
NotYet   == [boot |-> 0, latency |-> 0]

ClockTypeOK ==
    /\ now \in 0..MaxTime
    /\ boot \in [Lidars -> 0..MaxTime]
    /\ last \in [Lidars -> [Kinds -> 0..MaxTime]] /\ packets \in 0..MaxPackets
    /\ m_timestamp \in Stamp /\ systemTimestampDelay \in Stamp
    /\ first.boot \in 0..MaxTime /\ first.latency \in 0..MaxTime
    /\ heard \subseteq Start
    /\ arrivals \in 0..MaxPackets
    /\ \A s \in samples :
         /\ s.kind \in Kinds /\ s.dot \in 0..(Dots - 1) /\ s.taken \in Nat /\ s.boot \in 0..MaxTime
         /\ s.stamp \in Stamp /\ s.arrival \in 0..MaxPackets

ClockInit ==
    /\ now = 0 /\ boot = [l \in Lidars |-> 0]
    /\ last = [l \in Lidars |-> [kind \in Kinds |-> 0]] /\ packets = 0
    /\ m_timestamp = Sentinel /\ systemTimestampDelay = 0
    /\ first = NotYet /\ heard = {} /\ arrivals = 0 /\ samples = {}

-----------------------------------------------------------------------------
(* The world                                                               *)

Tick ==
    /\ now < MaxTime
    /\ now' = now + 1
    /\ UNCHANGED <<world, clock, stamped>>

\* A lidar is powered off and on, or for the first time. BOUND: not after the last packet.
Restart(l) ==
    /\ boot[l] < now /\ packets < MaxPackets
    /\ boot' = [boot EXCEPT ![l] = now]
    /\ last' = [last EXCEPT ![l] = [kind \in Kinds |-> now]]
    /\ UNCHANGED <<now, packets, clock, stamped>>

\* A packet sent at any time between the last one's and now arrives.
Arrives(l, kind, packet) ==
    /\ packets < MaxPackets
    /\ packet.boot = boot[l] /\ packet.taken >= last[l][kind]
    /\ last' = [last EXCEPT ![l][kind] = packet.taken]
    /\ packets' = packets + 1

-----------------------------------------------------------------------------
(* The callbacks                                                           *)

Ts(packet) == packet.taken - packet.boot

\* Mutant of DelayAfter: the delay is measured with every packet.
AlwaysMeasured(ts) == (now - ts) % Words
\* Mutant of DelayAfter: the operands are swapped, and the difference is signed.
SignedDelay(ts) == IF m_timestamp = Sentinel THEN ts - now ELSE systemTimestampDelay
\* setTimestamp, first half.
DelayAfter(ts) ==
    IF m_timestamp = Sentinel THEN (now - ts) % Words ELSE systemTimestampDelay

\* The stamp of the i-th point of a packet, and of its IMU sample for i = 0.
StampOf(ts, i, delay) == (ts + i + delay) % Words

\* Mutant of TimestampAfterImu: IMU packets set the time too.
SetByImu(ts) ==
    IF m_timestamp = Sentinel THEN Sentinel ELSE StampOf(ts, 0, systemTimestampDelay)
\* The call of setTimestamp in ImuDataCallback is commented out.
TimestampAfterImu(ts) == m_timestamp

Sampled(kind, packet, i, delay) ==
    [kind |-> kind, dot |-> i, taken |-> packet.taken + i, boot |-> packet.boot,
     stamp |-> StampOf(Ts(packet), i, delay), arrival |-> arrivals']

PointCloudCallback(l, packet) ==
    LET delay == DelayAfter(Ts(packet))
    IN /\ Arrives(l, "point", packet)
       /\ systemTimestampDelay' = delay
       /\ m_timestamp' = StampOf(Ts(packet), 0, delay)
       /\ arrivals' = arrivals + 1
       /\ first' = IF arrivals = 0
                     THEN [boot |-> packet.boot, latency |-> now - packet.taken] ELSE first
       /\ heard' = heard \cup {<<l, packet.boot>>}
       \* Points whose stamp is zero are dropped.
       /\ samples' = samples \cup
            {s \in {Sampled("point", packet, i, delay) : i \in 0..(Dots - 1)} : s.stamp > 0}
       /\ UNCHANGED <<now, boot>>

\* systemTimestampDelay is read without m_timestampMutex.
ImuDataCallback(l, packet) ==
    LET sample == Sampled("imu", packet, 0, systemTimestampDelay)
    IN /\ Arrives(l, "imu", packet)
       /\ m_timestamp' = TimestampAfterImu(Ts(packet))
       /\ arrivals' = arrivals
       /\ samples' = samples \cup (IF sample.stamp > 0 THEN {sample} ELSE {})
       /\ UNCHANGED <<now, boot, systemTimestampDelay, first, heard>>

ClockNext ==
    \E l \in Lidars :
        \/ Restart(l)
        \/ \E taken \in 0..now :
             LET packet == [taken |-> taken, boot |-> boot[l]]
             IN PointCloudCallback(l, packet) \/ ImuDataCallback(l, packet)

-----------------------------------------------------------------------------
\* A stamp is the lidar's own time plus one constant, the same for every lidar, start and
\* packet (what the first point packet found between its lidar's clock and the system's),
\* but for the IMU samples that came before that packet, to which nothing is added. So the
\* stamps of one lidar start keep the distances of the times at which the samples were
\* taken, and no sum ever wraps; the stamps of lidars that were started at different times
\* are off against each other by the whole difference of the starts.
StampsTellTheTime ==
    \A s \in samples :
        s.stamp = (s.taken - s.boot)
                    + (IF s.kind = "imu" /\ s.arrival = 0 THEN 0 ELSE first.boot + first.latency)
=============================================================================
