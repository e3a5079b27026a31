-------------------------- MODULE GnssClient_proofs --------------------------
(***************************************************************************)
(* Proofs about the clock and the GNSS client, for any number of lidars,    *)
(* restarts, packets, lines, chunks and scans: the stamps tell the time     *)
(* (the delay that the first point packet fixes is never measured again,    *)
(* because the time computed with it is never the sentinel), the lines are  *)
(* saved once and in chunks of their scan, and the time never runs back.    *)
(***************************************************************************)
EXTENDS GnssClient, TLAPS, FiniteSetTheorems, SequenceTheorems

\* A lidar's packets are not older than the lidar's start, and not of the future.
WorldInv ==
    /\ now \in 0..MaxTime
    /\ boot \in [Lidars -> 0..now]
    /\ last \in [Lidars -> [Kinds -> Nat]]
    /\ \A l \in Lidars : \A kind \in Kinds : boot[l] <= last[l][kind]

\* The time is the sentinel until the first point packet and never again; from then on
\* the delay is that packet's.
DelayInv ==
    /\ first.boot \in Int /\ first.latency \in Int /\ arrivals \in Nat
    /\ systemTimestampDelay \in 0..MaxTime
    /\ m_timestamp = Sentinel <=> arrivals = 0
    /\ m_timestamp # Sentinel => systemTimestampDelay = first.latency + first.boot
    /\ m_timestamp = Sentinel => systemTimestampDelay = 0

\* The delay is added to all samples but the IMU samples that come before it is fixed.
Before(s) == s.kind = "imu" /\ s.arrival = 0
SamplesInv ==
    /\ m_timestamp = Sentinel => \A s \in samples : Before(s)
    /\ StampsTellTheTime

IInv == WorldInv /\ DelayInv /\ SamplesInv

\* The types of the clock, and how its histories go together.
ClockInv ==
    /\ ClockTypeOK
    /\ arrivals <= packets
    /\ \A l \in Lidars : \A kind \in Kinds : last[l][kind] <= now
    /\ IsFiniteSet(heard) /\ (heard = {} <=> arrivals = 0)
    /\ \A s \in samples : s.arrival <= arrivals /\ (s.kind = "point" => s.arrival > 0)

\* The types of the client, with the place of each call among the chunks.
CutChunk == [scan : 1..MaxScans, file : Seq(Line), first : BOOLEAN]
Cutting  == call \notin {"idle", "logging"}

LinesInv ==
    /\ provider \in {"lidar", "system"}
    /\ line \in Line /\ read \in 0..MaxLines
    /\ m_buffer \in Seq(Line) /\ dumped \in Seq(Line) /\ pushed \in Seq(Line)
    /\ call \in {"idle", "logging", "dumped", "lastDumped", "lastSave"}
    /\ m_isLogging \in BOOLEAN
    /\ m_isLogging <=> call \in {"logging", "dumped", "lastDumped"}
    /\ scan \in 0..MaxScans /\ (call # "idle" => scan > 0)
    /\ cut \in Seq(CutChunk) /\ Len(cut) <= MaxChunks
    /\ call \in {"logging", "dumped"} => Len(cut) < MaxChunks
    /\ \A k \in 1..Len(cut) : cut[k].scan <= scan
    /\ Cutting => Len(cut) > 0 /\ cut[Len(cut)].scan = scan

\* Where the lines of a buffer that is cut now may come from.
NoCutYet == \A k \in 1..Len(cut) : cut[k].scan < scan
OfScan(lines, n)   == \A j \in 1..Len(lines) : lines[j].scan = n
LateOf(lines, n)   == \A j \in 1..Len(lines) : lines[j].late /\ lines[j].scan = n
OfChunk(lines, k)  ==
    \A j \in 1..Len(lines) :
        \/ lines[j].scan = cut[k].scan
        \/ cut[k].first /\ lines[j].late /\ lines[j].scan = cut[k].scan - 1

ScanInv ==
    /\ call \in {"idle", "lastDumped", "lastSave"} => LateOf(m_buffer, scan)
    /\ call = "dumped" => OfScan(m_buffer, scan)
    /\ call = "logging" =>
         \A j \in 1..Len(m_buffer) :
             \/ m_buffer[j].scan = scan
             \/ NoCutYet /\ m_buffer[j].late /\ m_buffer[j].scan = scan - 1
    /\ \A k \in 1..Len(cut) : OfChunk(cut[k].file, k)
    /\ Cutting => OfChunk(dumped, Len(cut))

\* The lines that have been stamped.
Stamped == {pushed[j] : j \in 1..Len(pushed)} \cup ({line} \ {NoLine})

\* The first points of the packets.
Points == {s \in samples : s.kind = "point" /\ s.dot = 0}

Follows(entry) ==
    \A s \in Points : IF s.arrival <= entry.arrivals THEN s.stamp <= entry.stamp
                                                     ELSE entry.stamp <= s.stamp

\* While one lidar start is heard the time is that of its newest point packet.
TimeInv ==
    \A h : heard = {h} =>
        /\ m_timestamp <= last[h[1]]["point"] - h[2] + systemTimestampDelay
        /\ \A s \in Points : s.stamp <= m_timestamp

\* Lines are not stamped after the time.
EntryInv(entry) ==
    /\ entry.arrivals <= arrivals
    /\ entry.stamp # Sentinel => arrivals > 0
    /\ entry.stamp # Sentinel /\ (\E h : heard = {h}) =>
         entry.stamp <= m_timestamp /\ Follows(entry)

LaserInv == TimeInv /\ (provider = "lidar" => \A entry \in Stamped : EntryInv(entry))

-----------------------------------------------------------------------------
\* A sample's time on its lidar's clock, and the constant that its stamp adds to it.
Own(s)      == s.taken - s.boot
Constant(s) == IF Before(s) THEN 0 ELSE first.boot + first.latency

LEMMA StampsTell == StampsTellTheTime <=> \A s \in samples : s.stamp = Own(s) + Constant(s)
BY DEF StampsTellTheTime, Own, Constant, Before

\* What fits into the word is not changed by the arithmetic of the word.
LEMMA Fits == ASSUME NEW x \in 0..(Words - 1) PROVE x % Words = x
BY ClockAssumption DEF ClockAssumption

LEMMA Initially == Init => IInv
BY ClockAssumption
   DEF ClockAssumption, Init, ClockInit, IInv, WorldInv, DelayInv, SamplesInv,
       StampsTellTheTime, NotYet, Sentinel, Kinds

\* What the packets that can arrive carry.
LEMMA PacketTimes ==
    ASSUME IInv, NEW l \in Lidars, NEW kind \in Kinds, NEW taken \in 0..now,
           Arrives(l, kind, [taken |-> taken, boot |-> boot[l]])
    PROVE  /\ boot[l] \in Nat /\ boot[l] <= taken /\ taken - boot[l] \in 0..now
           /\ last' \in [Lidars -> [Kinds -> Nat]]
           /\ \A m \in Lidars : \A k \in Kinds : boot[m] <= last'[m][k]
<1>1. /\ boot[l] \in 0..now /\ last[l][kind] \in Nat
      /\ boot[l] <= last[l][kind] /\ taken >= last[l][kind]
      /\ now \in Nat /\ taken \in Nat
  BY DEF IInv, WorldInv, Arrives
<1>2. boot[l] \in Nat /\ boot[l] <= taken /\ taken - boot[l] \in 0..now
  BY <1>1
<1>3. last' = [last EXCEPT ![l][kind] = taken]
  BY DEF Arrives
<1>4. last' \in [Lidars -> [Kinds -> Nat]]
  BY <1>1, <1>3 DEF IInv, WorldInv
<1>5. \A m \in Lidars : \A k \in Kinds : boot[m] <= last'[m][k]
  BY <1>1, <1>2, <1>3 DEF IInv, WorldInv
<1>6. QED
  BY <1>2, <1>4, <1>5

\* The time after a point packet is computed within the word.
LEMMA PointTimes ==
    ASSUME IInv, NEW l \in Lidars, NEW taken \in 0..now,
           PointCloudCallback(l, [taken |-> taken, boot |-> boot[l]])
    PROVE  LET delay == DelayAfter(taken - boot[l])
           IN /\ delay \in 0..MaxTime
              /\ m_timestamp = Sentinel => delay = now - taken + boot[l]
              /\ m_timestamp # Sentinel => delay = systemTimestampDelay
              /\ m_timestamp' = taken - boot[l] + delay
              /\ m_timestamp' \in 0..(Words - 2)
<1> DEFINE packet == [taken |-> taken, boot |-> boot[l]]
           delay  == DelayAfter(taken - boot[l])
<1>1. Arrives(l, "point", packet) /\ "point" \in Kinds
  BY DEF PointCloudCallback, Kinds
<1>2. /\ boot[l] \in Nat /\ boot[l] <= taken /\ taken - boot[l] \in 0..now
      /\ taken \in 0..now /\ now \in 0..MaxTime
  BY <1>1, PacketTimes DEF IInv, WorldInv
<1>3. /\ delay \in 0..MaxTime
      /\ m_timestamp = Sentinel => delay = now - taken + boot[l]
      /\ m_timestamp # Sentinel => delay = systemTimestampDelay
  <2>1. now - (taken - boot[l]) \in 0..(Words - 1) /\ now - (taken - boot[l]) <= MaxTime
    BY <1>2, ClockAssumption DEF ClockAssumption
  <2>2. (now - (taken - boot[l])) % Words = now - (taken - boot[l])
    BY <2>1, Fits
  <2>3. QED
    BY <1>2, <2>1, <2>2 DEF IInv, DelayInv, DelayAfter
<1>4. m_timestamp' = (taken - boot[l] + 0 + delay) % Words
  BY DEF PointCloudCallback, StampOf, Ts
<1> HIDE DEF delay
<1>5. taken - boot[l] + 0 + delay \in 0..(Words - 2)
  BY <1>2, <1>3, ClockAssumption DEF ClockAssumption
<1>6. taken - boot[l] + 0 + delay \in 0..(Words - 1)
  BY <1>5, ClockAssumption DEF ClockAssumption
<1>7. (taken - boot[l] + 0 + delay) % Words = taken - boot[l] + 0 + delay
  BY <1>6, Fits
<1>8. QED
  BY <1>2, <1>3, <1>4, <1>5, <1>7 DEF delay

\* The first point packet fixes the delay; later ones find it fixed.
LEMMA PointStep ==
    ASSUME IInv, NEW l \in Lidars, NEW taken \in 0..now,
           PointCloudCallback(l, [taken |-> taken, boot |-> boot[l]])
    PROVE  IInv'
<1> DEFINE packet == [taken |-> taken, boot |-> boot[l]]
           delay  == DelayAfter(Ts(packet))
<1>1. Arrives(l, "point", packet) /\ "point" \in Kinds
  BY DEF PointCloudCallback, Kinds
<1>2. /\ boot[l] \in Nat /\ boot[l] <= taken /\ taken - boot[l] \in 0..now
      /\ taken \in 0..now /\ now \in 0..MaxTime
  BY <1>1, PacketTimes DEF IInv, WorldInv
<1>3. WorldInv'
  <2>1. UNCHANGED <<now, boot>>
    BY DEF PointCloudCallback
  <2>2. /\ last' \in [Lidars -> [Kinds -> Nat]]
        /\ \A m \in Lidars : \A k \in Kinds : boot[m] <= last'[m][k]
    BY <1>1, PacketTimes
  <2>3. QED
    BY <2>1, <2>2 DEF IInv, WorldInv
<1>4. /\ delay \in 0..MaxTime
      /\ m_timestamp = Sentinel => delay = now - taken + boot[l]
      /\ m_timestamp # Sentinel => delay = systemTimestampDelay
      /\ m_timestamp' \in 0..(Words - 2)
  BY PointTimes DEF Ts
<1>5. m_timestamp' # Sentinel
  BY <1>4, ClockAssumption DEF ClockAssumption, Sentinel
<1>6. /\ systemTimestampDelay' = delay /\ arrivals' = arrivals + 1
      /\ first' = IF arrivals = 0 THEN [boot |-> boot[l], latency |-> now - taken] ELSE first
  BY DEF PointCloudCallback
<1>7. /\ first'.boot \in Int /\ first'.latency \in Int /\ arrivals' \in Nat \ {0}
      /\ delay = first'.latency + first'.boot
  BY <1>2, <1>4, <1>6 DEF IInv, DelayInv
<1>8. DelayInv'
  <2>1. Sentinel' = Sentinel
    BY DEF Sentinel
  <2>2. QED
    BY <1>4, <1>5, <1>6, <1>7, <2>1 DEF DelayInv
<1>9. SamplesInv'
  <2>1. ASSUME NEW s \in samples' PROVE s.stamp = Own(s) + Constant(s)'
    <3>1. CASE s \in samples /\ Before(s)
      BY <3>1, StampsTell DEF IInv, SamplesInv, Constant, Before
    <3>2. CASE s \in samples /\ ~Before(s)
      <4>1. m_timestamp # Sentinel
        BY <3>2 DEF IInv, SamplesInv
      <4>2. first' = first
        BY <1>6, <4>1 DEF IInv, DelayInv
      <4>3. QED
        BY <3>2, <4>2, StampsTell DEF IInv, SamplesInv, Constant, Before
    <3>3. CASE s \notin samples
      <4>1. PICK i \in 0..(Dots - 1) : s = Sampled("point", packet, i, delay)
        BY <2>1, <3>3 DEF PointCloudCallback
      <4>2. /\ s.kind = "point" /\ s.stamp = (taken - boot[l] + i + delay) % Words
            /\ s.taken = taken + i /\ s.boot = boot[l]
        BY <4>1 DEF Sampled, StampOf, Ts
      <4>3. /\ taken - boot[l] + i + delay \in 0..(Words - 1)
            /\ taken - boot[l] + i = taken + i - boot[l]
        BY <1>2, <1>4, ClockAssumption DEF ClockAssumption
      <4>4. s.stamp = Own(s) + delay
        <5>1. (taken - boot[l] + i + delay) % Words = taken - boot[l] + i + delay
          BY <4>3, Fits
        <5>2. taken - boot[l] + i + delay = (taken + i - boot[l]) + delay
          BY <4>3
        <5>3. Own(s) = taken + i - boot[l]
          BY <1>2, <4>2, ClockAssumption DEF ClockAssumption, Own
        <5>4. QED
          BY <4>2, <5>1, <5>2, <5>3, Zenon
      <4>5. Constant(s)' = delay
        BY <1>7, <4>2 DEF Constant, Before
      <4>6. QED
        BY <4>4, <4>5
    <3>4. QED
      BY <3>1, <3>2, <3>3
  <2>2. StampsTellTheTime'
    BY <2>1 DEF StampsTellTheTime, Own, Constant, Before
  <2>3. QED
    BY <1>5, <2>2 DEF SamplesInv, Sentinel
<1>10. QED
  BY <1>3, <1>8, <1>9 DEF IInv

\* IMU packets are stamped with the delay that is there.
LEMMA ImuStep ==
    ASSUME IInv, NEW l \in Lidars, NEW taken \in 0..now,
           ImuDataCallback(l, [taken |-> taken, boot |-> boot[l]])
    PROVE  IInv'
<1> DEFINE packet == [taken |-> taken, boot |-> boot[l]]
           sample == Sampled("imu", packet, 0, systemTimestampDelay)
<1>1. Arrives(l, "imu", packet) /\ "imu" \in Kinds
  BY DEF ImuDataCallback, Kinds
<1>2. /\ boot[l] \in Nat /\ boot[l] <= taken /\ taken - boot[l] \in 0..now
      /\ taken \in 0..now /\ now \in 0..MaxTime
  BY <1>1, PacketTimes DEF IInv, WorldInv
<1>3. UNCHANGED <<now, boot, systemTimestampDelay, first, m_timestamp, arrivals>>
  BY DEF ImuDataCallback, TimestampAfterImu
<1>4. WorldInv'
  <2>1. /\ last' \in [Lidars -> [Kinds -> Nat]]
        /\ \A m \in Lidars : \A k \in Kinds : boot[m] <= last'[m][k]
    BY <1>1, PacketTimes
  <2>2. QED
    BY <1>3, <2>1 DEF IInv, WorldInv
<1>5. DelayInv'
  BY <1>3 DEF IInv, DelayInv, Sentinel
<1>6. \A s \in samples' : s \in samples \/ s = sample
  BY DEF ImuDataCallback
<1>7. /\ m_timestamp = Sentinel => Before(sample)
      /\ sample.stamp = Own(sample) + Constant(sample)
  <2>1. /\ sample.kind = "imu" /\ sample.arrival = arrivals'
        /\ sample.stamp = (taken - boot[l] + 0 + systemTimestampDelay) % Words
        /\ sample.taken = taken + 0 /\ sample.boot = boot[l]
    BY DEF Sampled, StampOf, Ts
  <2>2. Before(sample) <=> m_timestamp = Sentinel
    BY <1>3, <2>1 DEF IInv, DelayInv, Before
  <2> HIDE DEF sample
  <2>3. systemTimestampDelay = Constant(sample) /\ systemTimestampDelay \in 0..MaxTime
    BY <2>2 DEF IInv, DelayInv, Constant
  <2>4. /\ taken - boot[l] + 0 + systemTimestampDelay \in 0..(Words - 1)
        /\ taken - boot[l] + 0 = taken + 0 - boot[l]
    BY <1>2, <2>3, ClockAssumption DEF ClockAssumption
  <2>5. sample.stamp = Own(sample) + systemTimestampDelay
    <3>1. (taken - boot[l] + 0 + systemTimestampDelay) % Words
            = taken - boot[l] + 0 + systemTimestampDelay
      BY <2>4, Fits
    <3>2. taken - boot[l] + 0 + systemTimestampDelay
            = (taken + 0 - boot[l]) + systemTimestampDelay
      BY <2>4
    <3>3. Own(sample) = taken + 0 - boot[l]
      BY <1>2, <2>1 DEF Own
    <3>4. QED
      BY <2>1, <3>1, <3>2, <3>3, Zenon
  <2>6. QED
    BY <2>2, <2>3, <2>5
<1> HIDE DEF sample
<1>8. SamplesInv'
  <2>1. ASSUME NEW s \in samples' PROVE s.stamp = Own(s) + Constant(s)
    BY <1>6, <1>7, StampsTell DEF IInv, SamplesInv
  <2>2. StampsTellTheTime'
    BY <1>3, <2>1 DEF StampsTellTheTime, Own, Constant, Before
  <2>3. QED
    BY <1>3, <1>6, <1>7, <2>2 DEF IInv, SamplesInv, Sentinel
<1>9. QED
  BY <1>4, <1>5, <1>8 DEF IInv

LEMMA Step == IInv /\ [Next]_vars => IInv'
<1> SUFFICES ASSUME IInv, [Next]_vars PROVE IInv'
  OBVIOUS
<1>1. ASSUME UNCHANGED clockVars PROVE IInv'
  BY <1>1 DEF clockVars, world, clock, stamped, IInv, WorldInv, DelayInv, SamplesInv,
              StampsTellTheTime, Sentinel
<1>2. CASE Tick
  <2>1. now' \in 0..MaxTime /\ now <= now' /\ now \in Nat
    BY <1>2, ClockAssumption DEF ClockAssumption, Tick, IInv, WorldInv
  <2>2. boot \in [Lidars -> 0..now']
    BY <2>1 DEF IInv, WorldInv
  <2>3. QED
    BY <1>2, <2>1, <2>2 DEF Tick, world, clock, stamped, IInv, WorldInv, DelayInv, SamplesInv,
                StampsTellTheTime, Sentinel
<1>3. CASE \E l \in Lidars : Restart(l)
  <2>1. PICK l \in Lidars : Restart(l)
    BY <1>3
  <2>2. WorldInv'
    BY <2>1 DEF Restart, IInv, WorldInv
  <2>3. DelayInv' /\ SamplesInv'
    BY <2>1 DEF Restart, clock, stamped, IInv, DelayInv, SamplesInv, StampsTellTheTime, Sentinel
  <2>4. QED
    BY <2>2, <2>3 DEF IInv
<1>4. CASE ClockNext
  <2>1. \/ \E l \in Lidars : Restart(l)
        \/ \E l \in Lidars, taken \in 0..now :
             \/ PointCloudCallback(l, [taken |-> taken, boot |-> boot[l]])
             \/ ImuDataCallback(l, [taken |-> taken, boot |-> boot[l]])
    BY <1>4 DEF ClockNext
  <2>2. QED
    BY <1>3, <2>1, PointStep, ImuStep
<1>5. CASE Next
  <2>1. Tick \/ ClockNext \/ UNCHANGED clockVars
    BY <1>5 DEF Next, ReadLine, PushLine, StartLog, DumpChunkInternally, StopLog,
                SaveDumpedChunkToDirectory, vars
  <2>2. QED
    BY <1>1, <1>2, <1>4, <2>1
<1>6. QED
  BY <1>1, <1>5 DEF vars

-----------------------------------------------------------------------------
\* However many lidars there are and however often they restart, one constant is added to
\* the lidar's own time in every stamp but those of the IMU samples that came before the
\* first point packet, to which nothing is added (setTimestamp: the delay is measured
\* once, and the sum never is the sentinel). The system's time of a sample is therefore
\* met only for lidars that started when the first one did.
THEOREM StampsCorrect == Spec => []StampsTellTheTime
<1>1. Init => IInv
  BY Initially
<1>2. IInv /\ [Next]_vars => IInv'
  BY Step
<1>3. IInv => StampsTellTheTime
  BY DEF IInv, SamplesInv
<1>4. QED
  BY <1>1, <1>2, <1>3, PTL DEF Spec

-----------------------------------------------------------------------------
(* Sequences.                                                              *)

\* What appending does, whatever is appended.
LEMMA AppendSeq ==
    ASSUME NEW S, NEW s \in Seq(S), NEW e
    PROVE  /\ Len(s) \in Nat /\ Len(Append(s, e)) = Len(s) + 1
           /\ \A j \in 1..(Len(s) + 1) :
                IF j <= Len(s) THEN j \in 1..Len(s) /\ Append(s, e)[j] = s[j]
                               ELSE Append(s, e)[j] = e
<1>1. s \in Seq(S \cup {e}) /\ e \in S \cup {e}
  BY SeqMonotonic
<1>2. QED
  BY <1>1, AppendProperties, LenProperties

-----------------------------------------------------------------------------
(* Types.                                                                  *)

LEMMA ClockInitially == Init => ClockInv
<1> SUFFICES ASSUME Init PROVE ClockInv
  OBVIOUS
<1>1. ClockInit
  BY DEF Init
<1>2. 0 \in 0..MaxTime /\ 0 \in 0..MaxPackets /\ 0 \in Stamp /\ Sentinel \in Stamp
  BY ClockAssumption DEF ClockAssumption, Stamp, Sentinel
<1>3. last \in [Lidars -> [Kinds -> 0..MaxTime]] /\ boot \in [Lidars -> 0..MaxTime]
  BY <1>1, <1>2 DEF ClockInit
<1>4. \A l \in Lidars : \A kind \in Kinds : last[l][kind] <= now
  BY <1>1 DEF ClockInit
<1>5. QED
  BY <1>1, <1>2, <1>3, <1>4, FS_EmptySet DEF ClockInit, ClockInv, ClockTypeOK, NotYet

\* What every packet changes.
LEMMA PacketTypes ==
    ASSUME IInv, ClockInv, NEW l \in Lidars, NEW kind \in Kinds, NEW taken \in 0..now,
           Arrives(l, kind, [taken |-> taken, boot |-> boot[l]])
    PROVE  /\ last' \in [Lidars -> [Kinds -> 0..MaxTime]]
           /\ \A m \in Lidars : \A k \in Kinds : last'[m][k] <= now
           /\ packets' = packets + 1 /\ packets' \in 0..MaxPackets
           /\ boot[l] \in 0..MaxTime /\ now - taken \in 0..MaxTime
<1>1. /\ last \in [Lidars -> [Kinds -> 0..MaxTime]] /\ now \in 0..MaxTime
      /\ packets \in 0..MaxPackets /\ boot \in [Lidars -> 0..MaxTime]
      /\ \A m \in Lidars : \A k \in Kinds : last[m][k] <= now
  BY DEF ClockInv, ClockTypeOK
<1>2. last' = [last EXCEPT ![l][kind] = taken] /\ packets' = packets + 1 /\ packets < MaxPackets
  BY DEF Arrives
<1>3. MaxTime \in Nat /\ MaxPackets \in Nat /\ taken \in 0..MaxTime
  BY <1>1, ClockAssumption DEF ClockAssumption
<1>4. last' \in [Lidars -> [Kinds -> 0..MaxTime]]
  BY <1>1, <1>2, <1>3
<1>5. \A m \in Lidars : \A k \in Kinds :
        last'[m][k] = IF m = l /\ k = kind THEN taken ELSE last[m][k]
  BY <1>1, <1>2
<1>6. \A m \in Lidars : \A k \in Kinds : last'[m][k] <= now
  BY <1>1, <1>5
<1>7. QED
  BY <1>1, <1>2, <1>3, <1>4, <1>6

\* Stamps are counted within the word.
LEMMA StampTypes == ASSUME NEW x \in Int PROVE x % Words \in Stamp
BY ClockAssumption DEF ClockAssumption, Stamp

LEMMA PointTypes ==
    ASSUME IInv, ClockInv, NEW l \in Lidars, NEW taken \in 0..now,
           PointCloudCallback(l, [taken |-> taken, boot |-> boot[l]])
    PROVE  ClockInv'
<1> DEFINE packet == [taken |-> taken, boot |-> boot[l]]
           delay  == DelayAfter(taken - boot[l])
<1>1. Arrives(l, "point", packet) /\ "point" \in Kinds
  BY DEF PointCloudCallback, Kinds
<1>2. /\ last' \in [Lidars -> [Kinds -> 0..MaxTime]]
      /\ \A m \in Lidars : \A k \in Kinds : last'[m][k] <= now
      /\ packets' = packets + 1 /\ packets' \in 0..MaxPackets
      /\ boot[l] \in 0..MaxTime /\ now - taken \in 0..MaxTime
  BY <1>1, PacketTypes
<1>3. delay \in 0..MaxTime /\ m_timestamp' \in 0..(Words - 2)
  BY PointTimes
<1>4. /\ UNCHANGED <<now, boot>> /\ arrivals' = arrivals + 1
      /\ systemTimestampDelay' = delay /\ heard' = heard \cup {<<l, boot[l]>>}
      /\ first' = IF arrivals = 0 THEN [boot |-> boot[l], latency |-> now - taken] ELSE first
  BY DEF PointCloudCallback, Ts
<1>5. \A s \in samples' : \/ s \in samples
                          \/ \E i \in 0..(Dots - 1) : s = Sampled("point", packet, i, delay)
  BY DEF PointCloudCallback, Ts
<1> HIDE DEF delay
<1>6. arrivals \in Nat /\ arrivals <= packets /\ packets \in 0..MaxPackets
  BY DEF ClockInv, ClockTypeOK
<1>7. arrivals' \in 0..MaxPackets /\ arrivals' <= packets' /\ arrivals' > 0
      /\ arrivals' = arrivals + 1
  BY <1>2, <1>4, <1>6, ClockAssumption DEF ClockAssumption
<1>8. /\ systemTimestampDelay' \in Stamp /\ m_timestamp' \in Stamp
  BY <1>3, <1>4, ClockAssumption DEF ClockAssumption, Stamp
<1>9. heard' \subseteq Start /\ IsFiniteSet(heard') /\ heard' # {}
  <2>1. <<l, boot[l]>> \in Start /\ heard \subseteq Start /\ IsFiniteSet(heard)
    BY <1>2 DEF ClockInv, ClockTypeOK, Start
  <2>2. QED
    BY <1>4, <2>1, FS_AddElement
<1>10. first'.boot \in 0..MaxTime /\ first'.latency \in 0..MaxTime
  BY <1>2, <1>4 DEF ClockInv, ClockTypeOK
<1>11. ASSUME NEW s \in samples'
       PROVE  /\ s.kind \in Kinds /\ s.dot \in 0..(Dots - 1) /\ s.taken \in Nat
              /\ s.boot \in 0..MaxTime /\ s.stamp \in Stamp
              /\ s.arrival \in 0..MaxPackets /\ s.arrival <= arrivals'
              /\ s.kind = "point" => s.arrival > 0
  <2>1. CASE s \in samples
    BY <1>4, <1>6, <2>1 DEF ClockInv, ClockTypeOK
  <2>2. CASE s \notin samples
    <3>1. PICK i \in 0..(Dots - 1) : s = Sampled("point", packet, i, delay)
      BY <1>5, <2>2
    <3>2. /\ s.kind = "point" /\ s.dot = i /\ s.taken = taken + i /\ s.boot = boot[l]
          /\ s.stamp = (taken - boot[l] + i + delay) % Words /\ s.arrival = arrivals'
      BY <3>1 DEF Sampled, StampOf, Ts
    <3>3. taken \in Nat /\ taken + i \in Nat /\ taken - boot[l] + i + delay \in Int
      BY <1>2, <1>3, ClockAssumption DEF ClockInv, ClockTypeOK, ClockAssumption
    <3>4. s.stamp \in Stamp
      BY <3>2, <3>3, StampTypes
    <3>5. QED
      BY <1>1, <1>2, <1>7, <3>2, <3>3, <3>4
  <2>3. QED
    BY <2>1, <2>2
<1>12. now' \in 0..MaxTime /\ boot' \in [Lidars -> 0..MaxTime]
  BY <1>4 DEF ClockInv, ClockTypeOK
<1>13. \A m \in Lidars : \A k \in Kinds : last'[m][k] <= now'
  BY <1>2, <1>4
<1>14. ClockTypeOK'
  BY <1>2, <1>7, <1>8, <1>9, <1>10, <1>11, <1>12 DEF ClockTypeOK, Stamp, Start
<1>15. QED
  BY <1>7, <1>9, <1>11, <1>13, <1>14 DEF ClockInv

LEMMA ImuTypes ==
    ASSUME IInv, ClockInv, NEW l \in Lidars, NEW taken \in 0..now,
           ImuDataCallback(l, [taken |-> taken, boot |-> boot[l]])
    PROVE  ClockInv'
<1> DEFINE packet == [taken |-> taken, boot |-> boot[l]]
<1>1. Arrives(l, "imu", packet) /\ "imu" \in Kinds
  BY DEF ImuDataCallback, Kinds
<1>2. /\ last' \in [Lidars -> [Kinds -> 0..MaxTime]]
      /\ \A m \in Lidars : \A k \in Kinds : last'[m][k] <= now
      /\ packets' = packets + 1 /\ packets' \in 0..MaxPackets
      /\ boot[l] \in 0..MaxTime /\ now - taken \in 0..MaxTime
  BY <1>1, PacketTypes
<1>3. UNCHANGED <<now, boot, systemTimestampDelay, first, m_timestamp, arrivals, heard>>
  BY DEF ImuDataCallback, TimestampAfterImu
<1>4. \A s \in samples' :
        \/ s \in samples
        \/ s = Sampled("imu", packet, 0, systemTimestampDelay)
  BY DEF ImuDataCallback
<1>5. /\ arrivals \in 0..MaxPackets /\ arrivals <= packets /\ packets \in 0..MaxPackets
      /\ systemTimestampDelay \in Int /\ taken \in Nat /\ 0 \in 0..(Dots - 1)
  BY ClockAssumption DEF ClockAssumption, ClockInv, ClockTypeOK, Stamp
<1>6. ASSUME NEW s \in samples'
      PROVE  /\ s.kind \in Kinds /\ s.dot \in 0..(Dots - 1) /\ s.taken \in Nat
             /\ s.boot \in 0..MaxTime /\ s.stamp \in Stamp
             /\ s.arrival \in 0..MaxPackets /\ s.arrival <= arrivals'
             /\ s.kind = "point" => s.arrival > 0
  <2>1. CASE s \in samples
    BY <1>3, <2>1 DEF ClockInv, ClockTypeOK
  <2>2. CASE s \notin samples
    <3>1. s = Sampled("imu", packet, 0, systemTimestampDelay)
      BY <1>4, <2>2
    <3>2. /\ s.kind = "imu" /\ s.dot = 0 /\ s.taken = taken + 0 /\ s.boot = boot[l]
          /\ s.stamp = (taken - boot[l] + 0 + systemTimestampDelay) % Words
          /\ s.arrival = arrivals'
      BY <3>1 DEF Sampled, StampOf, Ts
    <3>3. taken + 0 \in Nat /\ taken - boot[l] + 0 + systemTimestampDelay \in Int
      BY <1>2, <1>5
    <3>4. s.stamp \in Stamp
      BY <3>2, <3>3, StampTypes
    <3>5. arrivals' = arrivals
      BY <1>3
    <3>6. QED
      BY <1>1, <1>2, <1>5, <3>2, <3>3, <3>4, <3>5
  <2>3. QED
    BY <2>1, <2>2
<1>7. QED
  BY <1>2, <1>3, <1>5, <1>6 DEF ClockInv, ClockTypeOK, Stamp, Start

LEMMA ClockStep == IInv /\ ClockInv /\ [Next]_vars => ClockInv'
<1> SUFFICES ASSUME IInv, ClockInv, [Next]_vars PROVE ClockInv'
  OBVIOUS
<1>1. ASSUME UNCHANGED clockVars PROVE ClockInv'
  BY <1>1 DEF clockVars, world, clock, stamped, ClockInv, ClockTypeOK, Stamp, Start
<1>2. CASE Tick
  <2>1. now' \in 0..MaxTime /\ now < now' /\ now \in Nat
    BY <1>2, ClockAssumption DEF ClockAssumption, Tick, ClockInv, ClockTypeOK
  <2>2. UNCHANGED <<boot, last, packets, m_timestamp, systemTimestampDelay, first, heard,
                    arrivals, samples>>
    BY <1>2 DEF Tick, world, clock, stamped
  <2>3. \A l \in Lidars : \A kind \in Kinds : last[l][kind] <= now'
    BY <2>1 DEF ClockInv, ClockTypeOK
  <2>4. QED
    BY <2>1, <2>2, <2>3 DEF ClockInv, ClockTypeOK, Stamp, Start
<1>3. ASSUME NEW l \in Lidars, Restart(l) PROVE ClockInv'
  <2>1. /\ boot' = [boot EXCEPT ![l] = now]
        /\ last' = [last EXCEPT ![l] = [kind \in Kinds |-> now]]
        /\ UNCHANGED <<now, packets, m_timestamp, systemTimestampDelay, first, heard,
                       arrivals, samples>>
    BY <1>3 DEF Restart, clock, stamped
  <2>2. /\ now \in 0..MaxTime /\ boot \in [Lidars -> 0..MaxTime]
        /\ last \in [Lidars -> [Kinds -> 0..MaxTime]]
        /\ \A m \in Lidars : \A kind \in Kinds : last[m][kind] <= now
    BY DEF ClockInv, ClockTypeOK
  <2>3. /\ boot' \in [Lidars -> 0..MaxTime] /\ last' \in [Lidars -> [Kinds -> 0..MaxTime]]
    BY <2>1, <2>2
  <2>4. \A m \in Lidars : \A kind \in Kinds : last'[m][kind] <= now'
    BY <2>1, <2>2
  <2>5. QED
    BY <2>1, <2>2, <2>3, <2>4 DEF ClockInv, ClockTypeOK, Stamp, Start
<1>4. CASE ClockNext
  <2>1. \/ \E l \in Lidars : Restart(l)
        \/ \E l \in Lidars, taken \in 0..now :
             \/ PointCloudCallback(l, [taken |-> taken, boot |-> boot[l]])
             \/ ImuDataCallback(l, [taken |-> taken, boot |-> boot[l]])
    BY <1>4 DEF ClockNext
  <2>2. QED
    BY <1>3, <2>1, PointTypes, ImuTypes
<1>5. CASE Next
  <2>1. Tick \/ ClockNext \/ UNCHANGED clockVars
    BY <1>5 DEF Next, ReadLine, PushLine, StartLog, DumpChunkInternally, StopLog,
                SaveDumpedChunkToDirectory, vars
  <2>2. QED
    BY <1>1, <1>2, <1>4, <2>1
<1>6. QED
  BY <1>1, <1>5 DEF vars
LEMMA LinesInitially == Init => LinesInv
<1> SUFFICES ASSUME Init PROVE LinesInv
  OBVIOUS
<1>1. /\ m_buffer = << >> /\ dumped = << >> /\ pushed = << >> /\ cut = << >>
      /\ line = NoLine /\ read = 0 /\ call = "idle" /\ scan = 0 /\ m_isLogging = FALSE
      /\ provider \in {"lidar", "system"}
  BY DEF Init
<1>2. << >> \in Seq(Line) /\ << >> \in Seq(CutChunk) /\ Len(<< >>) = 0
  BY EmptySeq
<1>3. NoLine \in Line
  BY ClockAssumption, GnssAssumption
     DEF ClockAssumption, GnssAssumption, NoLine, Line, Stamp
<1>4. read \in 0..MaxLines /\ scan \in 0..MaxScans /\ Len(cut) <= MaxChunks
  BY <1>1, <1>2, GnssAssumption DEF GnssAssumption
<1>5. \A k \in 1..Len(cut) : cut[k].scan <= scan
  BY <1>1, <1>2
<1>6. m_isLogging \in BOOLEAN /\ (m_isLogging <=> call \in {"logging", "dumped", "lastDumped"})
  BY <1>1
<1>7. QED
  BY <1>1, <1>2, <1>3, <1>4, <1>5, <1>6 DEF LinesInv, Cutting

\* A line is stamped with a time of the word.
LEMMA ReadTypes == ASSUME ClockInv, LinesInv, ReadLine PROVE LinesInv'
<1>1. GetTimeStamp \in Stamp /\ arrivals \in 0..MaxPackets /\ scan \in 0..MaxScans
  BY ClockAssumption DEF ClockAssumption, ClockInv, ClockTypeOK, GetTimeStamp, Stamp, LinesInv
<1>2. read' \in 0..MaxLines
  BY GnssAssumption DEF GnssAssumption, ReadLine, LinesInv
<1>3. line' = [n |-> read', stamp |-> GetTimeStamp, arrivals |-> arrivals,
               stampedIn |-> scan, scan |-> 0, late |-> FALSE]
  BY DEF ReadLine, NoLine
<1>4. line' \in Line
  BY <1>1, <1>2, <1>3, GnssAssumption DEF GnssAssumption, Line
<1>5. UNCHANGED <<provider, m_isLogging, m_buffer, pushed, dumped, call, scan, cut>>
  BY DEF ReadLine, logger, chunk
<1>6. QED
  BY <1>2, <1>4, <1>5 DEF LinesInv, Cutting

\* The line as it is put into the buffer.
Entry == [line EXCEPT !.scan = scan, !.late = (call = "lastDumped")]

LEMMA PushTypes == ASSUME ClockInv, LinesInv, PushLine PROVE LinesInv'
<1> DEFINE late == (call = "lastDumped")
<1>1. line \in Line /\ scan \in 0..MaxScans
  BY DEF LinesInv
<1>2. late \in BOOLEAN
  OBVIOUS
<1>3. Entry \in Line
  <2>1. Entry = [line EXCEPT !.scan = scan, !.late = late]
    BY DEF Entry
  <2> HIDE DEF late
  <2>2. QED
    BY <1>1, <1>2, <2>1 DEF Line
<1>4. NoLine \in Line
  BY ClockAssumption, GnssAssumption
     DEF ClockAssumption, GnssAssumption, NoLine, Line, Stamp
<1>5. /\ \/ m_buffer' = Append(m_buffer, Entry) /\ pushed' = Append(pushed, Entry)
         \/ UNCHANGED <<m_buffer, pushed>>
      /\ line' = NoLine
      /\ UNCHANGED <<provider, m_isLogging, read, dumped, call, scan, cut>>
  BY DEF PushLine, Entry, chunk
<1>6. m_buffer \in Seq(Line) /\ pushed \in Seq(Line)
  BY DEF LinesInv
<1>7. m_buffer' \in Seq(Line) /\ pushed' \in Seq(Line)
  <2>1. Append(m_buffer, Entry) \in Seq(Line) /\ Append(pushed, Entry) \in Seq(Line)
    BY ONLY <1>3, <1>6, AppendProperties
  <2>2. QED
    BY <1>5, <1>6, <2>1
<1>8. QED
  BY <1>4, <1>5, <1>7 DEF LinesInv, Cutting

\* A chunk is dumped only while one more is allowed for.
LEMMA DumpTypes == ASSUME LinesInv, DumpChunkInternally PROVE LinesInv'
<1> DEFINE new == [scan |-> scan, file |-> << >>,
                   first |-> \A k \in DOMAIN cut : cut[k].scan < scan]
<1>1. /\ call = "logging" /\ scan \in 0..MaxScans /\ scan > 0
      /\ cut \in Seq(CutChunk) /\ Len(cut) < MaxChunks
      /\ m_buffer \in Seq(Line) /\ m_isLogging \in BOOLEAN
      /\ m_isLogging <=> call \in {"logging", "dumped", "lastDumped"}
      /\ \A k \in 1..Len(cut) : cut[k].scan <= scan
  BY DEF DumpChunkInternally, LinesInv
<1>2. /\ cut' = Append(cut, new) /\ dumped' = m_buffer /\ m_buffer' = << >>
      /\ call' \in {"dumped", "lastDumped"} /\ (call' = "dumped" => Len(cut) + 1 < MaxChunks)
      /\ UNCHANGED <<provider, line, read, m_isLogging, pushed, scan>>
  BY DEF DumpChunkInternally, Remaining, worker
<1>3. (\A k \in DOMAIN cut : cut[k].scan < scan) \in BOOLEAN
  OBVIOUS
<1>4. << >> \in Seq(Line)
  BY EmptySeq
<1>5. new \in CutChunk
  <2>1. scan \in 1..MaxScans
    BY <1>1, GnssAssumption DEF GnssAssumption
  <2>2. QED
    BY <1>3, <1>4, <2>1 DEF CutChunk
<1> HIDE DEF new
<1>6. /\ cut' \in Seq(CutChunk) /\ Len(cut') = Len(cut) + 1 /\ Len(cut) \in Nat
      /\ cut'[Len(cut) + 1] = new /\ \A k \in 1..Len(cut) : cut'[k] = cut[k]
  BY <1>1, <1>2, <1>5, AppendProperties, LenProperties
<1>7. new.scan = scan
  BY DEF new
<1>8. \A k \in 1..Len(cut') : cut'[k].scan <= scan'
  BY <1>1, <1>2, <1>6, <1>7
<1>9. /\ Len(cut') <= MaxChunks /\ Len(cut') > 0
      /\ call' \in {"logging", "dumped"} => Len(cut') < MaxChunks
      /\ cut'[Len(cut')].scan = scan'
  BY <1>1, <1>2, <1>6, <1>7, GnssAssumption DEF GnssAssumption
<1>10. QED
  BY <1>1, <1>2, <1>4, <1>6, <1>8, <1>9 DEF LinesInv, Cutting

\* What saving does to the chunks: the last one gets its file.
LEMMA SaveChunks ==
    ASSUME LinesInv, SaveDumpedChunkToDirectory
    PROVE  /\ Len(cut) \in Nat \ {0} /\ Len(cut') = Len(cut) /\ cut' \in Seq(CutChunk)
           /\ \A k \in 1..Len(cut) : /\ cut'[k].scan = cut[k].scan
                                     /\ cut'[k].file = IF k = Len(cut) THEN dumped
                                                                       ELSE cut[k].file
           /\ \A k \in 1..Len(cut) : cut'[k].first = cut[k].first
<1>1. /\ call \in {"dumped", "lastSave"} /\ cut \in Seq(CutChunk) /\ Len(cut) > 0
      /\ dumped \in Seq(Line)
  BY DEF SaveDumpedChunkToDirectory, LinesInv, Cutting
<1>2. Len(cut) \in Nat \ {0} /\ DOMAIN cut = 1..Len(cut) /\ \A k \in 1..Len(cut) : cut[k] \in CutChunk
  BY <1>1, LenProperties, ElementOfSeq
<1>3. cut' = [cut EXCEPT ![Len(cut)] = [cut[Len(cut)] EXCEPT !.file = dumped]]
  BY <1>1, <1>2 DEF SaveDumpedChunkToDirectory
<1> DEFINE saved == [cut[Len(cut)] EXCEPT !.file = dumped]
<1>4. /\ saved \in CutChunk /\ saved.file = dumped /\ saved.scan = cut[Len(cut)].scan
  <2>1. cut[Len(cut)] \in CutChunk
    BY <1>2
  <2>2. QED
    BY <1>1, <2>1 DEF CutChunk
<1>5. saved.first = cut[Len(cut)].first
  <2>1. cut[Len(cut)] \in CutChunk
    BY <1>2
  <2>2. QED
    BY <2>1, Zenon DEF CutChunk
<1>6. Len(cut) \in 1..Len(cut)
  BY <1>2
<1> HIDE DEF saved
<1>7. cut' = [cut EXCEPT ![Len(cut)] = saved]
  BY <1>3 DEF saved
<1>8. cut' \in Seq(CutChunk) /\ Len(cut') = Len(cut)
  BY <1>1, <1>4, <1>6, <1>7, ExceptSeq
<1>9. \A k \in 1..Len(cut) : cut'[k] = IF k = Len(cut) THEN saved ELSE cut[k]
  BY <1>2, <1>7
<1>10. QED
  BY <1>2, <1>4, <1>5, <1>8, <1>9

LEMMA LinesStep == IInv /\ ClockInv /\ LinesInv /\ [Next]_vars => LinesInv'
<1> SUFFICES ASSUME IInv, ClockInv, LinesInv, [Next]_vars PROVE LinesInv'
  OBVIOUS
<1>1. ASSUME UNCHANGED gnssVars PROVE LinesInv'
  BY <1>1 DEF gnssVars, worker, logger, chunk, LinesInv, Cutting
<1>2. ASSUME StartLog PROVE LinesInv'
  <2>1. /\ call = "idle" /\ scan < MaxScans /\ Len(cut) < MaxChunks
        /\ m_isLogging' = TRUE /\ call' = "logging" /\ scan' = scan + 1
        /\ UNCHANGED <<provider, line, read, m_buffer, pushed, dumped, cut>>
    BY <1>2 DEF StartLog, worker
  <2>2. scan' \in 0..MaxScans /\ scan' > 0 /\ scan <= scan' /\ scan \in Nat
    BY <2>1, GnssAssumption DEF GnssAssumption, LinesInv
  <2>3. \A k \in 1..Len(cut) : cut[k].scan <= scan'
    <3>1. \A k \in 1..Len(cut) : cut[k].scan \in Nat /\ cut[k].scan <= scan
      <4>1. \A k \in 1..Len(cut) : cut[k] \in CutChunk /\ cut[k].scan <= scan
        BY ElementOfSeq DEF LinesInv
      <4>2. QED
        BY <4>1, GnssAssumption DEF CutChunk, GnssAssumption
    <3>2. QED
      BY <2>2, <3>1
  <2>4. /\ m_isLogging' \in BOOLEAN
        /\ m_isLogging' <=> call' \in {"logging", "dumped", "lastDumped"}
    BY <2>1
  <2>5. QED
    BY <2>1, <2>2, <2>3, <2>4 DEF LinesInv, Cutting
<1>3. ASSUME StopLog PROVE LinesInv'
  <2>1. /\ call = "lastDumped" /\ m_isLogging' = FALSE /\ call' = "lastSave"
        /\ UNCHANGED <<provider, line, read, m_buffer, pushed, dumped, scan, cut>>
    BY <1>3 DEF StopLog, worker
  <2>2. /\ m_isLogging' \in BOOLEAN
        /\ m_isLogging' <=> call' \in {"logging", "dumped", "lastDumped"}
    BY <2>1
  <2>3. QED
    BY <2>1, <2>2 DEF LinesInv, Cutting
<1>4. ASSUME SaveDumpedChunkToDirectory PROVE LinesInv'
  <2>1. /\ call \in {"dumped", "lastSave"}
        /\ call' = IF call = "dumped" THEN "logging" ELSE "idle"
        /\ UNCHANGED <<provider, line, read, m_isLogging, m_buffer, pushed, dumped, scan>>
    BY <1>4 DEF SaveDumpedChunkToDirectory, worker, logger
  <2>2. /\ Len(cut') = Len(cut) /\ cut' \in Seq(CutChunk)
        /\ \A k \in 1..Len(cut) : cut'[k].scan = cut[k].scan
    BY <1>4, SaveChunks
  <2>3. /\ m_isLogging' \in BOOLEAN
        /\ m_isLogging' <=> call' \in {"logging", "dumped", "lastDumped"}
    BY <2>1 DEF LinesInv
  <2>4. QED
    BY <2>1, <2>2, <2>3 DEF LinesInv, Cutting
<1>5. CASE Next
  <2>1. \/ ReadLine \/ PushLine \/ StartLog \/ DumpChunkInternally \/ StopLog
        \/ SaveDumpedChunkToDirectory \/ UNCHANGED gnssVars
    BY <1>5 DEF Next, vars
  <2>2. QED
    BY <1>1, <1>2, <1>3, <1>4, <2>1, ReadTypes, PushTypes, DumpTypes
<1>6. QED
  BY <1>1, <1>5 DEF vars

\* Whatever arrives in whatever order, the clock and the client keep their types.
THEOREM TypeCorrect == Spec => []TypeOK
<1>1. Init => IInv /\ ClockInv /\ LinesInv
  BY Initially, ClockInitially, LinesInitially
<1>2. (IInv /\ ClockInv /\ LinesInv) /\ [Next]_vars => (IInv /\ ClockInv /\ LinesInv)'
  BY Step, ClockStep, LinesStep
<1>3. ClockInv /\ LinesInv => TypeOK
  <2> SUFFICES ASSUME ClockInv, LinesInv PROVE TypeOK
    OBVIOUS
  <2>1. cut \in Seq(CutChunk) /\ scan \in 0..MaxScans /\ \A k \in 1..Len(cut) : cut[k].scan <= scan
    BY DEF LinesInv
  <2>2. DOMAIN cut = 1..Len(cut) /\ \A k \in 1..Len(cut) : cut[k] \in CutChunk
    BY <2>1, LenProperties, ElementOfSeq
  <2>3. \A k \in DOMAIN cut : cut[k].scan \in 1..scan
    BY <2>1, <2>2, GnssAssumption DEF CutChunk, GnssAssumption
  <2>4. \A k \in DOMAIN cut : cut[k].first \in BOOLEAN /\ cut[k].file \in Seq(Line)
    BY <2>2 DEF CutChunk
  <2>5. m_isLogging \in BOOLEAN
    BY DEF LinesInv
  <2>6. QED
    BY <2>3, <2>4, <2>5 DEF ClockInv, LinesInv, TypeOK
<1>4. QED
  BY <1>1, <1>2, <1>3, PTL DEF Spec
-----------------------------------------------------------------------------
(* The scans of the lines in a chunk.                                      *)

LEMMA ScanInitially == Init => ScanInv
<1> SUFFICES ASSUME Init PROVE ScanInv
  OBVIOUS
<1>1. m_buffer = << >> /\ cut = << >> /\ call = "idle"
  BY DEF Init
<1>2. Len(m_buffer) = 0 /\ Len(cut) = 0
  BY <1>1, EmptySeq
<1>3. QED
  BY <1>1, <1>2 DEF ScanInv, LateOf, Cutting

\* Only lines put down between the last cut and stopLog are late.
LEMMA PushScans == ASSUME LinesInv, ScanInv, PushLine PROVE ScanInv'
<1>1. UNCHANGED <<dumped, call, scan, cut>>
  BY DEF PushLine, chunk
<1>2. \A k \in 1..Len(cut) : OfChunk(cut[k].file, k)
  BY DEF ScanInv
<1>3. Cutting => OfChunk(dumped, Len(cut))
  BY DEF ScanInv
<1>4. /\ (\A k \in 1..Len(cut) : OfChunk(cut[k].file, k))'
      /\ (Cutting => OfChunk(dumped, Len(cut)))'
  BY <1>1, <1>2, <1>3 DEF OfChunk, Cutting
<1>5. CASE UNCHANGED m_buffer
  BY <1>1, <1>4, <1>5 DEF ScanInv, LateOf, OfScan, NoCutYet
<1>6. CASE m_isLogging /\ m_buffer' = Append(m_buffer, Entry)
  <2>1. call \in {"logging", "dumped", "lastDumped"} /\ m_buffer \in Seq(Line) /\ line \in Line
    BY <1>6 DEF LinesInv
  <2>2. Entry.scan = scan
    BY <2>1 DEF Entry, Line
  <2>3. call = "lastDumped" => Entry.late
    BY <2>1 DEF Entry, Line
  <2>4. Len(m_buffer) \in Nat /\ Len(m_buffer') = Len(m_buffer) + 1
    BY <1>6, <2>1, AppendSeq
  <2>5. \A j \in 1..Len(m_buffer') :
          IF j <= Len(m_buffer) THEN j \in 1..Len(m_buffer) /\ m_buffer'[j] = m_buffer[j]
                                ELSE m_buffer'[j] = Entry
    BY <1>6, <2>1, AppendSeq
  <2>6. CASE call = "lastDumped"
    <3>1. LateOf(m_buffer, scan)
      BY <2>6 DEF ScanInv
    <3>2. LateOf(m_buffer, scan)'
      BY <1>1, <2>2, <2>3, <2>4, <2>5, <2>6, <3>1 DEF LateOf
    <3>3. QED
      BY <1>1, <1>4, <2>6, <3>2 DEF ScanInv
  <2>7. CASE call = "dumped"
    <3>1. OfScan(m_buffer, scan)
      BY <2>7 DEF ScanInv
    <3>2. OfScan(m_buffer, scan)'
      BY <1>1, <2>2, <2>4, <2>5, <3>1 DEF OfScan
    <3>3. QED
      BY <1>1, <1>4, <2>7, <3>2 DEF ScanInv
  <2>8. CASE call = "logging"
    <3>1. \A j \in 1..Len(m_buffer) :
            \/ m_buffer[j].scan = scan
            \/ NoCutYet /\ m_buffer[j].late /\ m_buffer[j].scan = scan - 1
      BY <2>8 DEF ScanInv
    <3>2. NoCutYet' = NoCutYet
      BY <1>1 DEF NoCutYet
    <3>3. \A j \in 1..Len(m_buffer') :
            \/ m_buffer'[j].scan = scan
            \/ NoCutYet /\ m_buffer'[j].late /\ m_buffer'[j].scan = scan - 1
      BY <2>2, <2>4, <2>5, <3>1
    <3>4. QED
      BY <1>1, <1>4, <2>8, <3>2, <3>3 DEF ScanInv
  <2>9. QED
    BY <2>1, <2>6, <2>7, <2>8
<1>7. QED
  BY <1>5, <1>6 DEF PushLine, Logs, Entry

\* What is late for one scan is of the scan before for the next.
LEMMA StartScans == ASSUME LinesInv, ScanInv, StartLog PROVE ScanInv'
<1>1. /\ call = "idle" /\ call' = "logging" /\ scan' = scan + 1
      /\ UNCHANGED <<m_buffer, cut>>
  BY DEF StartLog
<1>2. scan \in Nat /\ scan = scan' - 1
  BY <1>1 DEF LinesInv
<1>3. LateOf(m_buffer, scan)
  BY <1>1 DEF ScanInv
<1>4. NoCutYet'
  <2>1. \A k \in 1..Len(cut) : cut[k] \in CutChunk /\ cut[k].scan <= scan
    BY ElementOfSeq DEF LinesInv
  <2>2. \A k \in 1..Len(cut) : cut[k].scan < scan'
    BY <1>1, <1>2, <2>1, GnssAssumption DEF CutChunk, GnssAssumption
  <2>3. QED
    BY <1>1, <2>2 DEF NoCutYet
<1>5. \A j \in 1..Len(m_buffer) : m_buffer[j].late /\ m_buffer[j].scan = scan' - 1
  BY <1>2, <1>3 DEF LateOf
<1>6. (\A k \in 1..Len(cut) : OfChunk(cut[k].file, k))'
  BY <1>1 DEF ScanInv, OfChunk
<1>7. QED
  BY <1>1, <1>4, <1>5, <1>6 DEF ScanInv, Cutting

\* The chunk's mark tells whether the lines before the first cut are in it.
LEMMA DumpScans == ASSUME LinesInv, ScanInv, DumpChunkInternally PROVE ScanInv'
<1> DEFINE new == [scan |-> scan, file |-> << >>,
                   first |-> \A k \in DOMAIN cut : cut[k].scan < scan]
           n   == Len(cut) + 1
<1>1. /\ call = "logging" /\ call' \in {"dumped", "lastDumped"} /\ cut' = Append(cut, new)
      /\ m_buffer' = << >> /\ dumped' = m_buffer
  BY DEF DumpChunkInternally, Remaining
<1>2. cut \in Seq(CutChunk) /\ Len(cut) \in Nat /\ DOMAIN cut = 1..Len(cut)
  BY LenProperties DEF LinesInv
<1>3. new.scan = scan /\ new.file = << >>
  OBVIOUS
<1>4. NoCutYet => new.first
  BY <1>2 DEF NoCutYet
<1> HIDE DEF new
<1>5. /\ Len(cut') = n /\ cut'[n] = new
      /\ \A k \in 1..Len(cut) : cut'[k] = cut[k]
  <2>1. Len(Append(cut, new)) = n
    BY ONLY <1>2, AppendSeq
  <2>2. \A j \in 1..n : IF j <= Len(cut) THEN Append(cut, new)[j] = cut[j]
                                        ELSE Append(cut, new)[j] = new
    BY ONLY <1>2, AppendSeq
  <2>3. QED
    BY <1>1, <1>2, <2>1, <2>2
<1>6. Len(m_buffer') = 0 /\ Len(new.file) = 0
  BY <1>1, <1>3, EmptySeq
<1>7. \A j \in 1..Len(m_buffer) :
        \/ m_buffer[j].scan = scan
        \/ NoCutYet /\ m_buffer[j].late /\ m_buffer[j].scan = scan - 1
  BY <1>1 DEF ScanInv
<1>8. OfChunk(dumped, Len(cut))'
  BY <1>1, <1>3, <1>4, <1>5, <1>7 DEF OfChunk
<1>9. ASSUME NEW k \in 1..Len(cut') PROVE OfChunk(cut[k].file, k)'
  <2>1. CASE k = n
    BY <1>5, <1>6, <2>1 DEF OfChunk
  <2>2. CASE k # n
    <3>1. k \in 1..Len(cut)
      BY <1>2, <1>5, <2>2
    <3>2. OfChunk(cut[k].file, k)
      BY <3>1 DEF ScanInv
    <3>3. QED
      BY <1>5, <3>1, <3>2 DEF OfChunk
  <2>3. QED
    BY <2>1, <2>2
<1>10. QED
  BY <1>1, <1>6, <1>8, <1>9 DEF ScanInv, LateOf, OfScan

LEMMA SaveScans == ASSUME LinesInv, ScanInv, SaveDumpedChunkToDirectory PROVE ScanInv'
<1>1. /\ call \in {"dumped", "lastSave"}
      /\ call' = IF call = "dumped" THEN "logging" ELSE "idle"
      /\ UNCHANGED <<m_buffer, scan, dumped>>
  BY DEF SaveDumpedChunkToDirectory, logger
<1>2. /\ Len(cut) \in Nat \ {0} /\ Len(cut') = Len(cut)
      /\ \A k \in 1..Len(cut) : /\ cut'[k].scan = cut[k].scan
                                /\ cut'[k].file = IF k = Len(cut) THEN dumped
                                                                  ELSE cut[k].file
      /\ \A k \in 1..Len(cut) : cut'[k].first = cut[k].first
  BY SaveChunks
<1>3. OfChunk(dumped, Len(cut)) /\ \A k \in 1..Len(cut) : OfChunk(cut[k].file, k)
  BY <1>1 DEF ScanInv, Cutting
<1>4. ASSUME NEW k \in 1..Len(cut') PROVE OfChunk(cut[k].file, k)'
  <2>1. k \in 1..Len(cut) /\ OfChunk(cut'[k].file, k)
    BY <1>2, <1>3
  <2>2. QED
    BY <1>2, <2>1 DEF OfChunk
<1>5. CASE call = "dumped"
  <2>1. OfScan(m_buffer, scan)
    BY <1>5 DEF ScanInv
  <2>2. \A j \in 1..Len(m_buffer') : m_buffer'[j].scan = scan'
    BY <1>1, <2>1 DEF OfScan
  <2>3. QED
    BY <1>1, <1>4, <1>5, <2>2 DEF ScanInv, Cutting
<1>6. CASE call = "lastSave"
  <2>1. LateOf(m_buffer, scan)'
    BY <1>1, <1>6 DEF ScanInv, LateOf
  <2>2. QED
    BY <1>1, <1>4, <1>6, <2>1 DEF ScanInv, Cutting
<1>7. QED
  BY <1>1, <1>5, <1>6

LEMMA ScanStep == LinesInv /\ ScanInv /\ [Next]_vars => ScanInv'
<1> SUFFICES ASSUME LinesInv, ScanInv, [Next]_vars PROVE ScanInv'
  OBVIOUS
<1>1. ASSUME UNCHANGED <<m_buffer, dumped, call, scan, cut>> PROVE ScanInv'
  BY <1>1 DEF ScanInv, LateOf, OfScan, OfChunk, NoCutYet, Cutting
<1>2. ASSUME StopLog PROVE ScanInv'
  <2>1. call = "lastDumped" /\ call' = "lastSave" /\ UNCHANGED <<m_buffer, dumped, scan, cut>>
    BY <1>2 DEF StopLog
  <2>2. QED
    BY <2>1 DEF ScanInv, LateOf, OfScan, OfChunk, NoCutYet, Cutting
<1>3. CASE Next
  <2>1. \/ PushLine \/ StartLog \/ DumpChunkInternally \/ StopLog \/ SaveDumpedChunkToDirectory
        \/ UNCHANGED <<m_buffer, dumped, call, scan, cut>>
    BY <1>3 DEF Next, ReadLine, vars, gnssVars, logger, chunk
  <2>2. QED
    BY <1>1, <1>2, <2>1, PushScans, StartScans, DumpScans, SaveScans
<1>4. QED
  BY <1>1, <1>3 DEF vars, gnssVars, logger, chunk

\* No line of a scan that has not begun; a line that the worker holds since before this
\* scan is the first one to be put down in it.
HeldInv ==
    /\ \A i \in 1..Len(pushed) : pushed[i].scan <= scan
    /\ line # NoLine => line.stampedIn <= scan
    /\ line # NoLine /\ line.stampedIn # scan => \A i \in 1..Len(pushed) : pushed[i].scan # scan
    /\ \A j \in 1..Len(pushed) : pushed[j].stampedIn # pushed[j].scan
         => \A i \in 1..(j - 1) : pushed[i].scan # pushed[j].scan

LEMMA HeldInitially == Init => HeldInv
<1> SUFFICES ASSUME Init PROVE HeldInv
  OBVIOUS
<1>1. line = NoLine /\ pushed = << >>
  BY DEF Init
<1>2. Len(pushed) = 0
  BY <1>1, EmptySeq
<1>3. QED
  BY <1>1, <1>2 DEF HeldInv

LEMMA HeldStep == LinesInv /\ HeldInv /\ [Next]_vars => HeldInv'
<1> SUFFICES ASSUME LinesInv, HeldInv, [Next]_vars PROVE HeldInv'
  OBVIOUS
<1>1. scan \in Nat /\ line \in Line /\ pushed \in Seq(Line) /\ Len(pushed) \in Nat
  BY LenProperties DEF LinesInv
<1>2. ASSUME UNCHANGED <<line, pushed, scan>> PROVE HeldInv'
  BY <1>2 DEF HeldInv, NoLine
<1>3. ASSUME ReadLine PROVE HeldInv'
  <2>1. line'.stampedIn = scan /\ UNCHANGED <<pushed, scan>>
    BY <1>3 DEF ReadLine, NoLine, logger, chunk
  <2>2. QED
    BY <1>1, <2>1 DEF HeldInv
<1>4. ASSUME StartLog PROVE HeldInv'
  <2>1. scan' = scan + 1 /\ UNCHANGED <<line, pushed>>
    BY <1>4 DEF StartLog, worker
  <2>2. ASSUME NEW i \in 1..Len(pushed) PROVE pushed[i].scan \in Nat /\ pushed[i].scan <= scan
    <3>1. pushed[i] \in Line
      BY <1>1, ElementOfSeq
    <3>2. QED
      BY <3>1, GnssAssumption DEF HeldInv, Line, GnssAssumption
  <2>3. line.stampedIn \in Nat
    BY <1>1, GnssAssumption DEF Line, GnssAssumption
  <2>4. QED
    BY <1>1, <2>1, <2>2, <2>3 DEF HeldInv, NoLine
<1>5. ASSUME PushLine PROVE HeldInv'
  <2>1. line # NoLine /\ line' = NoLine /\ scan' = scan
    BY <1>5 DEF PushLine, chunk
  <2>2. CASE UNCHANGED pushed
    BY <2>1, <2>2 DEF HeldInv, NoLine
  <2>3. CASE pushed' = Append(pushed, Entry)
    <3>1. Entry.scan = scan /\ Entry.stampedIn = line.stampedIn
      BY <1>1 DEF Entry, Line
    <3>2. Len(pushed') = Len(pushed) + 1
      BY <1>1, <2>3, AppendSeq
    <3>3. \A j \in 1..(Len(pushed) + 1) :
            IF j <= Len(pushed) THEN j \in 1..Len(pushed) /\ pushed'[j] = pushed[j]
                                ELSE pushed'[j] = Entry
      BY <1>1, <2>3, AppendSeq
    <3>4. \A i \in 1..Len(pushed') : pushed'[i].scan <= scan
      BY <1>1, <3>1, <3>2, <3>3 DEF HeldInv
    <3>5. ASSUME NEW j \in 1..Len(pushed'), pushed'[j].stampedIn # pushed'[j].scan,
                 NEW i \in 1..(j - 1)
          PROVE  pushed'[i].scan # pushed'[j].scan
      <4>1. i \in 1..Len(pushed) /\ pushed'[i] = pushed[i]
        BY <1>1, <3>2, <3>3
      <4>2. CASE j <= Len(pushed)
        BY <3>2, <3>3, <3>5, <4>1, <4>2 DEF HeldInv
      <4>3. CASE ~(j <= Len(pushed))
        <5>1. pushed'[j] = Entry
          BY <3>2, <3>3, <4>3
        <5>2. line.stampedIn # scan
          BY <3>1, <3>5, <5>1
        <5>3. QED
          BY <2>1, <3>1, <4>1, <5>1, <5>2 DEF HeldInv
      <4>4. QED
        BY <4>2, <4>3
    <3>6. QED
      BY <2>1, <3>4, <3>5 DEF HeldInv, NoLine
  <2>4. QED
    BY <1>5, <2>2, <2>3 DEF PushLine, Entry
<1>6. CASE Next
  <2>1. ReadLine \/ PushLine \/ StartLog \/ UNCHANGED <<line, pushed, scan>>
    BY <1>6 DEF Next, DumpChunkInternally, StopLog, SaveDumpedChunkToDirectory, vars, gnssVars,
                worker, logger, chunk
  <2>2. QED
    BY <1>2, <1>3, <1>4, <1>5, <2>1
<1>7. QED
  BY <1>2, <1>6 DEF vars, gnssVars, worker, logger, chunk

\* The types with what is to be proved next.
LEMMA TypesStep == (IInv /\ ClockInv /\ LinesInv) /\ [Next]_vars => (IInv /\ ClockInv /\ LinesInv)'
BY Step, ClockStep, LinesStep

\* A chunk holds the lines of its scan; only the first chunk of a scan also holds lines of
\* the scan before it, those that came between that scan's last cut and its stopLog; and
\* only the first line put down in a scan may carry a time from before it.
THEOREM ChunkLinesOfTheirScan == Spec => []LinesOfTheirScan
<1>1. Init => IInv /\ ClockInv /\ LinesInv /\ ScanInv /\ HeldInv
  BY Initially, ClockInitially, LinesInitially, ScanInitially, HeldInitially
<1>2. (IInv /\ ClockInv /\ LinesInv /\ ScanInv /\ HeldInv) /\ [Next]_vars
        => (IInv /\ ClockInv /\ LinesInv /\ ScanInv /\ HeldInv)'
  BY TypesStep, ScanStep, HeldStep
<1>3. LinesInv /\ ScanInv /\ HeldInv => LinesOfTheirScan
  <2> SUFFICES ASSUME LinesInv, ScanInv, HeldInv, NEW k \in DOMAIN cut, NEW j \in DOMAIN cut[k].file
               PROVE  \/ cut[k].file[j].scan = cut[k].scan
                      \/ /\ cut[k].first /\ cut[k].file[j].late
                         /\ cut[k].file[j].scan = cut[k].scan - 1
    <3>1. DOMAIN pushed = 1..Len(pushed)
      BY LenProperties DEF LinesInv
    <3>2. QED
      BY <3>1 DEF LinesOfTheirScan, HeldInv
  <2>1. k \in 1..Len(cut) /\ cut[k] \in CutChunk
    BY LenProperties, ElementOfSeq DEF LinesInv
  <2>2. OfChunk(cut[k].file, k)
    BY <2>1 DEF ScanInv
  <2>3. cut[k].file \in Seq(Line)
    BY <2>1 DEF CutChunk
  <2>4. j \in 1..Len(cut[k].file)
    BY <2>3, LenProperties
  <2>5. QED
    BY <2>2, <2>4 DEF OfChunk
<1>4. QED
  BY <1>1, <1>2, <1>3, PTL DEF Spec
-----------------------------------------------------------------------------
(* Each line is in one chunk.                                              *)

LEMMA SavedInitially == Init => LinesSavedOnce
<1> SUFFICES ASSUME Init PROVE LinesSavedOnce
  OBVIOUS
<1>1. m_buffer = << >> /\ cut = << >> /\ pushed = << >>
  BY DEF Init
<1>2. Len(m_buffer) = 0 /\ Len(cut) = 0 /\ Len(pushed) = 0
  BY <1>1, EmptySeq
<1> DEFINE end == [k \in 0..0 |-> 0]
<1>3. end \in [0..Len(cut) -> 0..Len(pushed)] /\ end[0] = 0
  BY <1>2
<1>4. IsStretch(m_buffer, end[Len(cut)], Len(pushed))
  BY <1>2 DEF IsStretch
<1> HIDE DEF end
<1>5. \A k \in 1..Len(cut) : IsStretch(ChunkLines(k), end[k - 1], end[k])
  BY <1>2
<1>6. QED
  BY <1>3, <1>4, <1>5 DEF LinesSavedOnce

\* Steps that leave the lines of the chunks where they are.
LEMMA SameLines ==
    ASSUME LinesSavedOnce, UNCHANGED <<m_buffer, pushed, Len(cut)>>,
           ASSUME NEW k \in 1..Len(cut) PROVE ChunkLines(k)' = ChunkLines(k)
    PROVE  LinesSavedOnce'
<1>1. PICK end \in [0..Len(cut) -> 0..Len(pushed)] :
        /\ end[0] = 0
        /\ \A k \in 1..Len(cut) : IsStretch(ChunkLines(k), end[k - 1], end[k])
        /\ IsStretch(m_buffer, end[Len(cut)], Len(pushed))
  BY DEF LinesSavedOnce
<1>2. ASSUME NEW k \in 1..Len(cut')
      PROVE  IsStretch(ChunkLines(k), end[k - 1], end[k])'
  <2>1. k \in 1..Len(cut) /\ IsStretch(ChunkLines(k), end[k - 1], end[k])
    BY <1>1
  <2>2. ChunkLines(k)' = ChunkLines(k)
    BY <2>1
  <2>3. QED
    BY <2>1, <2>2 DEF IsStretch
<1>3. IsStretch(m_buffer, end[Len(cut)], Len(pushed))'
  BY <1>1 DEF IsStretch
<1>4. QED
  BY <1>1, <1>2, <1>3 DEF LinesSavedOnce

\* A line put down makes the last stretch longer by one.
LEMMA PushLines == ASSUME LinesInv, LinesSavedOnce, PushLine PROVE LinesSavedOnce'
<1>1. UNCHANGED <<cut, dumped, call>>
  BY DEF PushLine, chunk
<1>2. ASSUME NEW k \in 1..Len(cut) PROVE ChunkLines(k)' = ChunkLines(k)
  BY <1>1 DEF ChunkLines
<1>3. CASE UNCHANGED <<m_buffer, pushed>>
  BY <1>1, <1>2, <1>3, SameLines
<1>4. CASE m_buffer' = Append(m_buffer, Entry) /\ pushed' = Append(pushed, Entry)
  <2> DEFINE p == Len(pushed)  b == Len(m_buffer)
  <2>1. m_buffer \in Seq(Line) /\ pushed \in Seq(Line) /\ Len(cut) \in Nat
    BY LenProperties DEF LinesInv
  <2>2. /\ p \in Nat /\ Len(pushed') = p + 1
        /\ \A j \in 1..(p + 1) : IF j <= p THEN pushed'[j] = pushed[j] ELSE pushed'[j] = Entry
    BY <1>4, <2>1, AppendSeq
  <2>3. /\ b \in Nat /\ Len(m_buffer') = b + 1
        /\ \A j \in 1..(b + 1) :
             IF j <= b THEN m_buffer'[j] = m_buffer[j] ELSE m_buffer'[j] = Entry
    BY <1>4, <2>1, AppendSeq
  <2>4. PICK end \in [0..Len(cut) -> 0..p] :
          /\ end[0] = 0
          /\ \A k \in 1..Len(cut) : IsStretch(ChunkLines(k), end[k - 1], end[k])
          /\ IsStretch(m_buffer, end[Len(cut)], p)
    BY DEF LinesSavedOnce
  <2> HIDE DEF p, b
  <2>5. end \in [0..Len(cut') -> 0..Len(pushed')]
    BY <1>1, <2>2, <2>4
  <2>6. ASSUME NEW k \in 1..Len(cut')
        PROVE  IsStretch(ChunkLines(k), end[k - 1], end[k])'
    <3> DEFINE lines == ChunkLines(k)
    <3>1. k \in 1..Len(cut) /\ ChunkLines(k)' = lines
      BY <1>1, <1>2
    <3>2. end[k - 1] \in 0..p /\ end[k] \in 0..p
      <4>1. k - 1 \in 0..Len(cut) /\ k \in 0..Len(cut)
        BY <2>1, <3>1
      <4>2. QED
        BY <2>4, <4>1
    <3>3. /\ Len(lines) = end[k] - end[k - 1]
          /\ \A j \in 1..Len(lines) : lines[j] = pushed[end[k - 1] + j]
      BY <2>4, <3>1 DEF IsStretch
    <3> HIDE DEF lines
    <3>4. ASSUME NEW j \in 1..Len(lines)
          PROVE  pushed'[end[k - 1] + j] = pushed[end[k - 1] + j]
      <4>1. end[k - 1] + j \in 1..(p + 1) /\ end[k - 1] + j <= p
        BY <2>2, <3>2, <3>3
      <4>2. QED
        BY <2>2, <4>1
    <3>5. QED
      BY <3>1, <3>3, <3>4 DEF IsStretch
  <2>7. IsStretch(m_buffer, end[Len(cut)], Len(pushed))'
    <3>1. end[Len(cut)] \in 0..p
      BY <2>1, <2>4
    <3>2. /\ b = p - end[Len(cut)]
          /\ \A j \in 1..b : m_buffer[j] = pushed[end[Len(cut)] + j]
      BY <2>4 DEF IsStretch, b
    <3>3. Len(m_buffer') = Len(pushed') - end[Len(cut)]
      BY <2>2, <2>3, <3>1, <3>2
    <3>4. ASSUME NEW j \in 1..Len(m_buffer')
          PROVE  m_buffer'[j] = pushed'[end[Len(cut)] + j]
      <4>1. /\ j \in 1..(b + 1) /\ end[Len(cut)] + j \in 1..(p + 1)
            /\ j <= b <=> end[Len(cut)] + j <= p
        BY <2>2, <2>3, <3>1, <3>2
      <4>2. CASE j <= b
        <5>1. m_buffer'[j] = m_buffer[j] /\ j \in 1..b
          BY <2>3, <4>1, <4>2
        <5>2. pushed'[end[Len(cut)] + j] = pushed[end[Len(cut)] + j]
          BY <2>2, <4>1, <4>2
        <5>3. QED
          BY <3>2, <5>1, <5>2
      <4>3. CASE ~(j <= b)
        <5>1. m_buffer'[j] = Entry
          BY <2>3, <4>1, <4>3
        <5>2. pushed'[end[Len(cut)] + j] = Entry
          BY <2>2, <4>1, <4>3
        <5>3. QED
          BY <5>1, <5>2
      <4>4. QED
        BY <4>2, <4>3
    <3>5. QED
      BY <1>1, <3>3, <3>4 DEF IsStretch
  <2>8. QED
    BY <2>4, <2>5, <2>6, <2>7 DEF LinesSavedOnce
<1>5. QED
  BY <1>3, <1>4 DEF PushLine, Entry

\* A dump ends the last stretch and begins an empty one.
LEMMA DumpLines == ASSUME LinesInv, LinesSavedOnce, DumpChunkInternally PROVE LinesSavedOnce'
<1> DEFINE new == [scan |-> scan, file |-> << >>,
                   first |-> \A k \in DOMAIN cut : cut[k].scan < scan]
           n   == Len(cut) + 1
           p   == Len(pushed)
<1>1. /\ call = "logging" /\ call' \in {"dumped", "lastDumped"} /\ cut' = Append(cut, new)
      /\ m_buffer' = << >> /\ dumped' = m_buffer /\ pushed' = pushed
  BY DEF DumpChunkInternally, Remaining
<1> HIDE DEF new
<1>2. Len(cut) \in Nat /\ p \in Nat /\ cut \in Seq(CutChunk)
  BY LenProperties DEF LinesInv
<1>3. Len(cut') = n /\ \A j \in 1..n : j <= Len(cut) => cut'[j] = cut[j]
  BY <1>1, <1>2, AppendSeq
<1>4. PICK end \in [0..Len(cut) -> 0..p] :
        /\ end[0] = 0
        /\ \A k \in 1..Len(cut) : IsStretch(ChunkLines(k), end[k - 1], end[k])
        /\ IsStretch(m_buffer, end[Len(cut)], p)
  BY DEF LinesSavedOnce
<1>5. PICK to : to = [k \in 0..n |-> IF k = n THEN p ELSE end[k]]
  OBVIOUS
<1>6. /\ to \in [0..Len(cut') -> 0..Len(pushed')] /\ to[0] = 0 /\ to[n] = p
      /\ \A k \in 0..Len(cut) : to[k] = end[k]
  BY <1>1, <1>2, <1>3, <1>4, <1>5
<1>7. ASSUME NEW k \in 1..Len(cut') PROVE IsStretch(ChunkLines(k), to[k - 1], to[k])'
  <2>1. CASE k = n
    <3>1. ChunkLines(k)' = m_buffer
      BY <1>1, <1>3, <2>1 DEF ChunkLines
    <3>2. to[k - 1] = end[Len(cut)] /\ to[k] = p
      BY <1>2, <1>6, <2>1
    <3>3. QED
      BY <1>1, <1>4, <3>1, <3>2 DEF IsStretch
  <2>2. CASE k # n
    <3>1. k \in 1..Len(cut) /\ k # Len(cut') /\ k <= Len(cut)
      BY <1>2, <1>3, <2>2
    <3>2. ChunkLines(k)' = cut[k].file /\ ChunkLines(k) = cut[k].file
      BY <1>1, <1>2, <1>3, <3>1 DEF ChunkLines
    <3>3. to[k - 1] = end[k - 1] /\ to[k] = end[k]
      BY <1>2, <1>6, <3>1
    <3>4. IsStretch(ChunkLines(k), end[k - 1], end[k])
      BY <1>4, <3>1
    <3>5. QED
      BY <1>1, <3>2, <3>3, <3>4 DEF IsStretch
  <2>3. QED
    BY <2>1, <2>2
<1>8. IsStretch(m_buffer, to[Len(cut)], Len(pushed))'
  <2>1. Len(m_buffer') = 0 /\ to[Len(cut')] = Len(pushed')
    BY <1>1, <1>3, <1>6, EmptySeq
  <2>2. QED
    BY <1>1, <1>2, <2>1 DEF IsStretch
<1>9. QED
  BY <1>6, <1>7, <1>8 DEF LinesSavedOnce

LEMMA SavedStep == LinesInv /\ LinesSavedOnce /\ [Next]_vars => LinesSavedOnce'
<1> SUFFICES ASSUME LinesInv, LinesSavedOnce, [Next]_vars PROVE LinesSavedOnce'
  OBVIOUS
<1>1. ASSUME UNCHANGED <<m_buffer, pushed, dumped, call, cut>> PROVE LinesSavedOnce'
  <2>1. ASSUME NEW k \in 1..Len(cut) PROVE ChunkLines(k)' = ChunkLines(k)
    BY <1>1 DEF ChunkLines
  <2>2. QED
    BY <1>1, <2>1, SameLines
<1>2. ASSUME StartLog \/ StopLog PROVE LinesSavedOnce'
  <2>1. /\ UNCHANGED <<m_buffer, pushed, dumped, cut>>
        /\ call \in {"idle", "logging"} <=> call' \in {"idle", "logging"}
    BY <1>2 DEF StartLog, StopLog
  <2>2. ASSUME NEW k \in 1..Len(cut) PROVE ChunkLines(k)' = ChunkLines(k)
    BY <2>1 DEF ChunkLines
  <2>3. QED
    BY <2>1, <2>2, SameLines
<1>3. ASSUME SaveDumpedChunkToDirectory PROVE LinesSavedOnce'
  <2>1. /\ call \in {"dumped", "lastSave"} /\ call' \in {"logging", "idle"}
        /\ UNCHANGED <<m_buffer, pushed>>
    BY <1>3 DEF SaveDumpedChunkToDirectory, logger
  <2>2. /\ Len(cut') = Len(cut)
        /\ \A k \in 1..Len(cut) : cut'[k].file = IF k = Len(cut) THEN dumped ELSE cut[k].file
    BY <1>3, SaveChunks
  <2>3. ASSUME NEW k \in 1..Len(cut) PROVE ChunkLines(k)' = ChunkLines(k)
    BY <2>1, <2>2 DEF ChunkLines
  <2>4. QED
    BY <2>1, <2>2, <2>3, SameLines
<1>4. CASE Next
  <2>1. \/ PushLine \/ (StartLog \/ StopLog) \/ DumpChunkInternally \/ SaveDumpedChunkToDirectory
        \/ UNCHANGED <<m_buffer, pushed, dumped, call, cut>>
    BY <1>4 DEF Next, ReadLine, vars, gnssVars, logger, chunk
  <2>2. QED
    BY <1>1, <1>2, <1>3, <2>1, PushLines, DumpLines
<1>5. QED
  BY <1>1, <1>4 DEF vars, gnssVars, logger, chunk

\* However the worker, the dumps and stopLog interleave, every line that was taken into
\* the buffer is in one chunk, once and in its place, or still in the buffer
\* (retrieveData swaps the buffer under the lock that the worker appends under).
THEOREM LinesSaved == Spec => []LinesSavedOnce
<1>1. Init => IInv /\ ClockInv /\ LinesInv /\ LinesSavedOnce
  BY Initially, ClockInitially, LinesInitially, SavedInitially
<1>2. (IInv /\ ClockInv /\ LinesInv /\ LinesSavedOnce) /\ [Next]_vars
        => (IInv /\ ClockInv /\ LinesInv /\ LinesSavedOnce)'
  BY TypesStep, SavedStep
<1>3. QED
  BY <1>1, <1>2, PTL DEF Spec
-----------------------------------------------------------------------------
(* The time never runs backwards.                                          *)

LEMMA LaserInitially == Init => LaserInv
<1> SUFFICES ASSUME Init PROVE LaserInv
  OBVIOUS
<1>1. heard = {} /\ line = NoLine /\ pushed = << >>
  BY DEF Init, ClockInit
<1>2. Stamped = {}
  BY <1>1, EmptySeq DEF Stamped
<1>3. QED
  BY <1>1, <1>2 DEF LaserInv, TimeInv

\* The first points' stamps and the lines' stamps are numbers.
LEMMA PointsAndLines ==
    ASSUME ClockInv, LinesInv
    PROVE  /\ \A s \in Points : /\ s \in samples /\ s.stamp \in Nat
                                /\ s.arrival \in 1..arrivals
           /\ \A entry \in Stamped : entry.stamp \in Nat /\ entry.arrivals \in Nat
           /\ m_timestamp \in Nat /\ arrivals \in Nat
<1>1. \A s \in Points : s \in samples /\ s.stamp \in Nat /\ s.arrival \in 1..arrivals
  BY ClockAssumption DEF Points, ClockInv, ClockTypeOK, Stamp, ClockAssumption
<1>2. Stamped \subseteq Line
  BY ElementOfSeq DEF Stamped, LinesInv
<1>3. \A entry \in Line : entry.stamp \in Nat /\ entry.arrivals \in Nat
  BY ClockAssumption DEF Line, Stamp, ClockAssumption
<1>4. m_timestamp \in Nat /\ arrivals \in Nat
  BY ClockAssumption DEF ClockInv, ClockTypeOK, Stamp, ClockAssumption
<1>5. QED
  BY <1>1, <1>2, <1>3, <1>4

\* A later packet of the only lidar start that is heard carries a later time.
LEMMA PointLaser ==
    ASSUME IInv, ClockInv, LinesInv, LaserInv, NEW l \in Lidars, NEW taken \in 0..now,
           PointCloudCallback(l, [taken |-> taken, boot |-> boot[l]]),
           UNCHANGED gnssVars
    PROVE  LaserInv'
<1> DEFINE packet == [taken |-> taken, boot |-> boot[l]]
           delay  == DelayAfter(taken - boot[l])
<1>1. /\ boot[l] \in Nat /\ taken \in Nat /\ last[l]["point"] \in Nat
      /\ last[l]["point"] <= taken /\ last'[l]["point"] = taken
  BY DEF PointCloudCallback, Arrives, Kinds, IInv, WorldInv
<1>2. /\ systemTimestampDelay' = delay /\ arrivals' = arrivals + 1
      /\ heard' = heard \cup {<<l, boot[l]>>}
      /\ UNCHANGED <<provider, pushed, line>>
  BY DEF PointCloudCallback, Ts, gnssVars, worker, logger
<1>3. /\ delay \in 0..MaxTime /\ m_timestamp' = taken - boot[l] + delay
      /\ m_timestamp' \in Nat
      /\ m_timestamp # Sentinel => delay = systemTimestampDelay
  BY PointTimes
<1> HIDE DEF delay
<1>4. /\ m_timestamp \in Nat /\ arrivals \in Nat
      /\ \A s \in Points : s.stamp \in Nat /\ s.arrival \in 1..arrivals
      /\ \A entry \in Stamped : entry.stamp \in Nat /\ entry.arrivals \in Nat
  BY PointsAndLines
<1>5. ASSUME NEW s \in Points', s \notin Points
      PROVE  s.stamp = m_timestamp' /\ s.arrival = arrivals + 1
  <2>1. s \in samples' /\ s \notin samples /\ s.kind = "point" /\ s.dot = 0
    BY <1>5 DEF Points
  <2>2. PICK i \in 0..(Dots - 1) :
          s = Sampled("point", packet, i, DelayAfter(Ts(packet)))
    BY <2>1 DEF PointCloudCallback
  <2>3. /\ s.dot = i /\ s.arrival = arrivals'
        /\ s.stamp = StampOf(Ts(packet), i, DelayAfter(Ts(packet)))
    BY <2>2 DEF Sampled
  <2>4. m_timestamp' = StampOf(Ts(packet), 0, DelayAfter(Ts(packet)))
    BY DEF PointCloudCallback
  <2>5. QED
    BY <1>2, <2>1, <2>3, <2>4
<1>6. arrivals > 0 => m_timestamp # Sentinel
  BY <1>4 DEF IInv, DelayInv
<1>7. ASSUME NEW h, heard' = {h}, arrivals > 0
      PROVE  /\ heard = {h} /\ m_timestamp <= m_timestamp'
             /\ \A s \in Points : s.stamp <= m_timestamp
  <2>1. heard # {}
    BY <1>4, <1>7 DEF ClockInv
  <2>2. h = <<l, boot[l]>> /\ heard = {h}
    BY <1>2, <1>7, <2>1
  <2>3. h[1] = l /\ h[2] = boot[l]
    BY <2>2
  <2>4. /\ m_timestamp <= last[l]["point"] - boot[l] + systemTimestampDelay
        /\ \A s \in Points : s.stamp <= m_timestamp
    BY <2>2, <2>3 DEF LaserInv, TimeInv
  <2>5. systemTimestampDelay = delay
    BY <1>3, <1>6, <1>7
  <2>6. QED
    BY <1>1, <1>3, <1>4, <2>2, <2>4, <2>5
<1>8. TimeInv'
  <2> SUFFICES ASSUME NEW h, heard' = {h}
               PROVE  /\ m_timestamp' <= last'[h[1]]["point"] - h[2] + systemTimestampDelay'
                      /\ \A s \in Points' : s.stamp <= m_timestamp'
    BY DEF TimeInv
  <2>1. h[1] = l /\ h[2] = boot[l]
    <3>1. <<l, boot[l]>> \in heard'
      BY <1>2
    <3>2. h = <<l, boot[l]>>
      BY <3>1
    <3>3. QED
      BY <3>2
  <2>2. m_timestamp' <= last'[h[1]]["point"] - h[2] + systemTimestampDelay'
    BY <1>1, <1>2, <1>3, <2>1
  <2>3. ASSUME NEW s \in Points' PROVE s.stamp <= m_timestamp'
    <3>1. CASE s \in Points
      BY <1>3, <1>4, <1>7, <3>1
    <3>2. CASE s \notin Points
      BY <1>3, <1>5, <3>2
    <3>3. QED
      BY <3>1, <3>2
  <2>4. QED
    BY <2>2, <2>3
<1>9. ASSUME provider' = "lidar", NEW entry \in Stamped'
      PROVE  EntryInv(entry)'
  <2>1. entry \in Stamped /\ entry.stamp \in Nat /\ entry.arrivals \in Nat
    BY <1>2, <1>4, <1>9 DEF Stamped
  <2>2. EntryInv(entry)
    BY <1>2, <1>9, <2>1 DEF LaserInv
  <2>3. entry.arrivals <= arrivals' /\ arrivals' > 0
    BY <1>2, <1>4, <2>1, <2>2 DEF EntryInv
  <2>4. ASSUME entry.stamp # Sentinel, NEW h, heard' = {h}
        PROVE  entry.stamp <= m_timestamp' /\ Follows(entry)'
    <3>1. arrivals > 0
      BY <2>2, <2>4 DEF EntryInv
    <3>2. heard = {h} /\ m_timestamp <= m_timestamp'
      BY <1>7, <2>4, <3>1
    <3>3. entry.stamp <= m_timestamp /\ Follows(entry)
      BY <2>2, <2>4, <3>2 DEF EntryInv
    <3>4. entry.stamp <= m_timestamp'
      BY <1>3, <1>4, <2>1, <3>2, <3>3
    <3>5. ASSUME NEW s \in Points'
          PROVE  IF s.arrival <= entry.arrivals THEN s.stamp <= entry.stamp
                                                ELSE entry.stamp <= s.stamp
      <4>1. CASE s \in Points
        BY <3>3, <4>1 DEF Follows
      <4>2. CASE s \notin Points
        <5>1. s.stamp = m_timestamp' /\ s.arrival = arrivals + 1
          BY <1>5, <4>2
        <5>2. ~(s.arrival <= entry.arrivals)
          BY <1>4, <2>1, <2>2, <5>1 DEF EntryInv
        <5>3. QED
          BY <3>4, <5>1, <5>2
      <4>3. QED
        BY <4>1, <4>2
    <3>6. QED
      BY <3>4, <3>5 DEF Follows
  <2>5. Sentinel' = Sentinel
    BY DEF Sentinel
  <2>6. QED
    BY <2>3, <2>4, <2>5 DEF EntryInv
<1>10. QED
  BY <1>8, <1>9 DEF LaserInv

\* A step that moves no time: the world's, an IMU packet, or one of other threads.
LEMMA OtherLaser ==
    ASSUME IInv, ClockInv, LinesInv, LaserInv,
           UNCHANGED <<m_timestamp, systemTimestampDelay, heard, arrivals, provider>>,
           Points' = Points,
           \A m \in Lidars : last'[m]["point"] >= last[m]["point"] /\ last'[m]["point"] \in Int,
           \A entry \in Stamped' :
             \/ \E old \in Stamped :
                  entry.stamp = old.stamp /\ entry.arrivals = old.arrivals
             \/ provider = "lidar" /\ entry.stamp = m_timestamp /\ entry.arrivals = arrivals
             \/ provider # "lidar"
    PROVE  LaserInv'
<1>1. Sentinel' = Sentinel /\ NoLine' = NoLine
  BY DEF Sentinel, NoLine
<1>2. /\ m_timestamp \in Nat /\ arrivals \in Nat
      /\ \A s \in Points : s.stamp \in Nat /\ s.arrival \in 1..arrivals
  BY PointsAndLines
<1>3. TimeInv'
  <2> SUFFICES ASSUME NEW h, heard = {h}
               PROVE  /\ m_timestamp <= last'[h[1]]["point"] - h[2] + systemTimestampDelay
                      /\ \A s \in Points : s.stamp <= m_timestamp
    BY DEF TimeInv
  <2>1. /\ m_timestamp <= last[h[1]]["point"] - h[2] + systemTimestampDelay
        /\ \A s \in Points : s.stamp <= m_timestamp
    BY DEF LaserInv, TimeInv
  <2>2. h[1] \in Lidars /\ h[2] \in Int
    BY DEF ClockInv, ClockTypeOK, Start
  <2>3. /\ last[h[1]]["point"] \in Int /\ systemTimestampDelay \in Int
        /\ last'[h[1]]["point"] \in Int /\ last'[h[1]]["point"] >= last[h[1]]["point"]
    BY <2>2 DEF Kinds, IInv, WorldInv, DelayInv
  <2>4. QED
    BY <1>2, <2>1, <2>2, <2>3
<1>4. ASSUME provider = "lidar", NEW entry \in Stamped'
      PROVE  EntryInv(entry)'
  <2>1. CASE \E old \in Stamped : entry.stamp = old.stamp /\ entry.arrivals = old.arrivals
    <3>1. PICK old \in Stamped : entry.stamp = old.stamp /\ entry.arrivals = old.arrivals
      BY <2>1
    <3>2. EntryInv(old)
      BY <1>4, <3>1 DEF LaserInv
    <3>3. QED
      BY <1>1, <3>1, <3>2 DEF EntryInv, Follows
  <2>2. CASE entry.stamp = m_timestamp /\ entry.arrivals = arrivals
    <3>1. entry.stamp # Sentinel => arrivals > 0
      BY <1>2, <2>2 DEF IInv, DelayInv
    <3>2. ASSUME NEW h, heard = {h} PROVE Follows(entry)'
      <4>1. \A s \in Points : s.stamp <= m_timestamp
        BY <3>2 DEF LaserInv, TimeInv
      <4>2. QED
        BY <1>2, <2>2, <4>1 DEF Follows
    <3>3. /\ entry.arrivals <= arrivals' /\ (entry.stamp # Sentinel' => arrivals' > 0)
          /\ entry.stamp <= m_timestamp'
      BY <1>1, <1>2, <2>2, <3>1
    <3>4. QED
      BY <3>2, <3>3 DEF EntryInv
  <2>3. QED
    BY <1>4, <2>1, <2>2
<1>5. QED
  BY <1>3, <1>4 DEF LaserInv

LEMMA LaserStep == (IInv /\ ClockInv /\ LinesInv) /\ LaserInv /\ [Next]_vars => LaserInv'
<1> SUFFICES ASSUME IInv, ClockInv, LinesInv, LaserInv, [Next]_vars PROVE LaserInv'
  OBVIOUS
<1> DEFINE Clock == <<m_timestamp, systemTimestampDelay, heard, arrivals, provider>>
           OldOrNew == \A entry \in Stamped' :
             \/ \E old \in Stamped :
                  entry.stamp = old.stamp /\ entry.arrivals = old.arrivals
             \/ provider = "lidar" /\ entry.stamp = m_timestamp /\ entry.arrivals = arrivals
             \/ provider # "lidar"
           Later == \A m \in Lidars : /\ last'[m]["point"] >= last[m]["point"]
                                      /\ last'[m]["point"] \in Int
<1>1. UNCHANGED <<pushed, line>> => OldOrNew
  BY DEF Stamped
<1>2. \A m \in Lidars : last[m]["point"] \in Int /\ last[m]["point"] <= now /\ now \in Int
  BY DEF IInv, WorldInv, ClockInv, ClockTypeOK, Kinds
<1>3. UNCHANGED samples => Points' = Points
  BY DEF Points
<1>4. UNCHANGED last => Later
  BY <1>2
<1>5. ASSUME UNCHANGED clockVars, OldOrNew, UNCHANGED provider PROVE LaserInv'
  <2>1. UNCHANGED Clock /\ UNCHANGED <<samples, last>>
    BY <1>5 DEF clockVars, world, clock, stamped
  <2>2. QED
    BY <1>3, <1>4, <1>5, <2>1, OtherLaser
<1>6. ASSUME ReadLine PROVE LaserInv'
  <2>1. /\ pushed' = pushed /\ UNCHANGED clockVars /\ UNCHANGED provider
        /\ line'.stamp = GetTimeStamp /\ line'.arrivals = arrivals
    BY <1>6 DEF ReadLine, logger, NoLine
  <2>2. provider = "lidar" => GetTimeStamp = m_timestamp
    BY DEF GetTimeStamp
  <2>3. OldOrNew
    BY <2>1, <2>2 DEF Stamped
  <2>4. QED
    BY <1>5, <2>1, <2>3
<1>7. ASSUME PushLine PROVE LaserInv'
  <2>1. /\ line # NoLine /\ line' = NoLine /\ UNCHANGED clockVars /\ UNCHANGED provider
        /\ UNCHANGED pushed \/ pushed' = Append(pushed, Entry)
    BY <1>7 DEF PushLine, Entry
  <2>2. line \in Line /\ pushed \in Seq(Line)
    BY DEF LinesInv
  <2>3. Entry.stamp = line.stamp /\ Entry.arrivals = line.arrivals
    BY <2>2 DEF Entry, Line
  <2>4. \A entry \in Stamped' : entry = Entry \/ entry \in Stamped
    <3>1. CASE UNCHANGED pushed
      BY <2>1, <3>1 DEF Stamped
    <3>2. CASE pushed' = Append(pushed, Entry)
      <4>1. /\ Len(pushed') = Len(pushed) + 1
            /\ \A j \in 1..Len(pushed') : \/ j \in 1..Len(pushed) /\ pushed'[j] = pushed[j]
                                          \/ pushed'[j] = Entry
        BY <2>2, <3>2, AppendSeq
      <4>2. QED
        BY <2>1, <4>1 DEF Stamped
    <3>3. QED
      BY <2>1, <3>1, <3>2
  <2>5. line \in Stamped
    BY <2>1 DEF Stamped
  <2>6. OldOrNew
    BY <2>1, <2>3, <2>4, <2>5
  <2>7. QED
    BY <1>5, <2>1, <2>6
<1>8. ASSUME UNCHANGED gnssVars, Tick PROVE LaserInv'
  <2>1. UNCHANGED Clock /\ UNCHANGED <<samples, last, pushed, line>>
    BY <1>8 DEF Tick, world, clock, stamped, gnssVars, worker, logger
  <2>2. QED
    BY <1>1, <1>3, <1>4, <2>1, OtherLaser
<1>9. ASSUME UNCHANGED gnssVars, NEW l \in Lidars, Restart(l) PROVE LaserInv'
  <2>1. /\ UNCHANGED Clock /\ UNCHANGED <<samples, pushed, line>>
        /\ last' = [last EXCEPT ![l] = [kind \in Kinds |-> now]]
    BY <1>9 DEF Restart, clock, stamped, gnssVars, worker, logger
  <2>2. Later
    BY <1>2, <2>1 DEF IInv, WorldInv, Kinds
  <2>3. QED
    BY <1>1, <1>3, <2>1, <2>2, OtherLaser
<1>10. ASSUME UNCHANGED gnssVars, NEW l \in Lidars, NEW taken \in 0..now,
              ImuDataCallback(l, [taken |-> taken, boot |-> boot[l]])
       PROVE  LaserInv'
  <2> DEFINE sample == Sampled("imu", [taken |-> taken, boot |-> boot[l]], 0,
                               systemTimestampDelay)
  <2>1. UNCHANGED Clock /\ UNCHANGED <<pushed, line>>
    BY <1>10 DEF ImuDataCallback, TimestampAfterImu, gnssVars, worker, logger
  <2>2. Points' = Points
    <3>1. sample.kind = "imu"
      BY DEF Sampled
    <3>2. samples' = samples \/ samples' = samples \cup {sample}
      BY <1>10 DEF ImuDataCallback
    <3> HIDE DEF sample
    <3>3. QED
      BY <3>1, <3>2 DEF Points
  <2>3. Later
    <3>1. last' = [last EXCEPT ![l]["imu"] = taken]
      BY <1>10 DEF ImuDataCallback, Arrives
    <3>2. \A m \in Lidars : last'[m]["point"] = last[m]["point"]
      BY <3>1 DEF IInv, WorldInv, Kinds
    <3>3. QED
      BY <1>2, <3>2
  <2>4. QED
    BY <1>1, <2>1, <2>2, <2>3, OtherLaser
<1>11. CASE Next
  <2>1. \/ ReadLine \/ PushLine
        \/ UNCHANGED clockVars /\ UNCHANGED <<provider, line, pushed>>
        \/ UNCHANGED gnssVars /\ (Tick \/ ClockNext)
    BY <1>11 DEF Next, StartLog, DumpChunkInternally, StopLog, SaveDumpedChunkToDirectory,
                 vars, gnssVars, worker, logger
  <2>2. ASSUME UNCHANGED gnssVars, ClockNext PROVE LaserInv'
    <3>1. \/ \E l \in Lidars : Restart(l)
          \/ \E l \in Lidars, taken \in 0..now :
               \/ PointCloudCallback(l, [taken |-> taken, boot |-> boot[l]])
               \/ ImuDataCallback(l, [taken |-> taken, boot |-> boot[l]])
      BY <2>2 DEF ClockNext
    <3>2. QED
      BY <1>9, <1>10, <2>2, <3>1, PointLaser
  <2>3. QED
    BY <1>1, <1>5, <1>6, <1>7, <1>8, <2>1, <2>2
<1>12. CASE UNCHANGED vars
  BY <1>1, <1>5, <1>12 DEF vars, gnssVars, worker, logger
<1>13. QED
  BY <1>11, <1>12

\* While the points come from one start of one lidar, the lines are stamped after the
\* points that came before them and before those that came after: the time that the lidar
\* client provides never runs backwards, however the threads interleave.
THEOREM LaserFollowed == Spec => []LinesFollowTheLaser
<1>1. Init => IInv /\ ClockInv /\ LinesInv /\ LaserInv
  BY Initially, ClockInitially, LinesInitially, LaserInitially
<1>2. (IInv /\ ClockInv /\ LinesInv /\ LaserInv) /\ [Next]_vars
        => (IInv /\ ClockInv /\ LinesInv /\ LaserInv)'
  BY TypesStep, LaserStep
<1>3. ClockInv /\ LinesInv /\ LaserInv => LinesFollowTheLaser
  <2> SUFFICES ASSUME ClockInv, LinesInv, LaserInv, NEW j \in DOMAIN pushed, NEW s \in samples,
                      provider = "lidar", Cardinality(heard) = 1, s.kind = "point",
                      s.dot = 0, pushed[j].stamp # Sentinel
               PROVE  IF s.arrival <= pushed[j].arrivals THEN s.stamp <= pushed[j].stamp
                                                         ELSE pushed[j].stamp <= s.stamp
    BY DEF LinesFollowTheLaser
  <2>1. \E h : heard = {h}
    BY FS_Singleton DEF ClockInv
  <2>2. pushed[j] \in Stamped
    BY LenProperties DEF Stamped, LinesInv
  <2>3. Follows(pushed[j])
    BY <2>1, <2>2 DEF LaserInv, EntryInv
  <2>4. QED
    BY <2>3 DEF Follows, Points
<1>4. QED
  BY <1>1, <1>2, <1>3, PTL DEF Spec
=============================================================================
