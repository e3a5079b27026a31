----------------------------- MODULE LivoxClient -----------------------------
(***************************************************************************)
(* The lidar client (src/src/clients/concrete/LivoxClient.cpp): the SDK's  *)
(* threads bring points and IMU samples into two buffers, which exist only *)
(* while logging, and announce lidars; the state machine's thread starts   *)
(* and stops logging and cuts chunks.                                      *)
(*                                                                         *)
(* A packet names its lidar by a handle, the files by an id: the position   *)
(* of the lidar's serial number among those seen so far. A lidar is         *)
(* represented by its serial number, a number here. Every sample is         *)
(* numbered as it is put into its buffer.                                   *)
(***************************************************************************)
EXTENDS Integers, Sequences, FiniteSets, SaveLaz

CONSTANTS
    Lidars,       \* the lidars there are
    Known,        \* those that were announced before the model starts
    MaxSamples,   \* BOUND: no more packets arrive once so many samples are in the buffers
    MaxChunks     \* BOUND: chunks in all

NoLidar == -1
NoId    == 255    \* the id of an unknown handle: an id only if there were as many lidars

ASSUME LidarsAssumption ==
    /\ Lidars \subseteq Nat /\ Known \subseteq Lidars
    /\ IsFiniteSet(Lidars) /\ Cardinality(Lidars) <= NoId
ASSUME BoundsAssumption == MaxSamples \in Nat /\ MaxChunks \in Nat

VARIABLES
    m_serialNumbers,
    announced,    \* the lidar that LidarInfoChangeCallback is entering, or NoLidar
    callback,     \* per kind of sample: the packet the SDK's thread works on, its id and
                  \* (history) the lidars among which the id was counted
    logging,      \* m_bufferLivoxPtr and m_bufferIMUPtr are not null
    buffer,       \* per kind: the samples in the buffer
    dumped,       \* per kind: the samples put aside by dumpChunkInternally
    mapping,      \* the id-to-serial-number table put aside with them and (history) the
                  \* lidars known when it was made
    call,         \* what the state machine does with this client
    received,     \* history: samples put into the buffers
    cuts,         \* history: `received` at each cut
    discarded,    \* history: the numbers of the samples that reached no file: thrown away
                  \* by stopLog or startLog, thinned out, or cut off by a failure
    saved,        \* history: the samples written, with their chunk
    files         \* history: per chunk, the table, the header's number of points, and
                  \* whether saveLaz came to its end

known == <<m_serialNumbers, announced>>
buffers == <<logging, buffer>>
chunk == <<dumped, mapping, cuts>>
written == <<discarded, saved, files>>
vars == <<known, callback, buffers, received, chunk, call, written>>

Kinds   == {"point", "imu"}
NoFile  == -1
Sample  == [n : Nat \ {0}, kind : Kinds, lidar : Lidars, id : Nat, among : SUBSET Lidars]
None    == [kind \in Kinds |-> {}]
Numbers(samples) == {s.n : s \in samples}
Idle    == [lidar |-> NoLidar, id |-> NoId, among |-> {}]

TypeOK ==
    /\ m_serialNumbers \subseteq Lidars
    /\ announced \in Lidars \cup {NoLidar}
    /\ \A kind \in Kinds :
         /\ callback[kind].lidar \in Lidars \cup {NoLidar} /\ callback[kind].id \in Nat
         /\ buffer[kind] \subseteq Sample
         /\ dumped[kind] \subseteq Sample
    /\ logging \in BOOLEAN
    /\ mapping.table \subseteq Nat \X Lidars /\ mapping.among \subseteq Lidars
    /\ call \in {"idle", "logging", "mapping", "dumped", "lastDumped", "lastSave"}
    /\ received \in Nat
    /\ cuts \in Seq(Nat)
    /\ discarded \subseteq 1..received
    /\ \A s \in saved : s.sample \in Sample /\ s.chunk \in 1..Len(cuts)
    /\ \A k \in DOMAIN files :
         /\ files[k].table \subseteq Nat \X Lidars
         /\ files[k].points \in Nat \cup {NoFile} /\ files[k].complete \in BOOLEAN

Init ==
    /\ m_serialNumbers = Known /\ announced = NoLidar
    /\ callback = [kind \in Kinds |-> Idle]
    /\ logging = FALSE
    /\ buffer = None /\ dumped = None
    /\ mapping = [table |-> {}, among |-> {}]
    /\ call = "idle"
    /\ received = 0 /\ cuts = << >>
    /\ discarded = {} /\ saved = {} /\ files = << >>

-----------------------------------------------------------------------------
(* The SDK's threads.                                                      *)

\* BOUND: after the last cut no more packets arrive and no more lidars are announced.
Running == Len(cuts) < MaxChunks

\* Mutant of IdAmong: the position less one.
IdAmongLessOne(lidar, serials) == Cardinality({s \in serials : s < lidar}) - 1
\* Ids are counted from the smallest serial number.
IdAmong(lidar, serials) == Cardinality({s \in serials : s < lidar})

\* What handleToLidarId, which takes no lock, may return: 255 for an unknown handle, and
\* while the lidar is being entered either that, or the size of the set in which its
\* serial number is not found yet, or its id.
LidarIds(lidar) ==
    IF lidar \in m_serialNumbers
      THEN {IdAmong(lidar, m_serialNumbers)}
           \cup (IF announced = NoLidar THEN {}
                                        ELSE {IdAmong(lidar, m_serialNumbers \cup {announced})})
      ELSE IF lidar = announced
        THEN {NoId, Cardinality(m_serialNumbers), IdAmong(lidar, m_serialNumbers)}
        ELSE {NoId}

\* LidarInfoChangeCallback, under m_lidarInfoMutex until LidarEntered.
LidarInfoChange(lidar) ==
    /\ announced = NoLidar /\ lidar \notin m_serialNumbers /\ Running
    /\ announced' = lidar
    /\ UNCHANGED <<m_serialNumbers, callback, buffers, received, chunk, call, written>>

LidarEntered ==
    /\ announced # NoLidar
    /\ m_serialNumbers' = m_serialNumbers \cup {announced}
    /\ announced' = NoLidar
    /\ UNCHANGED <<callback, buffers, received, chunk, call, written>>

\* PointCloudCallback and ImuDataCallback find the id before they take the mutex.
PacketArrives(kind, lidar) ==
    /\ callback[kind] = Idle
    /\ Running /\ received + Cardinality({k \in Kinds : callback[k] # Idle}) < MaxSamples
    /\ \E id \in LidarIds(lidar) :
         callback' = [callback EXCEPT ![kind] = [lidar |-> lidar, id |-> id, among |-> m_serialNumbers]]
    /\ UNCHANGED <<known, buffers, received, chunk, call, written>>

\* Under the mutex of the buffer: without one the packet is ignored.
PushSample(kind) ==
    LET packet == callback[kind]
        sample == [n |-> received + 1, kind |-> kind, lidar |-> packet.lidar,
                   id |-> packet.id, among |-> packet.among]
    IN /\ packet # Idle
       /\ callback' = [callback EXCEPT ![kind] = Idle]
       /\ IF logging
            THEN /\ received' = received + 1
                 /\ buffer' = [buffer EXCEPT ![kind] = @ \cup {sample}]
            ELSE UNCHANGED <<received, buffer>>
       /\ UNCHANGED <<known, logging, chunk, call, written>>

-----------------------------------------------------------------------------
(* The calls of the state machine, in the order StateManagement makes them. *)

\* startLog and stopLog replace both buffers under both mutexes.
BuffersThrownAway == discarded' = discarded \cup Numbers(buffer["point"] \cup buffer["imu"])

StartLog ==
    /\ call = "idle" /\ Len(cuts) < MaxChunks
    /\ call' = "logging"
    /\ logging' = TRUE
    /\ buffer' = None
    /\ BuffersThrownAway
    /\ UNCHANGED <<known, callback, received, chunk, saved, files>>

\* Mutant of Retrieved: only the point buffer is swapped, the IMU buffer is copied.
PointsOnly == dumped' = buffer /\ buffer' = [buffer EXCEPT !["point"] = {}]
\* Mutant of Retrieved: the buffers are copied instead of swapped.
Copied == dumped' = buffer /\ UNCHANGED buffer
Retrieved == dumped' = buffer /\ buffer' = None

\* retrieveData swaps both buffers for new ones under both mutexes.
RetrieveData ==
    /\ call = "logging" /\ Len(cuts) < MaxChunks
    /\ call' = "mapping"
    /\ logging' = TRUE
    /\ Retrieved
    /\ cuts' = Append(cuts, received)
    /\ UNCHANGED <<known, callback, received, mapping, written>>

LidarTable == {<<IdAmong(lidar, m_serialNumbers), lidar>> : lidar \in m_serialNumbers}
\* Mutant of Table: the table is made once and kept.
TableMadeOnce == IF mapping.table = {} THEN LidarTable ELSE mapping.table
Table == LidarTable

\* getSerialNumberToLidarIdMapping takes m_lidarInfoMutex, after the buffers have been
\* swapped. This chunk is the scan's last one, or not.
GetSerialNumberToLidarIdMapping ==
    /\ call = "mapping" /\ announced = NoLidar
    /\ \/ call' = "dumped" /\ Len(cuts) < MaxChunks
       \/ call' = "lastDumped"
    /\ mapping' = [table |-> Table, among |-> m_serialNumbers]
    /\ UNCHANGED <<known, callback, buffers, received, dumped, cuts, written>>

StopLog ==
    /\ call = "lastDumped"
    /\ call' = "lastSave"
    /\ logging' = FALSE
    /\ buffer' = None
    /\ BuffersThrownAway
    /\ UNCHANGED <<known, callback, received, chunk, saved, files>>

\* The points that saveLaz writes: every Step-th one in the order of the buffer.
Thinned(points) ==
    {p \in points :
        Cardinality({q \in points : q.n < p.n}) \in Indices(Cardinality(points))}

\* Mutant of Header: the number of points before thinning, as it once was.
HeaderBeforeThinning(points) == Cardinality(points)
Header(points) == NumPoints(Cardinality(points))

\* What a file may hold of `samples` whose writing fails at some point: the first of them.
CutShort(samples) == {{s \in samples : s.n <= n} : n \in 0..received}

\* saveLaz: it fails before the file has a header; or later, with the header written that
\* names all points, and leaves the file as it is; or not at all.
PointClouds(points) ==
    {[points |-> NoFile, complete |-> FALSE, held |-> {}]}
        \cup {[points |-> Header(points), complete |-> FALSE, held |-> p] :
                  p \in CutShort(Thinned(points))}
        \cup {[points |-> Header(points), complete |-> TRUE, held |-> Thinned(points)]}

\* Three files, each of which may fail; nobody is told.
SaveDumpedChunkToDirectory ==
    /\ call \in {"dumped", "lastSave"}
    /\ call' = IF call = "dumped" THEN "logging" ELSE "idle"
    /\ \E imu \in CutShort(dumped["imu"]), table \in SUBSET mapping.table,
         cloud \in PointClouds(dumped["point"]) :
         LET samples == imu \cup cloud.held
         IN /\ saved' = saved \cup {[sample |-> s, chunk |-> Len(cuts)] : s \in samples}
            /\ discarded' = discarded \cup Numbers((dumped["imu"] \cup dumped["point"]) \ samples)
            /\ files' = Append(files, [table |-> table, among |-> mapping.among,
                                       points |-> cloud.points, complete |-> cloud.complete])
    /\ dumped' = None
    /\ UNCHANGED <<known, callback, buffers, received, mapping, cuts>>

Next ==
    \/ \E lidar \in Lidars : LidarInfoChange(lidar)
    \/ LidarEntered
    \/ \E kind \in Kinds, lidar \in Lidars : PacketArrives(kind, lidar)
    \/ \E kind \in Kinds : PushSample(kind)
    \/ StartLog
    \/ RetrieveData \/ GetSerialNumberToLidarIdMapping
    \/ StopLog
    \/ SaveDumpedChunkToDirectory
    \/ ~Running /\ call = "idle" /\ UNCHANGED vars

Spec == Init /\ [][Next]_vars

-----------------------------------------------------------------------------
\* The end of a chunk: no sample received later belongs to it.
Cut(k) == IF k = 0 THEN 0 ELSE cuts[k]

\* The points and the IMU samples of a chunk were received in the same stretch of time:
\* the one between its cut and the cut before it.
ChunksAreCutTogether ==
    \A s \in saved : Cut(s.chunk - 1) < s.sample.n /\ s.sample.n <= Cut(s.chunk)

\* Every sample received before the latest cut is on its way to the drive or on it, once,
\* unless it had come too late for the last cut of its scan, was thinned out, or a failure
\* cut it off; then it is in no chunk.
NoSampleIsLost ==
    LET Aside   == dumped["point"] \cup dumped["imu"]
        Written == {s.sample : s \in saved}
    IN /\ Cardinality(Written) = Cardinality(saved)
       /\ Aside \cap Written = {}
       /\ 1..Cut(Len(cuts)) \subseteq Numbers(Aside \cup Written) \cup discarded
       /\ Numbers(Aside \cup Written) \cap discarded = {}

\* A point cloud file holds at most as many points as are allowed. Its header, which is
\* written first, misses at most the last point of a thinned cloud; it names points that
\* the file does not hold only if saveLaz failed, and without a header there are none.
HeadersCountPoints ==
    \A k \in DOMAIN files :
        LET Points == {s \in saved : s.chunk = k /\ s.sample.kind = "point"}
            count  == Cardinality(Points)
        IN /\ count <= MostPoints \/ count <= ThinTo
           /\ files[k].points = NoFile => count = 0
           /\ files[k].points # NoFile => count <= files[k].points + 1
           /\ files[k].complete => files[k].points \in 0..count

\* The id in a sample names its lidar, and no other, in the table saved with its chunk ("id
\* is zero for lidar with smallest Serial number", LivoxClient.h:85), whenever no lidar was
\* entered between the arrival of the sample's packet and the making of the table. If
\* others were, the id of a lidar known before is too small, by at most their number.
IdsNameOneLidar ==
    \A s \in saved : \A entry \in files[s.chunk].table :
        LET joined == files[s.chunk].among \ s.sample.among
        IN /\ joined = {} => (entry[1] = s.sample.id <=> entry[2] = s.sample.lidar)
           /\ entry[2] = s.sample.lidar /\ s.sample.lidar \in s.sample.among
                => entry[1] - s.sample.id \in 0..Cardinality(joined)
=============================================================================
