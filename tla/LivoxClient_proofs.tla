-------------------------- MODULE LivoxClient_proofs --------------------------
(***************************************************************************)
(* Proofs about the way of the samples from the lidars to the files, for   *)
(* any number of lidars, samples, chunks and scans, any limits of the      *)
(* point cloud files, any failures of the files and any interleaving of    *)
(* the SDK's threads with the state machine's.                             *)
(***************************************************************************)
EXTENDS LivoxClient, FiniteSetTheorems, FunctionTheorems, SequenceTheorems, TLAPS

-----------------------------------------------------------------------------
(* The thinning of point clouds (SaveLaz), for every size of a buffer and    *)
(* every choice of the limits.                                             *)

\* What the quotient of two numbers is.
LEMMA Quotient ==
    ASSUME NEW a \in Nat, NEW b \in Nat \ {0}
    PROVE  a \div b \in Nat /\ b * (a \div b) <= a /\ a < b * (a \div b) + b
OBVIOUS

\* Raising a factor by at least one raises the product by at least the other factor.
LEMMA ProductBound ==
    ASSUME NEW a \in Nat, NEW b \in Nat, NEW c \in Nat, b < c
    PROVE  a * b + a <= a * c
OBVIOUS

\* A quotient that is rounded up reaches the number it came from.
LEMMA RoundedUp ==
    ASSUME NEW a \in Nat, NEW b \in Nat \ {0}
    PROVE  LET q == (a + b - 1) \div b
           IN q \in Nat /\ a <= b * q /\ b * q <= a + b - 1
<1> DEFINE q == (a + b - 1) \div b
<1>1. a + b - 1 \in Nat
  OBVIOUS
<1>2. q \in Nat /\ b * q <= a + b - 1 /\ a + b - 1 < b * q + b
  BY <1>1, Quotient
<1>3. b * q \in Nat
  BY <1>2
<1> HIDE DEF q
<1>4. q \in Nat /\ a <= b * q /\ b * q <= a + b - 1
  BY <1>2, <1>3
<1>5. QED
  BY <1>4 DEF q

\* The step of the loop is never zero, so the loop ends.
LEMMA StepType == ASSUME NEW size \in Nat PROVE Step(size) \in Nat \ {0}
<1>1. CASE size > MostPoints
  <2> DEFINE q == (size + ThinTo - 1) \div ThinTo
  <2>1. q \in Nat /\ size <= ThinTo * q
    BY ThinningAssumption, RoundedUp
  <2> HIDE DEF q
  <2>2. size > 0
    BY <1>1, ThinningAssumption
  <2>3. q # 0
    BY <2>1, <2>2, ThinningAssumption
  <2>4. Step(size) = q
    BY <1>1 DEF Step, q
  <2>5. QED
    BY <2>1, <2>3, <2>4
<1>2. CASE ~(size > MostPoints)
  BY <1>2 DEF Step
<1>3. QED
  BY <1>1, <1>2

LEMMA ModuloOfMultiple ==
    ASSUME NEW k \in Nat, NEW s \in Nat \ {0}
    PROVE  (s * k) % s = 0
OBVIOUS

LEMMA MultipleOfQuotient ==
    ASSUME NEW i \in Nat, NEW s \in Nat \ {0}, i % s = 0
    PROVE  i \div s \in Nat /\ i = s * (i \div s)
OBVIOUS

\* save_laz.cpp:111: the loop visits PointsWritten(size) positions of the buffer.
THEOREM PositionsCounted ==
    ASSUME NEW size \in Nat
    PROVE  Cardinality(Indices(size)) = PointsWritten(size)
<1> DEFINE s == Step(size)
           w == (size + s - 1) \div s
           f == [k \in 1..w |-> s * (k - 1)]
<1>1. s \in Nat \ {0}
  BY StepType
<1>2. Indices(size) = {i \in 0..(size - 1) : i % s = 0}
  BY DEF Indices
<1>3. PointsWritten(size) = w
  BY DEF PointsWritten
<1> HIDE DEF s
<1>4. w \in Nat /\ size <= s * w /\ s * w <= size + s - 1
  BY <1>1, RoundedUp
<1> HIDE DEF w
<1>5. ASSUME NEW k \in 1..w PROVE f[k] \in Indices(size)
  <2>1. k - 1 \in Nat /\ k - 1 < w
    BY <1>4
  <2>2. s * (k - 1) + s <= s * w
    BY <2>1, <1>1, <1>4, ProductBound
  <2>3. s * (k - 1) \in Nat /\ s * w \in Nat
    BY <2>1, <1>1, <1>4
  <2>4. s * (k - 1) <= size - 1
    BY <2>2, <2>3, <1>1, <1>4
  <2>5. (s * (k - 1)) % s = 0
    BY <2>1, <1>1, ModuloOfMultiple
  <2>6. QED
    BY <2>3, <2>4, <2>5, <1>2
<1>6. ASSUME NEW j \in 1..w, NEW k \in 1..w, j < k PROVE f[j] # f[k]
  <2>1. j - 1 \in Nat /\ k - 1 \in Nat /\ j - 1 < k - 1
    BY <1>4, <1>6
  <2>2. s * (j - 1) + s <= s * (k - 1)
    BY <2>1, <1>1, ProductBound
  <2>3. s * (j - 1) \in Nat /\ s * (k - 1) \in Nat
    BY <2>1, <1>1
  <2>4. s * (j - 1) # s * (k - 1)
    BY <2>2, <2>3, <1>1
  <2>5. QED
    BY <2>4
<1>7. ASSUME NEW i \in Indices(size) PROVE \E k \in 1..w : f[k] = i
  <2>1. i \in Nat /\ i < size /\ i % s = 0
    BY <1>2
  <2> DEFINE q == i \div s
  <2>2. q \in Nat /\ i = s * q
    BY <2>1, <1>1, MultipleOfQuotient
  <2> HIDE DEF q
  <2>3. q < w
    <3> SUFFICES ASSUME w <= q PROVE FALSE
      BY <2>2, <1>4
    <3>1. s * w <= s * q
      <4>1. CASE w = q
        BY <4>1, <1>1, <2>2
      <4>2. CASE w < q
        <5>1. s * w + s <= s * q
          BY <4>2, <1>1, <1>4, <2>2, ProductBound
        <5>2. s * w \in Nat /\ s * q \in Nat
          BY <1>1, <1>4, <2>2
        <5>3. QED
          BY <5>1, <5>2, <1>1
      <4>3. QED
        BY <4>1, <4>2, <1>4, <2>2
    <3>2. s * w \in Nat /\ s * q \in Nat
      BY <1>1, <1>4, <2>2
    <3>3. QED
      BY <3>1, <3>2, <1>4, <2>1, <2>2
  <2>4. q + 1 \in 1..w /\ f[q + 1] = i
    BY <2>2, <2>3, <1>4
  <2>5. QED
    BY <2>4
<1>8. f \in [1..w -> Indices(size)]
  BY <1>5
<1> HIDE DEF f
<1>9. \A j, k \in 1..w : f[j] = f[k] => j = k
  BY <1>4, <1>6
<1>10. f \in Bijection(1..w, Indices(size))
  BY <1>7, <1>8, <1>9, Fun_IsBij
<1>11. ExistsBijection(1..w, Indices(size))
  BY <1>10 DEF ExistsBijection
<1>12. QED
  BY <1>3, <1>4, <1>11, FS_CountingElements

\* save_laz.cpp:57-61 and 111: the header never promises more points than the file has,
\* and misses at most one of them.
THEOREM HeaderIsClose ==
    ASSUME NEW size \in Nat
    PROVE  PointsWritten(size) \in NumPoints(size)..(NumPoints(size) + 1)
<1> DEFINE s == Step(size)
           h == size \div s
           w == (size + s - 1) \div s
<1>1. s \in Nat \ {0}
  BY StepType
<1> HIDE DEF s
<1>2. h \in Nat /\ s * h <= size /\ size < s * h + s
  BY <1>1, Quotient
<1>3. w \in Nat /\ size <= s * w /\ s * w <= size + s - 1
  BY <1>1, RoundedUp
<1> HIDE DEF h, w
<1>4. ~(w < h)
  <2> SUFFICES ASSUME w < h PROVE FALSE
    OBVIOUS
  <2>1. s * w + s <= s * h
    BY <1>1, <1>2, <1>3, ProductBound
  <2>2. s * w \in Nat /\ s * h \in Nat
    BY <1>1, <1>2, <1>3
  <2>3. QED
    BY <2>1, <2>2, <1>1, <1>2, <1>3
<1>5. ~(h + 1 < w)
  <2> SUFFICES ASSUME h + 1 < w PROVE FALSE
    OBVIOUS
  <2>1. s * h + s <= s * (h + 1)
    BY <1>1, <1>2, ProductBound
  <2>2. s * (h + 1) + s <= s * w
    BY <1>1, <1>2, <1>3, ProductBound
  <2>3. s * w \in Nat /\ s * h \in Nat /\ s * (h + 1) \in Nat
    BY <1>1, <1>2, <1>3
  <2> DEFINE sh == s * h
             sh1 == s * (h + 1)
             sw == s * w
  <2>4. sh + s <= sh1 /\ sh1 + s <= sw /\ size < sh + s /\ sw <= size + s - 1
        /\ sh \in Nat /\ sh1 \in Nat /\ sw \in Nat
    BY <2>1, <2>2, <2>3, <1>2, <1>3
  <2> HIDE DEF sh, sh1, sw
  <2>5. QED
    BY <2>4, <1>1
<1>6. w \in h..(h + 1)
  BY <1>2, <1>3, <1>4, <1>5
<1>7. QED
  BY <1>6 DEF PointsWritten, NumPoints, s, h, w

\* save_laz.cpp:58: a buffer that is not too large is written whole, and its header is
\* exact.
THEOREM SmallCloudsAreWhole ==
    ASSUME NEW size \in Nat, size <= MostPoints
    PROVE  Step(size) = 1 /\ NumPoints(size) = size /\ PointsWritten(size) = size
<1>1. Step(size) = 1
  BY ThinningAssumption DEF Step
<1>2. QED
  BY <1>1 DEF NumPoints, PointsWritten

\* save_laz.cpp:59: a buffer that is too large is thinned to at most ThinTo points.
THEOREM LargeCloudsAreThinned ==
    ASSUME NEW size \in Nat, size > MostPoints
    PROVE  PointsWritten(size) <= ThinTo
<1> DEFINE s == (size + ThinTo - 1) \div ThinTo
           w == (size + s - 1) \div s
<1>1. s \in Nat /\ size <= ThinTo * s
  BY ThinningAssumption, RoundedUp
<1>2. s = Step(size)
  BY DEF Step
<1> HIDE DEF s
<1>3. s \in Nat \ {0}
  BY <1>2, StepType
<1>4. w \in Nat /\ s * w <= size + s - 1
  BY <1>3, RoundedUp
<1>5. PointsWritten(size) = w
  BY <1>2 DEF PointsWritten
<1> HIDE DEF w
<1>6. ~(ThinTo < w)
  <2> SUFFICES ASSUME ThinTo < w PROVE FALSE
    OBVIOUS
  <2> DEFINE st == s * ThinTo
             sw == s * w
  <2>1. st + s <= sw
    BY <1>3, <1>4, ThinningAssumption, ProductBound
  <2>2. size <= st /\ st \in Nat
    BY <1>1, <1>3, ThinningAssumption
  <2>3. sw <= size + s - 1 /\ sw \in Nat
    BY <1>3, <1>4
  <2> HIDE DEF st, sw
  <2>4. QED
    BY <2>1, <2>2, <2>3, <1>3
<1>7. QED
  BY <1>4, <1>5, <1>6, ThinningAssumption

-----------------------------------------------------------------------------
(* The samples.                                                            *)

Packet == [lidar : Lidars \cup {NoLidar}, id : Nat, among : SUBSET Lidars]
SavedSample == [sample : Sample, chunk : Nat \ {0}]
ChunkFile == [table : SUBSET (Nat \X Lidars), among : SUBSET Lidars,
              points : Nat \cup {NoFile}, complete : BOOLEAN]

\* A chunk has been cut and is not saved yet.
Cutting == call \notin {"idle", "logging"}

\* The types, with what the calls of the state machine say about the chunks.
TypeInv ==
    /\ m_serialNumbers \subseteq Lidars
    /\ announced \in Lidars \cup {NoLidar} /\ announced \notin m_serialNumbers
    /\ callback \in [Kinds -> Packet]
    /\ \A kind \in Kinds : callback[kind] # Idle => callback[kind].lidar \in Lidars
    /\ logging \in BOOLEAN
    /\ buffer \in [Kinds -> SUBSET Sample] /\ dumped \in [Kinds -> SUBSET Sample]
    /\ mapping \in [table : SUBSET (Nat \X Lidars), among : SUBSET Lidars]
    /\ call \in {"idle", "logging", "mapping", "dumped", "lastDumped", "lastSave"}
    /\ received \in Nat
    /\ cuts \in Seq(Nat)
    /\ discarded \subseteq 1..received
    /\ saved \subseteq SavedSample
    /\ files \in Seq(ChunkFile)
    /\ Len(cuts) = IF Cutting THEN Len(files) + 1 ELSE Len(files)
    /\ \A s \in saved : s.chunk <= Len(files)
    /\ ~Cutting => dumped = None

\* Finite sets, of samples of one kind.
SetsInv ==
    \A kind \in Kinds :
        /\ IsFiniteSet(buffer[kind]) /\ IsFiniteSet(dumped[kind])
        /\ \A s \in buffer[kind] \cup dumped[kind] : s.kind = kind

Buffered == buffer["point"] \cup buffer["imu"]
Aside    == dumped["point"] \cup dumped["imu"]
Written  == {s.sample : s \in saved}
Samples  == Buffered \cup Aside \cup Written

\* The stretches of time of the chunks.
CutInv ==
    /\ Cut(Len(cuts)) <= received
    /\ \A s \in Buffered : Cut(Len(cuts)) < s.n
    /\ \A s \in Aside : Cut(Len(cuts) - 1) < s.n /\ s.n <= Cut(Len(cuts))
    /\ ChunksAreCutTogether

\* Every sample received is in one place.
Apart ==
    /\ Buffered \cap (Aside \cup Written) = {}
    /\ Aside \cap Written = {}
    /\ Numbers(Samples) \cap discarded = {}

OnceInv ==
    /\ \A s \in Samples : s.n <= received
    /\ \A s, t \in Samples : s.n = t.n => s = t
    /\ 1..received \subseteq Numbers(Samples) \cup discarded
    /\ Apart
    /\ \A s, t \in saved : s.sample = t.sample => s = t
    /\ IsFiniteSet(saved)

\* An id that was counted while no lidar was being announced, among the lidars given.
Named(s) == s.id = IF s.lidar \in s.among THEN IdAmong(s.lidar, s.among) ELSE NoId

\* The id of a lidar that was known was counted among those known and perhaps more.
Counted(s, serials) ==
    /\ s.among \subseteq serials
    /\ s.lidar \in s.among =>
         \E seen \in SUBSET serials : s.among \subseteq seen /\ s.id = IdAmong(s.lidar, seen)

\* An id that is not Named was counted before the latest lidar was entered.
Fresh(s, serials, entering) ==
    /\ s.among \subseteq serials
    /\ Counted(s, serials \cup ({entering} \ {NoLidar}))
    /\ Named(s) \/ s.among # serials \/ entering # NoLidar

TableOf(serials) == {<<IdAmong(lidar, serials), lidar>> : lidar \in serials}

IdsInv ==
    /\ \A kind \in Kinds : callback[kind] # Idle
            => Fresh(callback[kind], m_serialNumbers, announced)
    /\ \A s \in Buffered : Fresh(s, m_serialNumbers, announced)
    /\ call = "mapping" => \A s \in Aside : Fresh(s, m_serialNumbers, announced)
    /\ call \in {"dumped", "lastDumped", "lastSave"} =>
          /\ mapping.table = TableOf(mapping.among)
          /\ \A s \in Aside : /\ Named(s) \/ s.among # mapping.among
                             /\ Counted(s, mapping.among)
    /\ \A k \in 1..Len(files) : files[k].table \subseteq TableOf(files[k].among)
    /\ \A s \in saved : /\ Named(s.sample) \/ s.sample.among # files[s.chunk].among
                       /\ Counted(s.sample, files[s.chunk].among)

-----------------------------------------------------------------------------
(* Types.                                                                  *)

LEMMA SerialsFinite ==
    ASSUME NEW S, S \subseteq Lidars
    PROVE  IsFiniteSet(S) /\ Cardinality(S) \in Nat /\ Cardinality(S) <= NoId
<1>1. IsFiniteSet(S) /\ Cardinality(S) <= Cardinality(Lidars)
  BY LidarsAssumption, FS_Subset
<1>2. Cardinality(S) \in Nat /\ Cardinality(Lidars) \in Nat
  BY <1>1, LidarsAssumption, FS_CardinalityType
<1>3. QED
  BY <1>1, <1>2, LidarsAssumption DEF NoId

\* An id is smaller than the number of lidars seen.
LEMMA IdType ==
    ASSUME NEW lidar \in Lidars, NEW S, S \subseteq Lidars
    PROVE  IdAmong(lidar, S) \in Nat
BY SerialsFinite DEF IdAmong

LEMMA IdsAreNumbers ==
    ASSUME TypeInv, NEW lidar \in Lidars
    PROVE  LidarIds(lidar) \subseteq Nat
<1>1. m_serialNumbers \subseteq Lidars /\ announced \in Lidars \cup {NoLidar}
  BY DEF TypeInv
<1>2. IdAmong(lidar, m_serialNumbers) \in Nat /\ Cardinality(m_serialNumbers) \in Nat
  BY <1>1, IdType, SerialsFinite
<1>3. announced # NoLidar => IdAmong(lidar, m_serialNumbers \cup {announced}) \in Nat
  <2> SUFFICES ASSUME announced # NoLidar
               PROVE  IdAmong(lidar, m_serialNumbers \cup {announced}) \in Nat
    OBVIOUS
  <2>1. m_serialNumbers \cup {announced} \subseteq Lidars
    BY <1>1
  <2>2. QED
    BY <2>1, IdType
<1>4. QED
  BY <1>2, <1>3 DEF LidarIds, NoId

LEMMA TypeInit == Init => TypeInv /\ SetsInv
<1> SUFFICES ASSUME Init PROVE TypeInv /\ SetsInv
  OBVIOUS
<1>1. logging \in BOOLEAN
  BY Zenon DEF Init
<1>2. NoLidar \notin Lidars
  BY LidarsAssumption DEF NoLidar
<1>3. Idle \in Packet
  BY DEF Idle, Packet, NoId
<1>4. buffer = None /\ dumped = None /\ None \in [Kinds -> SUBSET Sample]
  BY DEF Init, None
<1>5. SetsInv
  BY <1>4, FS_EmptySet DEF SetsInv, None
<1>6. Len(cuts) = 0 /\ Len(files) = 0 /\ cuts \in Seq(Nat) /\ files \in Seq(ChunkFile)
  BY DEF Init
<1>7. QED
  BY <1>1, <1>2, <1>3, <1>4, <1>5, <1>6, LidarsAssumption
     DEF Init, TypeInv, Cutting

\* The size of what is saved and dumped is a number.
LEMMA HeaderType ==
    ASSUME NEW points, IsFiniteSet(points)
    PROVE  Header(points) \in Nat
<1>1. Cardinality(points) \in Nat
  BY FS_CardinalityType
<1>2. Step(Cardinality(points)) \in Nat \ {0}
  BY <1>1, StepType
<1>3. QED
  BY <1>1, <1>2, Quotient DEF Header, NumPoints

\* One more sample in one of the buffers.
LEMMA PushedSample ==
    ASSUME TypeInv, NEW kind \in Kinds, PushSample(kind), logging
    PROVE  \E new \in Sample :
             /\ new.n = received + 1 /\ new.kind = kind /\ new.lidar = callback[kind].lidar
             /\ new.id = callback[kind].id /\ new.among = callback[kind].among
             /\ callback[kind] # Idle /\ received' = received + 1
             /\ buffer' \in [Kinds -> SUBSET Sample]
             /\ \A k \in Kinds : buffer'[k] = IF k = kind THEN buffer[k] \cup {new}
                                                          ELSE buffer[k]
<1> DEFINE packet == callback[kind]
           new == [n |-> received + 1, kind |-> kind, lidar |-> packet.lidar,
                   id |-> packet.id, among |-> packet.among]
<1>1. packet \in Packet /\ packet # Idle /\ packet.lidar \in Lidars /\ received \in Nat
  BY DEF TypeInv, PushSample
<1>2. /\ new \in Sample /\ new.n = received + 1 /\ new.kind = kind
      /\ new.lidar = packet.lidar /\ new.id = packet.id /\ new.among = packet.among
  BY <1>1 DEF Packet, Sample
<1>3. received' = received + 1 /\ buffer' = [buffer EXCEPT ![kind] = buffer[kind] \cup {new}]
  BY DEF PushSample
<1>4. buffer \in [Kinds -> SUBSET Sample]
  BY DEF TypeInv
<1> HIDE DEF new, packet
<1>5. \A k \in Kinds : buffer'[k] = IF k = kind THEN buffer[k] \cup {new} ELSE buffer[k]
  BY <1>3, <1>4
<1>6. buffer' \in [Kinds -> SUBSET Sample]
  BY <1>2, <1>3, <1>4
<1>7. QED
  BY <1>1, <1>2, <1>3, <1>5, <1>6 DEF packet

\* What a save writes of what was put aside, and what it leaves in the files.
LEMMA SavedStep ==
    ASSUME SaveDumpedChunkToDirectory
    PROVE  \E imu \in SUBSET dumped["imu"], table \in SUBSET mapping.table,
              cloud \in PointClouds(dumped["point"]) :
             /\ saved' = saved \cup {[sample |-> s, chunk |-> Len(cuts)] : s \in imu \cup cloud.held}
             /\ discarded' = discarded \cup Numbers(Aside \ (imu \cup cloud.held))
             /\ files' = Append(files, [table |-> table, among |-> mapping.among,
                                        points |-> cloud.points, complete |-> cloud.complete])
<1>1. Aside = dumped["imu"] \cup dumped["point"]
  BY DEF Aside
<1>2. CutShort(dumped["imu"]) \subseteq SUBSET dumped["imu"]
  BY DEF CutShort
<1>3. QED
  BY <1>1, <1>2 DEF SaveDumpedChunkToDirectory

\* What becomes of the points put aside.
LEMMA CloudType ==
    ASSUME NEW P, IsFiniteSet(P), NEW cloud \in PointClouds(P)
    PROVE  /\ cloud.held \subseteq Thinned(P) /\ Thinned(P) \subseteq P
           /\ cloud.complete \in BOOLEAN
           /\ (cloud.points = NoFile /\ cloud.held = {}) \/ cloud.points = Header(P)
           /\ cloud.complete => cloud.held = Thinned(P) /\ cloud.points = Header(P)
           /\ cloud.points \in Nat \cup {NoFile}
<1>1. CutShort(Thinned(P)) \subseteq SUBSET Thinned(P)
  BY DEF CutShort
<1>2. Thinned(P) \subseteq P
  BY DEF Thinned
<1>3. Header(P) \in Nat
  BY HeaderType
<1>4. CASE cloud = [points |-> NoFile, complete |-> FALSE, held |-> {}]
  BY <1>2, <1>4
<1>5. ASSUME NEW p \in CutShort(Thinned(P)),
             cloud = [points |-> Header(P), complete |-> FALSE, held |-> p]
      PROVE  /\ cloud.held \subseteq Thinned(P) /\ cloud.complete = FALSE
             /\ cloud.points = Header(P)
  BY <1>1, <1>5
<1>6. CASE cloud = [points |-> Header(P), complete |-> TRUE, held |-> Thinned(P)]
  BY <1>2, <1>3, <1>6
<1>7. QED
  BY <1>2, <1>3, <1>4, <1>5, <1>6 DEF PointClouds

LEMMA SamplesType == TypeInv => Samples \subseteq Sample
BY DEF TypeInv, Samples, Buffered, Aside, Written, SavedSample, Kinds

\* The numbers of the samples are among those given.
LEMMA NumbersReceived ==
    ASSUME TypeInv, \A s \in Samples : s.n <= received, NEW S, S \subseteq Samples
    PROVE  Numbers(S) \subseteq 1..received
<1>1. Samples \subseteq Sample /\ received \in Nat
  BY SamplesType DEF TypeInv
<1>2. \A s \in S : s.n \in Nat \ {0} /\ s.n <= received
  BY <1>1 DEF Sample
<1>3. QED
  BY <1>1, <1>2 DEF Numbers

LEMMA TypeStep ==
    ASSUME TypeInv, SetsInv, \A s \in Samples : s.n <= received, [Next]_vars
    PROVE  TypeInv'
<1>1. ASSUME NEW lidar \in Lidars, LidarInfoChange(lidar) PROVE TypeInv'
  BY <1>1 DEF TypeInv, LidarInfoChange, buffers, chunk, written, Cutting
<1>2. CASE LidarEntered
  <2>1. NoLidar \notin Lidars
    BY LidarsAssumption DEF NoLidar
  <2>2. QED
    BY <1>2, <2>1 DEF TypeInv, LidarEntered, buffers, chunk, written, Cutting
<1>3. ASSUME NEW kind \in Kinds, NEW lidar \in Lidars, PacketArrives(kind, lidar)
      PROVE  TypeInv'
  <2>1. PICK id \in LidarIds(lidar) :
          callback' = [callback EXCEPT ![kind] =
                         [lidar |-> lidar, id |-> id, among |-> m_serialNumbers]]
    BY <1>3 DEF PacketArrives
  <2>2. id \in Nat /\ m_serialNumbers \subseteq Lidars
    BY IdsAreNumbers DEF TypeInv
  <2> DEFINE new == [lidar |-> lidar, id |-> id, among |-> m_serialNumbers]
  <2>3. new \in Packet /\ new.lidar \in Lidars
    BY <2>2 DEF Packet
  <2> HIDE DEF new
  <2>4. callback \in [Kinds -> Packet] /\ callback' = [callback EXCEPT ![kind] = new]
    BY <2>1 DEF TypeInv, new
  <2>5. /\ callback' \in [Kinds -> Packet]
        /\ \A k \in Kinds : callback'[k] # Idle => callback'[k].lidar \in Lidars
    BY <2>3, <2>4 DEF TypeInv
  <2>6. QED
    BY <1>3, <2>5 DEF TypeInv, PacketArrives, known, buffers, chunk, written, Cutting
<1>4. ASSUME NEW kind \in Kinds, PushSample(kind) PROVE TypeInv'
  <2>1. /\ callback' \in [Kinds -> Packet]
        /\ \A k \in Kinds : callback'[k] # Idle => callback'[k].lidar \in Lidars
    <3>1. callback' = [callback EXCEPT ![kind] = Idle] /\ callback \in [Kinds -> Packet]
      BY <1>4 DEF PushSample, TypeInv
    <3>2. Idle \in Packet
      BY DEF Idle, Packet, NoId
    <3>3. QED
      BY <3>1, <3>2 DEF TypeInv
  <2>2. buffer' \in [Kinds -> SUBSET Sample] /\ received' \in Nat /\ received <= received'
    <3>1. CASE logging
      <4>1. buffer' \in [Kinds -> SUBSET Sample] /\ received' = received + 1
        BY <1>4, <3>1, PushedSample
      <4>2. QED
        BY <4>1 DEF TypeInv
    <3>2. CASE ~logging
      BY <1>4, <3>2 DEF PushSample, TypeInv
    <3>3. QED
      BY <3>1, <3>2
  <2>3. UNCHANGED <<known, logging, chunk, call, written>>
    BY <1>4 DEF PushSample
  <2>4. discarded' \subseteq 1..received'
    BY <2>2, <2>3 DEF TypeInv, written
  <2>5. QED
    BY <2>1, <2>2, <2>3, <2>4 DEF TypeInv, known, chunk, written, Cutting
<1>5. None \in [Kinds -> SUBSET Sample]
  BY DEF None
<1>6. "point" \in Kinds /\ "imu" \in Kinds
  BY DEF Kinds
<1>7. CASE StartLog \/ StopLog
  <2>1. logging' \in BOOLEAN
    BY <1>7, Zenon DEF StartLog, StopLog
  <2>2. buffer' \in [Kinds -> SUBSET Sample]
    BY <1>5, <1>7, Zenon DEF StartLog, StopLog
  <2>3. discarded' \subseteq 1..received
    <3>1. discarded' = discarded \cup Numbers(Buffered)
      BY <1>7 DEF StartLog, StopLog, BuffersThrownAway, Buffered
    <3>2. QED
      BY <3>1, NumbersReceived DEF TypeInv, Samples
  <2>4. /\ UNCHANGED <<known, callback, received, chunk, saved, files>>
        /\ call \in {"idle", "lastDumped"}
        /\ call' = IF call = "idle" THEN "logging" ELSE "lastSave"
    BY <1>7 DEF StartLog, StopLog
  <2>5. QED
    BY <2>1, <2>2, <2>3, <2>4 DEF TypeInv, known, chunk, Cutting
<1>8. CASE RetrieveData
  <2>1. logging' \in BOOLEAN
    BY <1>8, Zenon DEF RetrieveData
  <2>2. buffer' \in [Kinds -> SUBSET Sample] /\ dumped' \in [Kinds -> SUBSET Sample]
    BY <1>5, <1>8 DEF RetrieveData, Retrieved, TypeInv
  <2>3. cuts' \in Seq(Nat) /\ Len(cuts') = Len(cuts) + 1
    <3>1. cuts' = Append(cuts, received) /\ cuts \in Seq(Nat) /\ received \in Nat
      BY <1>8 DEF RetrieveData, TypeInv
    <3>2. QED
      BY ONLY <3>1, AppendProperties
  <2>4. /\ UNCHANGED <<known, callback, received, mapping, written>>
        /\ call = "logging" /\ call' = "mapping"
    BY <1>8 DEF RetrieveData
  <2>5. QED
    BY <2>1, <2>2, <2>3, <2>4 DEF TypeInv, known, written, Cutting
<1>9. CASE GetSerialNumberToLidarIdMapping
  <2>1. LidarTable \subseteq Nat \X Lidars
    BY IdType DEF LidarTable, TypeInv
  <2>2. mapping' \in [table : SUBSET (Nat \X Lidars), among : SUBSET Lidars]
    BY <1>9, <2>1 DEF GetSerialNumberToLidarIdMapping, Table, TypeInv
  <2>3. /\ UNCHANGED <<known, callback, buffers, received, dumped, cuts, written>>
        /\ call = "mapping" /\ call' \in {"dumped", "lastDumped"}
    BY <1>9 DEF GetSerialNumberToLidarIdMapping
  <2>4. QED
    BY <2>2, <2>3 DEF TypeInv, known, buffers, written, Cutting
<1>10. CASE SaveDumpedChunkToDirectory
  <2>1. PICK imu \in SUBSET dumped["imu"], table \in SUBSET mapping.table,
             cloud \in PointClouds(dumped["point"]) :
          /\ saved' = saved \cup {[sample |-> s, chunk |-> Len(cuts)] : s \in imu \cup cloud.held}
          /\ discarded' = discarded \cup Numbers(Aside \ (imu \cup cloud.held))
          /\ files' = Append(files, [table |-> table, among |-> mapping.among,
                                     points |-> cloud.points, complete |-> cloud.complete])
    BY <1>10, SavedStep
  <2> DEFINE moved == imu \cup cloud.held
             file == [table |-> table, among |-> mapping.among,
                      points |-> cloud.points, complete |-> cloud.complete]
  <2>2. /\ call' \in {"logging", "idle"} /\ dumped' = None /\ call \in {"dumped", "lastSave"}
        /\ UNCHANGED <<known, callback, buffers, received, mapping, cuts>>
    BY <1>10 DEF SaveDumpedChunkToDirectory
  <2>3. /\ cloud.held \subseteq dumped["point"] /\ cloud.complete \in BOOLEAN
        /\ cloud.points \in Nat \cup {NoFile}
    BY <1>6, CloudType DEF SetsInv
  <2>4. /\ moved \subseteq Aside /\ moved \subseteq Sample /\ Len(cuts) \in Nat
        /\ Len(files) \in Nat /\ Len(cuts) = Len(files) + 1
    <3>1. moved \subseteq Aside
      BY <2>3 DEF Aside
    <3>2. Aside \subseteq Sample
      BY <1>6 DEF TypeInv, Aside
    <3>3. Len(cuts) = Len(files) + 1
      BY <2>2 DEF TypeInv, Cutting
    <3>4. cuts \in Seq(Nat) /\ files \in Seq(ChunkFile)
      BY DEF TypeInv
    <3>5. Len(cuts) \in Nat /\ Len(files) \in Nat
      BY ONLY <3>4, LenProperties
    <3>6. QED
      BY <3>1, <3>2, <3>3, <3>5
  <2>5. file \in ChunkFile
    <3>1. table \subseteq Nat \X Lidars /\ mapping.among \subseteq Lidars
      BY DEF TypeInv
    <3>2. QED
      BY <2>3, <3>1 DEF ChunkFile
  <2>6. files' \in Seq(ChunkFile) /\ Len(files') = Len(files) + 1
    <3>1. files' = Append(files, file) /\ files \in Seq(ChunkFile)
      BY <2>1 DEF TypeInv
    <3>2. QED
      BY ONLY <2>5, <3>1, AppendProperties
  <2> HIDE DEF moved, file
  <2>7. \A s \in saved' : s \in saved \/ (s \in SavedSample /\ s.chunk = Len(cuts))
    <3>1. Len(cuts) \in Nat \ {0}
      BY <2>4
    <3>2. \A s \in moved : [sample |-> s, chunk |-> Len(cuts)] \in SavedSample
      BY <2>4, <3>1 DEF SavedSample
    <3>3. ASSUME NEW s \in saved', s \notin saved PROVE s \in SavedSample /\ s.chunk = Len(cuts)
      <4>1. PICK t \in moved : s = [sample |-> t, chunk |-> Len(cuts)]
        BY <2>1, <3>3 DEF moved
      <4>2. QED
        BY <3>2, <4>1
    <3>4. QED
      BY <3>3
  <2>8. saved' \subseteq SavedSample /\ \A s \in saved' : s.chunk <= Len(files')
    <3>1. saved \subseteq SavedSample /\ \A s \in saved : s.chunk <= Len(files)
      BY DEF TypeInv
    <3>2. QED
      BY <2>4, <2>6, <2>7, <3>1 DEF SavedSample
  <2>9. discarded' \subseteq 1..received
    <3>1. Aside \ moved \subseteq Samples
      BY DEF Samples
    <3>2. QED
      BY <2>1, <3>1, NumbersReceived DEF TypeInv, moved
  <2>10. QED
    BY <1>5, <2>2, <2>4, <2>6, <2>8, <2>9 DEF TypeInv, known, buffers, Cutting
<1>11. CASE UNCHANGED vars
  BY <1>11 DEF TypeInv, vars, known, buffers, chunk, written, Cutting
<1>12. QED
  BY <1>1, <1>2, <1>3, <1>4, <1>7, <1>8, <1>9, <1>10, <1>11 DEF Next

LEMMA SetsStep == TypeInv /\ SetsInv /\ [Next]_vars => SetsInv'
<1> SUFFICES ASSUME TypeInv, SetsInv, [Next]_vars PROVE SetsInv'
  OBVIOUS
<1>1. \A kind \in Kinds : IsFiniteSet(None[kind]) /\ None[kind] = {}
  BY FS_EmptySet DEF None
<1>2. CASE UNCHANGED <<buffer, dumped>>
  BY <1>2 DEF SetsInv
<1>3. ASSUME NEW kind \in Kinds, PushSample(kind), logging PROVE SetsInv'
  <2>1. PICK new \in Sample :
          /\ new.kind = kind
          /\ \A k \in Kinds : buffer'[k] = IF k = kind THEN buffer[k] \cup {new}
                                                       ELSE buffer[k]
    BY <1>3, PushedSample
  <2>2. dumped' = dumped
    BY <1>3 DEF PushSample, chunk
  <2>3. ASSUME NEW k \in Kinds PROVE IsFiniteSet(buffer'[k])
    <3>1. IsFiniteSet(buffer[k]) /\ IsFiniteSet(buffer[k] \cup {new})
      BY FS_AddElement DEF SetsInv
    <3>2. QED
      BY <2>1, <3>1
  <2>4. ASSUME NEW k \in Kinds, NEW s \in buffer'[k] PROVE s.kind = k
    <3>1. CASE s \in buffer[k]
      BY <3>1 DEF SetsInv
    <3>2. CASE s = new /\ k = kind
      BY <2>1, <3>2
    <3>3. QED
      BY <2>1, <3>1, <3>2
  <2>5. QED
    BY <2>2, <2>3, <2>4 DEF SetsInv
<1>4. CASE StartLog \/ StopLog
  <2>1. buffer' = None /\ dumped' = dumped
    BY <1>4 DEF StartLog, StopLog, chunk
  <2>2. QED
    BY <1>1, <2>1 DEF SetsInv
<1>5. CASE RetrieveData
  <2>1. buffer' = None /\ dumped' = buffer
    BY <1>5 DEF RetrieveData, Retrieved
  <2>2. QED
    BY <1>1, <2>1 DEF SetsInv
<1>6. CASE SaveDumpedChunkToDirectory
  <2>1. dumped' = None /\ buffer' = buffer
    BY <1>6 DEF SaveDumpedChunkToDirectory, buffers
  <2>2. QED
    BY <1>1, <2>1 DEF SetsInv
<1>7. CASE \/ \E lidar \in Lidars : LidarInfoChange(lidar)
           \/ LidarEntered \/ GetSerialNumberToLidarIdMapping
           \/ \E kind \in Kinds, lidar \in Lidars : PacketArrives(kind, lidar)
           \/ \E kind \in Kinds : PushSample(kind) /\ ~logging
           \/ UNCHANGED vars
  BY <1>2, <1>7 DEF LidarInfoChange, LidarEntered, GetSerialNumberToLidarIdMapping,
                    PacketArrives, PushSample, vars, buffers, chunk
<1>8. QED
  BY <1>3, <1>4, <1>5, <1>6, <1>7 DEF Next

-----------------------------------------------------------------------------
(* Where the samples are.                                                  *)

\* The steps that move no sample.
Unmoved == UNCHANGED <<buffer, dumped, saved, discarded, received, cuts>>

LEMMA UnmovedSteps ==
    ASSUME [Next]_vars,
           ~(StartLog \/ StopLog \/ RetrieveData \/ SaveDumpedChunkToDirectory),
           \A kind \in Kinds : ~(PushSample(kind) /\ logging)
    PROVE  Unmoved
<1>1. CASE \/ \E lidar \in Lidars : LidarInfoChange(lidar)
           \/ LidarEntered \/ GetSerialNumberToLidarIdMapping
           \/ \E kind \in Kinds, lidar \in Lidars : PacketArrives(kind, lidar)
           \/ \E kind \in Kinds : PushSample(kind) /\ ~logging
           \/ UNCHANGED vars
  BY <1>1 DEF LidarInfoChange, LidarEntered, GetSerialNumberToLidarIdMapping, PacketArrives,
              PushSample, vars, buffers, chunk, written, Unmoved
<1>2. QED
  BY <1>1 DEF Next

\* A sample is put into a buffer.
LEMMA Pushes ==
    ASSUME TypeInv, NEW kind \in Kinds, PushSample(kind), logging
    PROVE  /\ \E new \in Sample : new.n = received + 1 /\ Buffered' = Buffered \cup {new}
           /\ received' = received + 1 /\ UNCHANGED <<dumped, saved, discarded, cuts>>
<1>1. PICK new \in Sample :
        /\ new.n = received + 1 /\ received' = received + 1
        /\ \A k \in Kinds : buffer'[k] = IF k = kind THEN buffer[k] \cup {new} ELSE buffer[k]
  BY PushedSample, ZenonT(30)
<1>2. Kinds = {"point", "imu"}
  BY DEF Kinds
<1>3. Buffered' = Buffered \cup {new}
  BY <1>1, <1>2 DEF Buffered
<1>4. QED
  BY <1>1, <1>3 DEF PushSample, chunk, written

\* Both buffers are thrown away.
LEMMA ThrowsAway ==
    ASSUME StartLog \/ StopLog
    PROVE  /\ Buffered' = {} /\ discarded' = discarded \cup Numbers(Buffered)
           /\ UNCHANGED <<dumped, saved, received, cuts>>
<1>1. /\ buffer' = None
      /\ discarded' = discarded \cup Numbers(buffer["point"] \cup buffer["imu"])
      /\ UNCHANGED <<dumped, saved, received, cuts>>
  BY DEF StartLog, StopLog, BuffersThrownAway, chunk
<1>2. QED
  BY <1>1 DEF Buffered, None, Kinds

\* Both buffers are put aside.
LEMMA Retrieves ==
    ASSUME TypeInv, RetrieveData
    PROVE  /\ Aside = {} /\ Aside' = Buffered /\ Buffered' = {}
           /\ UNCHANGED <<saved, discarded, received>>
           /\ cuts \in Seq(Nat) /\ Len(cuts) \in Nat /\ received \in Nat
           /\ Len(cuts') = Len(cuts) + 1 /\ cuts'[Len(cuts) + 1] = received
           /\ \A k \in 1..Len(cuts) : cuts'[k] = cuts[k]
           /\ \A s \in saved : s.chunk \in 1..Len(cuts)
<1>1. /\ buffer' = None /\ dumped' = buffer /\ cuts' = Append(cuts, received)
      /\ call = "logging" /\ UNCHANGED <<saved, discarded, received>>
  BY DEF RetrieveData, Retrieved, written
<1>2. dumped = None /\ Len(cuts) = Len(files) /\ \A s \in saved : s.chunk <= Len(files)
  BY <1>1 DEF TypeInv, Cutting
<1>3. cuts \in Seq(Nat) /\ received \in Nat /\ saved \subseteq SavedSample
  BY DEF TypeInv
<1>4. /\ Len(cuts) \in Nat /\ Len(cuts') = Len(cuts) + 1 /\ cuts'[Len(cuts) + 1] = received
      /\ \A k \in 1..Len(cuts) : cuts'[k] = cuts[k]
  BY ONLY <1>1, <1>3, AppendProperties, LenProperties
<1>5. Aside = {} /\ Aside' = Buffered /\ Buffered' = {}
  BY <1>1, <1>2 DEF Aside, Buffered, None, Kinds
<1>6. \A s \in saved : s.chunk \in 1..Len(cuts)
  BY <1>2, <1>3, <1>4 DEF SavedSample
<1>7. QED
  BY <1>1, <1>3, <1>4, <1>5, <1>6

\* Samples with the chunk they are saved in.
SavedAs(samples, k) == {[sample |-> s, chunk |-> k] : s \in samples}

LEMMA SavedOnce ==
    ASSUME NEW S, NEW k
    PROVE  /\ \A u \in SavedAs(S, k) : u.sample \in S /\ u.chunk = k
           /\ \A u, v \in SavedAs(S, k) : u.sample = v.sample => u = v
           /\ {u.sample : u \in SavedAs(S, k)} = S
           /\ IsFiniteSet(S) => /\ IsFiniteSet(SavedAs(S, k))
                               /\ Cardinality(SavedAs(S, k)) = Cardinality(S)
<1> DEFINE as == [s \in S |-> [sample |-> s, chunk |-> k]]
<1>1. as \in [S -> SavedAs(S, k)]
  BY DEF SavedAs
<1>2. \A u \in SavedAs(S, k) : u.sample \in S /\ u.chunk = k /\ u = as[u.sample]
  BY DEF SavedAs
<1>3. \A s \in S : as[s].sample = s
  OBVIOUS
<1> HIDE DEF as
<1>4. \A u, v \in SavedAs(S, k) : u.sample = v.sample => u = v
  BY <1>2
<1>5. {u.sample : u \in SavedAs(S, k)} = S
  BY <1>1, <1>2, <1>3
<1>6. as \in Bijection(S, SavedAs(S, k))
  BY <1>1, <1>2, <1>3, Fun_IsBij
<1>7. ExistsBijection(S, SavedAs(S, k))
  BY <1>6 DEF ExistsBijection
<1>8. QED
  BY <1>2, <1>4, <1>5, <1>7, FS_Bijection

\* What was put aside is saved or lost.
LEMMA Saves ==
    ASSUME TypeInv, SetsInv, SaveDumpedChunkToDirectory
    PROVE  /\ \E moved \in SUBSET Aside :
                /\ saved' = saved \cup SavedAs(moved, Len(cuts))
                /\ discarded' = discarded \cup Numbers(Aside \ moved)
           /\ Aside' = {} /\ UNCHANGED <<buffer, received, cuts>>
           /\ Len(cuts) \in Nat /\ Len(cuts) = Len(files) + 1
<1>1. dumped' = None /\ UNCHANGED <<buffer, received, cuts>> /\ Cutting
  BY DEF SaveDumpedChunkToDirectory, buffers, Cutting
<1>2. cuts \in Seq(Nat) /\ Len(cuts) = Len(files) + 1
  BY <1>1 DEF TypeInv
<1>3. Len(cuts) \in Nat
  BY ONLY <1>2, LenProperties
<1>4. Aside' = {}
  BY <1>1 DEF Aside, None, Kinds
<1>5. PICK imu \in SUBSET dumped["imu"], table \in SUBSET mapping.table,
           cloud \in PointClouds(dumped["point"]) :
        /\ saved' = saved \cup SavedAs(imu \cup cloud.held, Len(cuts))
        /\ discarded' = discarded \cup Numbers(Aside \ (imu \cup cloud.held))
  BY SavedStep DEF SavedAs
<1>6. cloud.held \subseteq dumped["point"]
  BY CloudType DEF SetsInv, Kinds
<1>7. imu \cup cloud.held \in SUBSET Aside
  BY <1>6 DEF Aside
<1>8. QED
  BY <1>1, <1>2, <1>3, <1>4, <1>5, <1>7

LEMMA CutStep ==
    ASSUME TypeInv, SetsInv, CutInv, \A s \in Samples : s.n <= received, [Next]_vars
    PROVE  CutInv'
<1>1. CASE Unmoved
  BY <1>1 DEF CutInv, Unmoved, Cut, Buffered, Aside, ChunksAreCutTogether
<1>2. ASSUME NEW kind \in Kinds, PushSample(kind), logging PROVE CutInv'
  <2>1. PICK new \in Sample : new.n = received + 1 /\ Buffered' = Buffered \cup {new}
    BY <1>2, Pushes
  <2>2. received' = received + 1 /\ UNCHANGED <<dumped, saved, cuts>>
    BY <1>2, Pushes
  <2>3. /\ Cut(Len(cuts))' = Cut(Len(cuts)) /\ Cut(Len(cuts) - 1)' = Cut(Len(cuts) - 1)
        /\ Aside' = Aside /\ ChunksAreCutTogether' = ChunksAreCutTogether
    BY <2>2 DEF Cut, Aside, ChunksAreCutTogether
  <2>4. Cut(Len(cuts)) <= received /\ received \in Nat /\ Cut(Len(cuts)) \in Nat
    <3>1. cuts \in Seq(Nat) /\ received \in Nat
      BY DEF TypeInv
    <3>2. \A k \in 1..Len(cuts) : cuts[k] \in Nat
      BY ONLY <3>1, LenProperties
    <3>3. Len(cuts) \in Nat
      BY ONLY <3>1, LenProperties
    <3>4. Cut(Len(cuts)) \in Nat
      BY <3>2, <3>3 DEF Cut
    <3>5. QED
      BY <3>1, <3>4 DEF CutInv
  <2>5. QED
    BY <2>1, <2>2, <2>3, <2>4 DEF CutInv
<1>3. CASE StartLog \/ StopLog
  <2>1. Buffered' = {} /\ UNCHANGED <<dumped, saved, received, cuts>>
    BY <1>3, ThrowsAway
  <2>2. QED
    BY <2>1 DEF CutInv, Cut, Aside, ChunksAreCutTogether
<1>4. CASE RetrieveData
  <2>1. /\ Aside' = Buffered /\ Buffered' = {} /\ UNCHANGED <<saved, received>>
        /\ Len(cuts) \in Nat /\ received \in Nat
        /\ Len(cuts') = Len(cuts) + 1 /\ cuts'[Len(cuts) + 1] = received
        /\ \A k \in 1..Len(cuts) : cuts'[k] = cuts[k]
        /\ \A s \in saved : s.chunk \in 1..Len(cuts)
    BY <1>4, Retrieves
  <2>2. \A k \in 0..Len(cuts) : Cut(k)' = Cut(k)
    BY <2>1 DEF Cut
  <2>3. Cut(Len(cuts))' = received
    BY <2>1 DEF Cut
  <2>4. Cut(Len(cuts) - 1)' = Cut(Len(cuts))
    BY <2>1 DEF Cut
  <2>5. \A s \in Aside' : Cut(Len(cuts)) < s.n /\ s.n <= received
    BY <2>1 DEF CutInv, Samples
  <2>6. ChunksAreCutTogether'
    BY <2>1, <2>2 DEF CutInv, ChunksAreCutTogether
  <2>7. QED
    BY <2>1, <2>3, <2>4, <2>5, <2>6 DEF CutInv
<1>5. CASE SaveDumpedChunkToDirectory
  <2>1. PICK moved \in SUBSET Aside :
          saved' = saved \cup SavedAs(moved, Len(cuts))
    BY <1>5, Saves
  <2>2. Aside' = {} /\ UNCHANGED <<buffer, received, cuts>>
    BY <1>5, Saves
  <2>3. ASSUME NEW s \in saved'
        PROVE  Cut(s.chunk - 1) < s.sample.n /\ s.sample.n <= Cut(s.chunk)
    <3>1. CASE s \in saved
      BY <3>1 DEF CutInv, ChunksAreCutTogether
    <3>2. CASE s \in SavedAs(moved, Len(cuts))
      <4>1. s.sample \in moved /\ s.chunk = Len(cuts)
        BY <3>2, SavedOnce
      <4>2. QED
        BY <4>1 DEF CutInv
    <3>3. QED
      BY <2>1, <3>1, <3>2
  <2>4. ChunksAreCutTogether'
    BY <2>2, <2>3 DEF ChunksAreCutTogether, Cut
  <2>5. QED
    BY <2>2, <2>4 DEF CutInv, Cut, Buffered
<1>6. QED
  BY <1>1, <1>2, <1>3, <1>4, <1>5, UnmovedSteps

\* Samples with numbers of their own leave theirs behind when they go.
LEMMA LeavesSamples ==
    ASSUME NEW S, NEW T \in SUBSET S, \A s, t \in S : s.n = t.n => s = t
    PROVE  /\ Numbers(S) = Numbers(S \ T) \cup Numbers(T)
           /\ Numbers(S \ T) \cap Numbers(T) = {}
BY DEF Numbers

LEMMA OnceStep ==
    ASSUME TypeInv, SetsInv, OnceInv, [Next]_vars
    PROVE  OnceInv'
<1>1. CASE Unmoved
  BY <1>1 DEF OnceInv, Apart, Unmoved, Samples, Buffered, Aside, Written
<1>2. ASSUME NEW kind \in Kinds, PushSample(kind), logging PROVE OnceInv'
  <2>1. PICK new \in Sample : new.n = received + 1 /\ Buffered' = Buffered \cup {new}
    BY <1>2, Pushes
  <2>2. received' = received + 1 /\ UNCHANGED <<dumped, saved, discarded>>
    BY <1>2, Pushes
  <2>3. Aside' = Aside /\ Written' = Written /\ Samples' = Samples \cup {new}
    BY <2>1, <2>2 DEF Aside, Written, Samples
  <2>4. /\ received \in Nat /\ new \notin Samples
        /\ \A s \in Samples : s.n # new.n /\ s.n \in Nat
        /\ new.n \notin discarded /\ Numbers(Samples') = Numbers(Samples) \cup {new.n}
    <3>1. received \in Nat /\ discarded \subseteq 1..received
      BY DEF TypeInv
    <3>2. \A s \in Samples : s.n \in Nat /\ s.n <= received
      BY SamplesType DEF OnceInv, Sample
    <3>3. QED
      BY <2>1, <2>3, <3>1, <3>2 DEF Numbers
  <2>5. \A s \in Samples' : s.n <= received'
    BY <2>1, <2>2, <2>3, <2>4 DEF OnceInv
  <2>6. \A s, t \in Samples' : s.n = t.n => s = t
    BY <2>3, <2>4 DEF OnceInv
  <2>7. 1..received' \subseteq Numbers(Samples)' \cup discarded'
    <3>1. ASSUME NEW n \in 1..received' PROVE n \in Numbers(Samples)' \cup discarded'
      <4>1. n \in 1..received \/ n = new.n
        BY <2>1, <2>2, <2>4
      <4>2. QED
        BY <2>2, <2>4, <4>1 DEF OnceInv, Numbers
    <3>2. QED
      BY <3>1
  <2>8. Apart'
    <3>1. Numbers(Samples)' = Numbers(Samples')
      BY DEF Numbers
    <3>2. Numbers(Samples') \cap discarded' = {}
      BY <2>2, <2>4 DEF OnceInv, Apart
    <3>3. Buffered' \cap (Aside' \cup Written') = {} /\ Aside' \cap Written' = {}
      BY <2>1, <2>3, <2>4 DEF OnceInv, Apart, Samples
    <3>4. QED
      BY <3>1, <3>2, <3>3 DEF Apart
  <2>9. QED
    BY <2>2, <2>5, <2>6, <2>7, <2>8 DEF OnceInv
<1>3. CASE StartLog \/ StopLog
  <2>1. /\ Buffered' = {} /\ discarded' = discarded \cup Numbers(Buffered)
        /\ UNCHANGED <<dumped, saved, received>>
    BY <1>3, ThrowsAway
  <2>2. Aside' = Aside /\ Written' = Written /\ Samples' = Aside \cup Written
    BY <2>1 DEF Aside, Written, Samples
  <2>3. /\ Numbers(Samples) = Numbers(Samples') \cup Numbers(Buffered)
        /\ Numbers(Samples') \cap Numbers(Buffered) = {}
        /\ Numbers(Samples)' = Numbers(Samples')
    BY <2>2, LeavesSamples DEF Samples, OnceInv, Apart, Numbers
  <2>4. Apart'
    BY <2>1, <2>2, <2>3 DEF OnceInv, Apart
  <2>5. QED
    BY <2>1, <2>2, <2>3, <2>4 DEF OnceInv, Samples
<1>4. CASE RetrieveData
  <2>1. /\ Aside = {} /\ Aside' = Buffered /\ Buffered' = {}
        /\ UNCHANGED <<saved, discarded, received>>
    BY <1>4, Retrieves
  <2>2. Written' = Written /\ Samples' = Samples /\ Numbers(Samples)' = Numbers(Samples)
    BY <2>1 DEF Written, Samples, Numbers
  <2>3. Apart'
    BY <2>1, <2>2 DEF OnceInv, Apart
  <2>4. QED
    BY <2>1, <2>2, <2>3 DEF OnceInv
<1>5. CASE SaveDumpedChunkToDirectory
  <2>1. PICK moved \in SUBSET Aside :
          /\ saved' = saved \cup SavedAs(moved, Len(cuts))
          /\ discarded' = discarded \cup Numbers(Aside \ moved)
    BY <1>5, Saves
  <2>2. Aside' = {} /\ UNCHANGED <<buffer, received>>
    BY <1>5, Saves
  <2> DEFINE new == SavedAs(moved, Len(cuts))
  <2>3. {s.sample : s \in new} = moved
    BY SavedOnce
  <2>4. Buffered' = Buffered /\ Written' = Written \cup moved
    BY <2>1, <2>2, <2>3 DEF Buffered, Written
  <2>5. /\ Samples' = Samples \ (Aside \ moved)
        /\ Numbers(Samples) = Numbers(Samples') \cup Numbers(Aside \ moved)
        /\ Numbers(Samples') \cap Numbers(Aside \ moved) = {}
        /\ Numbers(Samples)' = Numbers(Samples')
    <3>1. Samples' = Samples \ (Aside \ moved)
      BY <2>1, <2>2, <2>4 DEF Samples, OnceInv, Apart
    <3>2. Aside \ moved \subseteq Samples
      BY DEF Samples
    <3>3. QED
      BY <3>1, <3>2, LeavesSamples DEF OnceInv, Numbers
  <2>6. Apart'
    BY <2>1, <2>2, <2>4, <2>5 DEF OnceInv, Apart
  <2>7. ASSUME NEW s \in saved', NEW t \in saved', s.sample = t.sample PROVE s = t
    <3>1. /\ \A u \in new : u.sample \in moved
          /\ \A u, v \in new : u.sample = v.sample => u = v
      BY SavedOnce
    <3>2. \A u \in saved : u.sample \notin moved
      BY DEF OnceInv, Apart, Written
    <3>3. s \in saved \cup new /\ t \in saved \cup new
      BY <2>1
    <3>4. CASE s \in saved /\ t \in saved
      BY <2>7, <3>4 DEF OnceInv
    <3>5. CASE s \in new /\ t \in new
      BY <2>7, <3>1, <3>5
    <3>6. QED
      BY <2>7, <3>1, <3>2, <3>3, <3>4, <3>5
  <2>8. IsFiniteSet(saved')
    <3>1. IsFiniteSet(Aside)
      BY FS_Union DEF SetsInv, Aside, Kinds
    <3>2. IsFiniteSet(moved)
      BY <3>1, FS_Subset
    <3>3. IsFiniteSet(new)
      BY <3>2, SavedOnce
    <3>4. QED
      BY <2>1, <3>3, FS_Union DEF OnceInv
  <2>9. 1..received' \subseteq Numbers(Samples)' \cup discarded'
    BY <2>1, <2>2, <2>5 DEF OnceInv
  <2>10. /\ \A s \in Samples' : s.n <= received'
         /\ \A s, t \in Samples' : s.n = t.n => s = t
    BY <2>2, <2>5 DEF OnceInv
  <2>11. QED
    BY <2>6, <2>7, <2>8, <2>9, <2>10 DEF OnceInv
<1>6. QED
  BY <1>1, <1>2, <1>3, <1>4, <1>5, UnmovedSteps

-----------------------------------------------------------------------------
(* Positions of points.                                                    *)

\* The position of a point in a buffer of any size.
Below(p, P) == {q \in P : q.n < p.n}

LEMMA Positions ==
    ASSUME NEW P, P \subseteq Sample, IsFiniteSet(P), NEW p \in P
    PROVE  /\ Cardinality(Below(p, P)) \in 0..(Cardinality(P) - 1)
           /\ \A q \in P : p.n < q.n => Cardinality(Below(p, P)) < Cardinality(Below(q, P))
<1>1. \A q \in P : IsFiniteSet(Below(q, P)) /\ Cardinality(Below(q, P)) \in Nat
  <2> SUFFICES ASSUME NEW q \in P
               PROVE  IsFiniteSet(Below(q, P)) /\ Cardinality(Below(q, P)) \in Nat
    OBVIOUS
  <2>1. Below(q, P) \subseteq P
    BY DEF Below
  <2>2. IsFiniteSet(Below(q, P))
    BY <2>1, FS_Subset
  <2>3. QED
    BY <2>2, FS_CardinalityType
<1>2. \A q \in P : q.n \in Nat
  BY DEF Sample
<1>3. Cardinality(P) \in Nat
  BY FS_CardinalityType
<1>4. Cardinality(Below(p, P)) < Cardinality(P)
  <2>1. Below(p, P) \subseteq P /\ p \notin Below(p, P)
    BY <1>2 DEF Below
  <2>2. Cardinality(Below(p, P)) <= Cardinality(P) /\ Cardinality(Below(p, P)) # Cardinality(P)
    BY <2>1, FS_Subset
  <2>3. QED
    BY <1>1, <1>3, <2>2
<1>5. ASSUME NEW q \in P, p.n < q.n
      PROVE  Cardinality(Below(p, P)) < Cardinality(Below(q, P))
  <2>1. Below(p, P) \subseteq Below(q, P) /\ p \in Below(q, P) /\ p \notin Below(p, P)
    BY <1>2, <1>5 DEF Below
  <2>2. /\ Cardinality(Below(p, P)) <= Cardinality(Below(q, P))
        /\ Cardinality(Below(p, P)) # Cardinality(Below(q, P))
    BY <1>1, <2>1, FS_Subset
  <2>3. QED
    BY <1>1, <2>2
<1>6. QED
  BY <1>1, <1>3, <1>4, <1>5

\* The points of a buffer that are written are as many as the positions the loop visits.
LEMMA ThinnedCount ==
    ASSUME NEW P, P \subseteq Sample, IsFiniteSet(P), \A p, q \in P : p.n = q.n => p = q
    PROVE  /\ IsFiniteSet(Thinned(P))
           /\ Cardinality(Thinned(P)) = PointsWritten(Cardinality(P))
<1> DEFINE N == Cardinality(P)
           rank == [p \in P |-> Cardinality(Below(p, P))]
<1>1. N \in Nat
  BY FS_CardinalityType
<1>2. rank \in [P -> 0..(N - 1)]
  BY Positions
<1>3. ASSUME NEW p \in P, NEW q \in P, rank[p] = rank[q] PROVE p = q
  <2>1. p.n \in Nat /\ q.n \in Nat
    BY DEF Sample
  <2>2. rank[p] \in Nat /\ rank[q] \in Nat
    BY <1>1, <1>2
  <2>3. ~(p.n < q.n) /\ ~(q.n < p.n)
    BY <1>3, <2>2, Positions
  <2>4. QED
    BY <2>1, <2>3
<1>4. Thinned(P) = {p \in P : rank[p] \in Indices(N)}
  BY DEF Thinned, Below
<1> HIDE DEF rank, N
<1>5. rank \in Injection(P, 0..(N - 1))
  BY <1>2, <1>3 DEF Injection, IsInjective
<1>6. IsFiniteSet(0..(N - 1)) /\ Cardinality(0..(N - 1)) = N
  <2>1. 0 \in Int /\ N - 1 \in Int
    BY <1>1
  <2>2. /\ IsFiniteSet(0..(N - 1))
        /\ Cardinality(0..(N - 1)) = IF 0 > N - 1 THEN 0 ELSE (N - 1) - 0 + 1
    BY ONLY <2>1, FS_Interval
  <2>3. QED
    BY <1>1, <2>2
<1>7. rank \in Surjection(P, 0..(N - 1))
  BY <1>5, <1>6, FS_Injection DEF N
<1>8. \A i \in 0..(N - 1) : \E p \in P : rank[p] = i
  BY <1>7 DEF Surjection
<1> DEFINE index == [p \in Thinned(P) |-> rank[p]]
<1>9. Indices(N) \subseteq 0..(N - 1)
  BY DEF Indices
<1>10. index \in [Thinned(P) -> Indices(N)]
  BY <1>4
<1>11. \A p, q \in Thinned(P) : index[p] = index[q] => p = q
  BY <1>3, <1>4
<1>12. \A i \in Indices(N) : \E p \in Thinned(P) : index[p] = i
  BY <1>4, <1>8, <1>9
<1> HIDE DEF index
<1>13. index \in Bijection(Thinned(P), Indices(N))
  BY <1>10, <1>11, <1>12, Fun_IsBij
<1>14. ExistsBijection(Thinned(P), Indices(N))
  BY <1>13 DEF ExistsBijection
<1>15. IsFiniteSet(Thinned(P))
  BY <1>4, FS_Subset
<1>16. Cardinality(Indices(N)) = Cardinality(Thinned(P))
  BY <1>14, <1>15, FS_Bijection
<1>17. QED
  BY <1>1, <1>15, <1>16, PositionsCounted DEF N

\* What the header of a file says of its points.
LEMMA HeaderOfThinned ==
    ASSUME NEW P, P \subseteq Sample, IsFiniteSet(P), \A p, q \in P : p.n = q.n => p = q
    PROVE  LET count == Cardinality(Thinned(P))
           IN /\ count <= MostPoints \/ count <= ThinTo
              /\ count - Header(P) \in {0, 1}
              /\ Header(P) \in Nat
<1> DEFINE N == Cardinality(P)
<1>1. N \in Nat
  BY FS_CardinalityType
<1>2. Cardinality(Thinned(P)) = PointsWritten(N)
  BY ThinnedCount
<1>3. Header(P) = NumPoints(N) /\ Header(P) \in Nat
  BY HeaderType DEF Header
<1> HIDE DEF N
<1>4. PointsWritten(N) \in NumPoints(N)..(NumPoints(N) + 1)
  BY <1>1, HeaderIsClose
<1>5. PointsWritten(N) <= MostPoints \/ PointsWritten(N) <= ThinTo
  <2>1. CASE N <= MostPoints
    BY <1>1, <2>1, SmallCloudsAreWhole
  <2>2. CASE N > MostPoints
    BY <1>1, <2>2, LargeCloudsAreThinned
  <2>3. QED
    BY <1>1, <2>1, <2>2, ThinningAssumption
<1>6. QED
  BY <1>2, <1>3, <1>4, <1>5

\* The points saved with a chunk.
PointsOf(k) == {s \in saved : s.chunk = k /\ s.sample.kind = "point"}

HeaderCounts(k) ==
    LET count == Cardinality(PointsOf(k))
    IN /\ count <= MostPoints \/ count <= ThinTo
       /\ files[k].points = NoFile => count = 0
       /\ files[k].points # NoFile => count <= files[k].points + 1
       /\ files[k].complete => files[k].points \in 0..count

HeadersInv == \A k \in 1..Len(files) : HeaderCounts(k)

LEMMA HeadersStep ==
    ASSUME TypeInv, SetsInv, OnceInv, HeadersInv, [Next]_vars
    PROVE  HeadersInv'
<1>1. CASE UNCHANGED <<saved, files>>
  BY <1>1 DEF HeadersInv, HeaderCounts, PointsOf
<1>2. CASE SaveDumpedChunkToDirectory
  <2>1. PICK imu \in SUBSET dumped["imu"], table \in SUBSET mapping.table,
             cloud \in PointClouds(dumped["point"]) :
          /\ saved' = saved \cup SavedAs(imu \cup cloud.held, Len(cuts))
          /\ files' = Append(files, [table |-> table, among |-> mapping.among,
                                     points |-> cloud.points, complete |-> cloud.complete])
    BY <1>2, SavedStep DEF SavedAs
  <2> DEFINE file == [table |-> table, among |-> mapping.among,
                      points |-> cloud.points, complete |-> cloud.complete]
             P == dumped["point"]
             held == cloud.held
             moved == imu \cup held
  <2>0. PICK k : k = Len(cuts)
    OBVIOUS
  <2>2. k = Len(files) + 1 /\ Len(files) \in Nat /\ files \in Seq(ChunkFile)
    <3>1. files \in Seq(ChunkFile)
      BY DEF TypeInv
    <3>2. Len(files) \in Nat
      BY ONLY <3>1, LenProperties
    <3>3. QED
      BY <1>2, <2>0, <3>1, <3>2, Saves
  <2>3. /\ held \subseteq Thinned(P) /\ Thinned(P) \subseteq P
        /\ cloud.complete \in BOOLEAN
        /\ (cloud.points = NoFile /\ held = {}) \/ cloud.points = Header(P)
        /\ cloud.complete => held = Thinned(P) /\ cloud.points = Header(P)
        /\ cloud.points \in Nat \cup {NoFile}
    BY CloudType DEF SetsInv, Kinds
  <2>4. /\ Len(files') = Len(files) + 1
        /\ \A j \in 1..Len(files) : files'[j] = files[j]
        /\ files'[Len(files) + 1] = file
    <3>1. files' = Append(files, file)
      BY <2>1
    <3>2. files \in Seq(ChunkFile \cup {file}) /\ file \in ChunkFile \cup {file}
      BY <2>2
    <3>3. QED
      BY ONLY <2>2, <3>1, <3>2, AppendProperties
  <2>5. \A s \in saved : s.chunk \in Nat /\ s.chunk <= Len(files)
    BY DEF TypeInv, SavedSample
  <2>6. \A s \in SavedAs(moved, k) : s.sample \in moved /\ s.chunk = k
    BY SavedOnce
  <2>7. ASSUME NEW j \in 1..Len(files) PROVE HeaderCounts(j)'
    <3>1. j # k
      BY <2>2
    <3>2. PointsOf(j)' = PointsOf(j)
      BY <2>0, <2>1, <2>6, <3>1 DEF PointsOf
    <3>3. HeaderCounts(j) /\ files'[j] = files[j]
      BY <2>4 DEF HeadersInv
    <3>4. QED
      BY <3>2, <3>3 DEF HeaderCounts
  <2>8. PointsOf(k)' = SavedAs(held, k)
    <3>1. {s \in moved : s.kind = "point"} = held
      <4>1. \A s \in dumped["imu"] : s.kind = "imu"
        BY DEF SetsInv, Kinds
      <4>2. \A s \in P : s.kind = "point"
        BY DEF SetsInv, Kinds
      <4>3. QED
        BY <2>3, <4>1, <4>2
    <3>2. \A s \in saved : s.chunk # k
      BY <2>2, <2>5
    <3>3. PointsOf(k)' = {s \in SavedAs(moved, k) : s.sample.kind = "point"}
      BY <2>0, <2>1, <2>6, <3>2 DEF PointsOf
    <3>4. QED
      BY <3>1, <3>3 DEF SavedAs
  <2>9. HeaderCounts(k)'
    <3>1. files'[k] = file
      BY <2>2, <2>4
    <3>2. /\ P \subseteq Sample /\ IsFiniteSet(P)
          /\ \A p, q \in P : p.n = q.n => p = q
      BY DEF TypeInv, SetsInv, OnceInv, Samples, Aside, Kinds
    <3> DEFINE count == Cardinality(held)
               all == Cardinality(Thinned(P))
    <3>3. /\ all <= MostPoints \/ all <= ThinTo
          /\ all - Header(P) \in {0, 1} /\ Header(P) \in Nat
      BY <3>2, HeaderOfThinned
    <3>4. /\ IsFiniteSet(held) /\ count \in Nat /\ all \in Nat /\ count <= all
          /\ held = {} => count = 0
      <4>1. IsFiniteSet(Thinned(P))
        BY <3>2, ThinnedCount
      <4>2. IsFiniteSet(held) /\ Cardinality(held) <= Cardinality(Thinned(P))
        BY ONLY <2>3, <4>1, FS_Subset
      <4>3. QED
        BY <4>1, <4>2, FS_CardinalityType, FS_EmptySet
    <3>5. Cardinality(PointsOf(k)') = count
      BY <2>8, <3>4, SavedOnce
    <3>6. /\ (cloud.points = NoFile /\ count = 0) \/ cloud.points = Header(P)
          /\ cloud.complete => count = all /\ cloud.points = Header(P)
      BY <2>3, <3>4
    <3> HIDE DEF count, all
    <3>7. /\ count <= MostPoints \/ count <= ThinTo
          /\ cloud.points = NoFile => count = 0
          /\ cloud.points # NoFile => count <= cloud.points + 1
          /\ cloud.complete => cloud.points \in 0..count
      BY <3>3, <3>4, <3>6, ThinningAssumption DEF NoFile
    <3>8. file.points = cloud.points /\ file.complete = cloud.complete
      OBVIOUS
    <3> HIDE DEF file
    <3>9. QED
      BY <3>1, <3>5, <3>7, <3>8 DEF HeaderCounts
  <2>10. QED
    BY <2>2, <2>4, <2>7, <2>9 DEF HeadersInv
<1>3. CASE StartLog \/ StopLog \/ RetrieveData
  BY <1>1, <1>3 DEF StartLog, StopLog, RetrieveData, written
<1>4. CASE \/ \E lidar \in Lidars : LidarInfoChange(lidar)
           \/ LidarEntered \/ GetSerialNumberToLidarIdMapping
           \/ \E kind \in Kinds, lidar \in Lidars : PacketArrives(kind, lidar)
           \/ \E kind \in Kinds : PushSample(kind)
           \/ UNCHANGED vars
  BY <1>1, <1>4 DEF LidarInfoChange, LidarEntered, GetSerialNumberToLidarIdMapping,
                    PacketArrives, PushSample, vars, written
<1>5. QED
  BY <1>2, <1>3, <1>4 DEF Next

-----------------------------------------------------------------------------
(* Ids.                                                                    *)

\* Lidars have different ids, none of which is that of an unknown handle.
LEMMA IdsDiffer ==
    ASSUME NEW S, S \subseteq Lidars, NEW a \in S, NEW b \in S
    PROVE  /\ IdAmong(a, S) = IdAmong(b, S) => a = b
           /\ IdAmong(a, S) < NoId
<1> DEFINE under(x) == {s \in S : s < x}
<1>1. S \subseteq Nat /\ IsFiniteSet(S) /\ Cardinality(S) \in Nat /\ Cardinality(S) <= NoId
  BY SerialsFinite, LidarsAssumption
<1>2. \A x \in S : IdAmong(x, S) = Cardinality(under(x)) /\ IdAmong(x, S) \in Nat
  BY IdType DEF IdAmong
<1>3. \A x \in S : under(x) \subseteq S /\ x \notin under(x)
  BY <1>1
<1>4. ASSUME NEW x \in S, NEW y \in S, x < y PROVE IdAmong(x, S) # IdAmong(y, S)
  <2>0. x \in Nat /\ y \in Nat
    BY <1>1
  <2>1. under(x) \subseteq under(y) /\ x \in under(y) /\ IsFiniteSet(under(y))
    <3>1. under(x) \subseteq under(y) /\ x \in under(y)
      <4>1. \A z \in S : z \in Nat /\ (z < x => z < y)
        BY <1>1, <1>4, <2>0
      <4>2. QED
        BY <1>4, <4>1
    <3>2. under(y) \subseteq S
      OBVIOUS
    <3>3. IsFiniteSet(under(y))
      BY ONLY <1>1, <3>2, FS_Subset
    <3>4. QED
      BY <3>1, <3>3
  <2>2. under(x) # under(y)
    BY <1>3, <2>1
  <2>3. Cardinality(under(x)) # Cardinality(under(y))
    BY ONLY <2>1, <2>2, FS_Subset
  <2>4. QED
    BY <1>2, <2>3
<1>5. IdAmong(a, S) # Cardinality(S) /\ IdAmong(a, S) <= Cardinality(S)
  <2>1. under(a) \subseteq S /\ under(a) # S
    BY <1>3
  <2>2. Cardinality(under(a)) # Cardinality(S) /\ Cardinality(under(a)) <= Cardinality(S)
    BY ONLY <1>1, <2>1, FS_Subset
  <2>3. QED
    BY <1>2, <2>2
<1>6. IdAmong(a, S) = IdAmong(b, S) => a = b
  BY <1>1, <1>4
<1>7. IdAmong(a, S) < NoId
  <2>1. IdAmong(a, S) \in Nat
    BY <1>2
  <2>2. QED
    BY ONLY <1>1, <1>5, <2>1, NoId = 255 DEF NoId
<1>8. QED
  BY <1>6, <1>7

\* What is counted among some lidars is counted among more.
LEMMA CountedMore ==
    ASSUME NEW S, NEW T, S \subseteq T
    PROVE  \A s : Counted(s, S) => Counted(s, T)
BY DEF Counted

\* How far two ids of a lidar differ that are counted among sets of lidars which both
\* contain a third, if one of them contains the other.
LEMMA IdsShift ==
    ASSUME NEW lidar \in Lidars, NEW T, T \subseteq Lidars,
           NEW S, S \subseteq T, NEW R, R \subseteq S
    PROVE  IdAmong(lidar, T) - IdAmong(lidar, S) \in 0..Cardinality(T \ R)
<1> DEFINE under(x) == {s \in x : s < lidar}
<1>1. /\ IsFiniteSet(under(T)) /\ IsFiniteSet(under(S)) /\ IsFiniteSet(T \ R)
      /\ Cardinality(under(T)) \in Nat /\ Cardinality(under(S)) \in Nat
      /\ Cardinality(T \ R) \in Nat
  <2>1. under(T) \subseteq Lidars /\ under(S) \subseteq Lidars /\ T \ R \subseteq Lidars
    OBVIOUS
  <2>2. QED
    BY <2>1, SerialsFinite
<1>2. IdAmong(lidar, T) = Cardinality(under(T)) /\ IdAmong(lidar, S) = Cardinality(under(S))
  BY DEF IdAmong
<1>3. under(S) \subseteq under(T) /\ under(T) \subseteq under(S) \cup (T \ R)
  OBVIOUS
<1> HIDE DEF under
<1>4. Cardinality(under(S)) <= Cardinality(under(T))
  BY ONLY <1>1, <1>3, FS_Subset
<1>5. /\ IsFiniteSet(under(S) \cup (T \ R))
      /\ Cardinality(under(S) \cup (T \ R)) <= Cardinality(under(S)) + Cardinality(T \ R)
  <2>1. /\ IsFiniteSet(under(S) \cup (T \ R))
        /\ Cardinality(under(S) \cup (T \ R)) =
             Cardinality(under(S)) + Cardinality(T \ R) - Cardinality(under(S) \cap (T \ R))
    BY ONLY <1>1, FS_Union
  <2>2. IsFiniteSet(under(S) \cap (T \ R))
    BY <1>1, FS_Subset
  <2>3. Cardinality(under(S) \cap (T \ R)) \in Nat
    BY <2>2, FS_CardinalityType
  <2>4. QED
    BY <1>1, <2>1, <2>3
<1>6. Cardinality(under(T)) <= Cardinality(under(S) \cup (T \ R))
  BY ONLY <1>3, <1>5, FS_Subset
<1>7. Cardinality(under(S) \cup (T \ R)) \in Nat
  BY <1>5, FS_CardinalityType
<1>8. QED
  BY <1>1, <1>2, <1>4, <1>5, <1>6, <1>7

\* The steps after which what is buffered and put aside is as fresh as before.
LEMMA IdsKept ==
    ASSUME IdsInv, UNCHANGED <<dumped, mapping, call, saved, files>>,
           \A kind \in Kinds : callback'[kind] # Idle
                   => Fresh(callback'[kind], m_serialNumbers', announced'),
           \A s \in Buffered' : Fresh(s, m_serialNumbers', announced'),
           \A s \in Aside : Fresh(s, m_serialNumbers, announced)
                   => Fresh(s, m_serialNumbers', announced')
    PROVE  IdsInv'
<1>1. Aside' = Aside
  BY DEF Aside
<1>2. QED
  BY <1>1 DEF IdsInv, Named, Counted

LEMMA IdsStep ==
    ASSUME TypeInv, SetsInv, IdsInv, [Next]_vars
    PROVE  IdsInv'
<1>1. ASSUME NEW lidar \in Lidars, LidarInfoChange(lidar) PROVE IdsInv'
  <2>1. /\ UNCHANGED <<dumped, mapping, call, saved, files, callback, buffer, m_serialNumbers>>
        /\ announced = NoLidar /\ announced' # NoLidar
    BY <1>1, LidarsAssumption DEF LidarInfoChange, buffers, chunk, written, NoLidar
  <2>2. \A s : Fresh(s, m_serialNumbers, announced) => Fresh(s, m_serialNumbers', announced')
    <3>1. m_serialNumbers \cup ({announced} \ {NoLidar})
            \subseteq m_serialNumbers' \cup ({announced'} \ {NoLidar})
      BY <2>1
    <3>2. QED
      BY <2>1, <3>1, CountedMore DEF Fresh
  <2>3. Buffered' = Buffered
    BY <2>1 DEF Buffered
  <2>4. \A kind \in Kinds : callback'[kind] # Idle
          => Fresh(callback'[kind], m_serialNumbers', announced')
    BY <2>1, <2>2 DEF IdsInv
  <2>5. \A s \in Buffered' : Fresh(s, m_serialNumbers', announced')
    BY <2>2, <2>3 DEF IdsInv
  <2>6. QED
    BY <2>1, <2>2, <2>4, <2>5, IdsKept
<1>2. CASE LidarEntered
  <2>1. /\ UNCHANGED <<dumped, mapping, call, saved, files, callback, buffer>>
        /\ m_serialNumbers' = m_serialNumbers \cup {announced}
        /\ announced \notin m_serialNumbers /\ announced # NoLidar
    BY <1>2 DEF LidarEntered, buffers, chunk, written, TypeInv
  <2>2. \A s : Fresh(s, m_serialNumbers, announced) => Fresh(s, m_serialNumbers', announced')
    <3>1. m_serialNumbers \cup ({announced} \ {NoLidar})
            \subseteq m_serialNumbers' \cup ({announced'} \ {NoLidar})
      BY <2>1
    <3>2. QED
      BY <2>1, <3>1, CountedMore DEF Fresh, Named
  <2>3. Buffered' = Buffered
    BY <2>1 DEF Buffered
  <2>4. \A kind \in Kinds : callback'[kind] # Idle
          => Fresh(callback'[kind], m_serialNumbers', announced')
    BY <2>1, <2>2 DEF IdsInv
  <2>5. \A s \in Buffered' : Fresh(s, m_serialNumbers', announced')
    BY <2>2, <2>3 DEF IdsInv
  <2>6. QED
    BY <2>1, <2>2, <2>4, <2>5, IdsKept
<1>3. ASSUME UNCHANGED <<m_serialNumbers, announced>>, NEW s
      PROVE  Fresh(s, m_serialNumbers', announced') = Fresh(s, m_serialNumbers, announced)
  BY <1>3 DEF Fresh, Named, Counted
<1>4. ASSUME NEW kind \in Kinds, NEW lidar \in Lidars, PacketArrives(kind, lidar)
      PROVE  IdsInv'
  <2>1. PICK id \in LidarIds(lidar) :
          callback' = [callback EXCEPT ![kind] =
                         [lidar |-> lidar, id |-> id, among |-> m_serialNumbers]]
    BY <1>4 DEF PacketArrives
  <2> DEFINE new == [lidar |-> lidar, id |-> id, among |-> m_serialNumbers]
  <2>2. Fresh(new, m_serialNumbers, announced)
    <3> DEFINE all == m_serialNumbers \cup ({announced} \ {NoLidar})
    <3>0. Counted(new, all)
      <4>1. new.lidar = lidar /\ new.id = id /\ new.among = m_serialNumbers
        OBVIOUS
      <4>2. ASSUME lidar \in m_serialNumbers
            PROVE  \E seen \in SUBSET all :
                     m_serialNumbers \subseteq seen /\ id = IdAmong(lidar, seen)
        <5>1. CASE id = IdAmong(lidar, m_serialNumbers)
          BY <5>1
        <5>2. CASE announced # NoLidar /\ id = IdAmong(lidar, m_serialNumbers \cup {announced})
          BY <5>2
        <5>3. QED
          BY <4>2, <5>1, <5>2 DEF LidarIds
      <4> HIDE DEF new
      <4>3. QED
        BY <4>1, <4>2 DEF Counted
    <3>1. CASE announced # NoLidar
      BY <3>0, <3>1 DEF Fresh
    <3>2. CASE announced = NoLidar
      <4>1. LidarIds(lidar) = IF lidar \in m_serialNumbers
                                THEN {IdAmong(lidar, m_serialNumbers)} ELSE {NoId}
        <5>1. lidar # NoLidar
          BY LidarsAssumption DEF NoLidar
        <5>2. QED
          BY <3>2, <5>1 DEF LidarIds
      <4>2. id = IF lidar \in m_serialNumbers THEN IdAmong(lidar, m_serialNumbers) ELSE NoId
        BY <4>1
      <4>3. new.lidar = lidar /\ new.id = id /\ new.among = m_serialNumbers
        OBVIOUS
      <4>4. Named(new)
        BY <4>2, <4>3 DEF Named
      <4>5. QED
        BY <3>0, <4>3, <4>4 DEF Fresh
    <3>3. QED
      BY <3>1, <3>2
  <2> HIDE DEF new
  <2>3. UNCHANGED <<m_serialNumbers, announced, dumped, mapping, call, saved, files, buffer>>
    BY <1>4 DEF PacketArrives, known, buffers, chunk, written
  <2>4. \A s : Fresh(s, m_serialNumbers', announced') = Fresh(s, m_serialNumbers, announced)
    BY <1>3, <2>3
  <2>5. callback \in [Kinds -> Packet] /\ callback' = [callback EXCEPT ![kind] = new]
    BY <2>1 DEF TypeInv, new
  <2>6. \A k \in Kinds : callback'[k] # Idle => Fresh(callback'[k], m_serialNumbers, announced)
    BY <2>2, <2>5 DEF IdsInv
  <2>7. Buffered' = Buffered
    BY <2>3 DEF Buffered
  <2>8. \A k \in Kinds : callback'[k] # Idle
          => Fresh(callback'[k], m_serialNumbers', announced')
    BY <2>4, <2>6
  <2>9. \A s \in Buffered' : Fresh(s, m_serialNumbers', announced')
    BY <2>4, <2>7 DEF IdsInv
  <2>10. QED
    BY <2>3, <2>4, <2>8, <2>9, IdsKept
<1>5. ASSUME NEW kind \in Kinds, PushSample(kind) PROVE IdsInv'
  <2>1. UNCHANGED <<m_serialNumbers, announced, dumped, mapping, call, saved, files>>
    BY <1>5 DEF PushSample, known, chunk, written
  <2>2. \A s : Fresh(s, m_serialNumbers', announced') = Fresh(s, m_serialNumbers, announced)
    BY <1>3, <2>1
  <2>3. \A k \in Kinds : callback'[k] # Idle => Fresh(callback'[k], m_serialNumbers, announced)
    <3>1. callback \in [Kinds -> Packet] /\ callback' = [callback EXCEPT ![kind] = Idle]
      BY <1>5 DEF TypeInv, PushSample
    <3>2. QED
      BY <3>1 DEF IdsInv
  <2>4. \A s \in Buffered' : Fresh(s, m_serialNumbers, announced)
    <3>1. CASE logging
      <4>1. PICK new \in Sample :
              /\ new.lidar = callback[kind].lidar /\ new.id = callback[kind].id
              /\ new.among = callback[kind].among /\ callback[kind] # Idle
              /\ \A k \in Kinds : buffer'[k] = IF k = kind THEN buffer[k] \cup {new}
                                                           ELSE buffer[k]
        BY <1>5, <3>1, PushedSample, ZenonT(30)
      <4>2. Fresh(callback[kind], m_serialNumbers, announced)
        BY <4>1 DEF IdsInv
      <4>3. Fresh(new, m_serialNumbers, announced)
        BY <4>1, <4>2 DEF Fresh, Named, Counted
      <4>4. \A s \in Buffered' : s \in Buffered \/ s = new
        BY <4>1 DEF Buffered, Kinds
      <4>5. QED
        BY <4>3, <4>4 DEF IdsInv
    <3>2. CASE ~logging
      BY <1>5, <3>2 DEF PushSample, Buffered, IdsInv
    <3>3. QED
      BY <3>1, <3>2
  <2>5. \A k \in Kinds : callback'[k] # Idle
          => Fresh(callback'[k], m_serialNumbers', announced')
    BY <2>2, <2>3
  <2>6. \A s \in Buffered' : Fresh(s, m_serialNumbers', announced')
    BY <2>2, <2>4
  <2>7. QED
    BY <2>1, <2>2, <2>5, <2>6, IdsKept
<1>6. CASE StartLog \/ StopLog
  <2>1. /\ UNCHANGED <<m_serialNumbers, announced, callback, dumped, mapping, saved, files>>
        /\ \/ call = "idle" /\ call' = "logging"
           \/ call = "lastDumped" /\ call' = "lastSave"
    BY <1>6 DEF StartLog, StopLog, known, chunk
  <2>2. \A s : Fresh(s, m_serialNumbers', announced') = Fresh(s, m_serialNumbers, announced)
    BY <1>3, <2>1
  <2>3. Buffered' = {} /\ Aside' = Aside
    BY <1>6, <2>1, ThrowsAway DEF Aside
  <2>4. QED
    BY <2>1, <2>2, <2>3 DEF IdsInv, Named, Counted
<1>7. CASE RetrieveData
  <2>1. /\ UNCHANGED <<m_serialNumbers, announced, callback, saved, files>> /\ call' = "mapping"
    BY <1>7 DEF RetrieveData, known, written
  <2>2. \A s : Fresh(s, m_serialNumbers', announced') = Fresh(s, m_serialNumbers, announced)
    BY <1>3, <2>1
  <2>3. Buffered' = {} /\ Aside' = Buffered
    BY <1>7, Retrieves
  <2>4. QED
    BY <2>1, <2>2, <2>3 DEF IdsInv, Named, Counted
<1>8. CASE GetSerialNumberToLidarIdMapping
  <2>1. /\ UNCHANGED <<m_serialNumbers, announced, callback, buffer, dumped, saved, files>>
        /\ call = "mapping" /\ call' \in {"dumped", "lastDumped"} /\ announced = NoLidar
        /\ mapping' = [table |-> TableOf(m_serialNumbers), among |-> m_serialNumbers]
    BY <1>8 DEF GetSerialNumberToLidarIdMapping, Table, LidarTable, TableOf, known, buffers,
                written
  <2>2. \A s : Fresh(s, m_serialNumbers', announced') = Fresh(s, m_serialNumbers, announced)
    BY <1>3, <2>1
  <2>3. Buffered' = Buffered /\ Aside' = Aside
    BY <2>1 DEF Buffered, Aside
  <2>4. /\ mapping'.table = TableOf(mapping'.among)
        /\ \A s \in Aside' : Named(s) \/ s.among # mapping'.among
        /\ \A s \in Aside' : Counted(s, mapping'.among)
    <3>1. m_serialNumbers \cup ({announced} \ {NoLidar}) = mapping'.among
      BY <2>1
    <3>2. QED
      BY <2>1, <2>3, <3>1 DEF IdsInv, Fresh
  <2>5. /\ \A kind \in Kinds : callback'[kind] # Idle
              => Fresh(callback'[kind], m_serialNumbers', announced')
        /\ \A s \in Buffered' : Fresh(s, m_serialNumbers', announced')
    BY <2>1, <2>2, <2>3 DEF IdsInv
  <2>6. /\ \A k \in 1..Len(files') : files'[k].table \subseteq TableOf(files'[k].among)
        /\ \A s \in saved' : /\ Named(s.sample) \/ s.sample.among # files'[s.chunk].among
                            /\ Counted(s.sample, files'[s.chunk].among)
    BY <2>1 DEF IdsInv
  <2>7. QED
    BY <2>1, <2>4, <2>5, <2>6 DEF IdsInv, Named, TableOf, Counted
<1>9. CASE SaveDumpedChunkToDirectory
  <2>1. PICK imu \in SUBSET dumped["imu"], table \in SUBSET mapping.table,
             cloud \in PointClouds(dumped["point"]) :
          /\ saved' = saved \cup SavedAs(imu \cup cloud.held, Len(cuts))
          /\ files' = Append(files, [table |-> table, among |-> mapping.among,
                                     points |-> cloud.points, complete |-> cloud.complete])
    BY <1>9, SavedStep DEF SavedAs
  <2> DEFINE moved == imu \cup cloud.held
  <2>2. /\ UNCHANGED <<m_serialNumbers, announced, callback, buffer>>
        /\ call \in {"dumped", "lastSave"} /\ call' \in {"logging", "idle"}
    BY <1>9 DEF SaveDumpedChunkToDirectory, known, buffers
  <2>3. \A s : Fresh(s, m_serialNumbers', announced') = Fresh(s, m_serialNumbers, announced)
    BY <1>3, <2>2
  <2>4. Buffered' = Buffered
    BY <2>2 DEF Buffered
  <2>5. Len(cuts) = Len(files) + 1 /\ moved \subseteq Aside
    <3>1. cloud.held \subseteq dumped["point"]
      BY CloudType DEF SetsInv, Kinds
    <3>2. QED
      BY <1>9, <3>1, Saves DEF Aside
  <2>6. /\ Len(files) \in Nat /\ Len(files') = Len(files) + 1
        /\ \A j \in 1..Len(files) : files'[j] = files[j]
        /\ files'[Len(files) + 1].among = mapping.among
        /\ files'[Len(files) + 1].table \subseteq mapping.table
    <3> DEFINE file == [table |-> table, among |-> mapping.among,
                        points |-> cloud.points, complete |-> cloud.complete]
    <3>2. files \in Seq(ChunkFile)
      BY DEF TypeInv
    <3>3. Len(files) \in Nat
      BY ONLY <3>2, LenProperties
    <3>4. files \in Seq(ChunkFile \cup {file}) /\ file \in ChunkFile \cup {file}
      BY <3>2
    <3>5. /\ Len(files') = Len(files) + 1
          /\ \A j \in 1..Len(files) : files'[j] = files[j]
          /\ files'[Len(files) + 1] = file
      BY ONLY <2>1, <3>4, AppendProperties
    <3>6. QED
      BY <3>3, <3>5
  <2> HIDE DEF moved
  <2>7. /\ mapping.table = TableOf(mapping.among)
        /\ \A s \in Aside : Named(s) \/ s.among # mapping.among
        /\ \A s \in Aside : Counted(s, mapping.among)
    BY <2>2 DEF IdsInv
  <2>8. ASSUME NEW k \in 1..Len(files') PROVE files'[k].table \subseteq TableOf(files'[k].among)
    <3>1. CASE k \in 1..Len(files)
      BY <2>6, <3>1 DEF IdsInv
    <3>2. CASE k = Len(files) + 1
      BY <2>6, <2>7, <3>2
    <3>3. QED
      BY <2>6, <3>1, <3>2
  <2>9. ASSUME NEW s \in saved'
        PROVE  /\ Named(s.sample) \/ s.sample.among # files'[s.chunk].among
               /\ Counted(s.sample, files'[s.chunk].among)
    <3>1. CASE s \in saved
      <4>1. s.chunk \in 1..Len(files)
        BY <2>6, <3>1 DEF TypeInv, SavedSample
      <4>2. QED
        BY <2>6, <3>1, <4>1 DEF IdsInv
    <3>2. CASE s \in SavedAs(moved, Len(cuts))
      <4>1. s.sample \in Aside /\ s.chunk = Len(files) + 1
        BY <2>5, <3>2, SavedOnce
      <4>2. QED
        BY <2>6, <2>7, <4>1
    <3>3. QED
      BY <2>1, <3>1, <3>2 DEF moved
  <2>10. QED
    BY <2>2, <2>3, <2>4, <2>8, <2>9 DEF IdsInv, Named, TableOf, Counted
<1>10. CASE UNCHANGED vars
  BY <1>10 DEF vars, known, buffers, chunk, written, IdsInv, Fresh, Named, Counted,
              Buffered, Aside
<1>11. QED
  BY <1>1, <1>2, <1>4, <1>5, <1>6, <1>7, <1>8, <1>9, <1>10 DEF Next

LEMMA IdsNamed == TypeInv /\ IdsInv => IdsNameOneLidar
<1> SUFFICES ASSUME TypeInv, IdsInv, NEW s \in saved, NEW entry \in files[s.chunk].table
             PROVE  LET joined == files[s.chunk].among \ s.sample.among
                    IN /\ joined = {} => (entry[1] = s.sample.id <=> entry[2] = s.sample.lidar)
                       /\ entry[2] = s.sample.lidar /\ s.sample.lidar \in s.sample.among
                            => entry[1] - s.sample.id \in 0..Cardinality(joined)
  BY DEF IdsNameOneLidar
<1> DEFINE S == s.sample.among
           T == files[s.chunk].among
<1>1. s.chunk \in 1..Len(files) /\ s.sample \in Sample
  <2>1. files \in Seq(ChunkFile)
    BY DEF TypeInv
  <2>2. Len(files) \in Nat
    BY ONLY <2>1, LenProperties
  <2>3. QED
    BY <2>2 DEF TypeInv, SavedSample
<1>2. PICK lidar \in T : entry = <<IdAmong(lidar, T), lidar>>
  BY <1>1 DEF IdsInv, TableOf
<1>3. S \subseteq T /\ T \subseteq Lidars
  <2>1. S \subseteq T
    BY DEF IdsInv, Counted
  <2>2. files \in Seq(ChunkFile)
    BY DEF TypeInv
  <2>3. files[s.chunk] \in ChunkFile
    BY ONLY <1>1, <2>2, LenProperties
  <2>4. QED
    BY <2>1, <2>3 DEF ChunkFile
<1>4. ASSUME T \ S = {} PROVE entry[1] = s.sample.id <=> entry[2] = s.sample.lidar
  <2>1. S = T
    BY <1>3, <1>4
  <2>2. s.sample.id = IF s.sample.lidar \in T THEN IdAmong(s.sample.lidar, T) ELSE NoId
    BY <2>1 DEF IdsInv, Named
  <2>3. IdAmong(lidar, T) \in Nat /\ IdAmong(lidar, T) < NoId
    BY <1>2, <1>3, IdType, IdsDiffer
  <2>4. CASE s.sample.lidar \in T
    BY <1>2, <1>3, <2>2, <2>4, IdsDiffer
  <2>5. CASE s.sample.lidar \notin T
    <3>1. entry[1] # s.sample.id
      BY <1>2, <2>2, <2>3, <2>5 DEF NoId
    <3>2. entry[2] # s.sample.lidar
      BY <1>2, <2>5
    <3>3. QED
      BY <3>1, <3>2
  <2>6. QED
    BY <2>4, <2>5
<1>5. ASSUME entry[2] = s.sample.lidar, s.sample.lidar \in S
      PROVE  entry[1] - s.sample.id \in 0..Cardinality(T \ S)
  <2>1. PICK seen \in SUBSET T : S \subseteq seen /\ s.sample.id = IdAmong(s.sample.lidar, seen)
    BY <1>5 DEF IdsInv, Counted
  <2>2. entry[1] = IdAmong(s.sample.lidar, T) /\ s.sample.lidar \in Lidars
    BY <1>2, <1>3, <1>5
  <2>3. QED
    BY <1>3, <2>1, <2>2, IdsShift
<1>6. QED
  BY <1>4, <1>5

-----------------------------------------------------------------------------
(* The theorems.                                                           *)

IInv == TypeInv /\ SetsInv /\ CutInv /\ OnceInv /\ HeadersInv /\ IdsInv

LEMMA RestInit == Init => CutInv /\ OnceInv /\ HeadersInv /\ IdsInv
<1> SUFFICES ASSUME Init PROVE CutInv /\ OnceInv /\ HeadersInv /\ IdsInv
  OBVIOUS
<1>1. /\ Buffered = {} /\ Aside = {} /\ Written = {} /\ Samples = {} /\ saved = {}
      /\ discarded = {} /\ received = 0 /\ Len(cuts) = 0 /\ Len(files) = 0 /\ call = "idle"
      /\ \A kind \in Kinds : callback[kind] = Idle
  BY DEF Init, None, Kinds, Buffered, Aside, Written, Samples
<1>2. CutInv
  BY <1>1 DEF CutInv, Cut, ChunksAreCutTogether
<1>3. OnceInv
  BY <1>1, FS_EmptySet DEF OnceInv, Apart, Numbers
<1>4. HeadersInv
  BY <1>1 DEF HeadersInv
<1>5. IdsInv
  BY <1>1 DEF IdsInv
<1>6. QED
  BY <1>2, <1>3, <1>4, <1>5

LEMMA Invariance == Spec => []IInv
<1>1. Init => IInv
  BY TypeInit, RestInit DEF IInv
<1>2. IInv /\ [Next]_vars => IInv'
  <2> SUFFICES ASSUME IInv, [Next]_vars PROVE IInv'
    OBVIOUS
  <2>1. TypeInv /\ SetsInv /\ CutInv /\ OnceInv /\ HeadersInv /\ IdsInv
    BY DEF IInv
  <2>2. TypeInv' /\ SetsInv'
    BY <2>1, TypeStep, SetsStep DEF OnceInv
  <2>3. CutInv'
    BY <2>1, CutStep DEF OnceInv
  <2>4. OnceInv' /\ HeadersInv' /\ IdsInv'
    BY <2>1, OnceStep, HeadersStep, IdsStep
  <2>5. QED
    BY <2>2, <2>3, <2>4 DEF IInv
<1>3. QED
  BY <1>1, <1>2, PTL DEF Spec

\* Whatever the SDK's threads bring and whenever, the variables keep their types.
THEOREM TypeCorrect == Spec => []TypeOK
<1>1. IInv => TypeOK
  <2> SUFFICES ASSUME IInv PROVE TypeOK
    OBVIOUS
  <2>1. TypeInv
    BY DEF IInv
  <2>2. files \in Seq(ChunkFile) /\ cuts \in Seq(Nat)
    BY <2>1 DEF TypeInv
  <2>3. Len(files) \in Nat /\ Len(cuts) \in Nat /\ DOMAIN files = 1..Len(files)
    BY ONLY <2>2, LenProperties
  <2>4. \A k \in 1..Len(files) : files[k] \in ChunkFile
    BY ONLY <2>2, LenProperties
  <2>5. \A k \in DOMAIN files :
          /\ files[k].table \subseteq Nat \X Lidars
          /\ files[k].points \in Nat \cup {NoFile} /\ files[k].complete \in BOOLEAN
    BY <2>3, <2>4 DEF ChunkFile
  <2>6. \A s \in saved : s.sample \in Sample /\ s.chunk \in 1..Len(cuts)
    BY <2>1, <2>3 DEF TypeInv, SavedSample
  <2>7. \A kind \in Kinds :
          /\ callback[kind].lidar \in Lidars \cup {NoLidar} /\ callback[kind].id \in Nat
          /\ buffer[kind] \subseteq Sample
          /\ dumped[kind] \subseteq Sample
    BY <2>1 DEF TypeInv, Packet
  <2>8. mapping.table \subseteq Nat \X Lidars /\ mapping.among \subseteq Lidars
    BY <2>1 DEF TypeInv
  <2>9. QED
    BY <2>1, <2>5, <2>6, <2>7, <2>8 DEF TypeInv, TypeOK
<1>2. QED
  BY <1>1, Invariance, PTL

\* The points and the IMU samples of a chunk were received in the same stretch of time:
\* both buffers are swapped at once.
THEOREM ChunksCutTogether == Spec => []ChunksAreCutTogether
<1>1. IInv => ChunksAreCutTogether
  BY DEF IInv, CutInv
<1>2. QED
  BY <1>1, Invariance, PTL

\* Every sample received before the latest cut is in one chunk, or in none for one of the
\* reasons there are: too late for its scan, thinned out, or a file that failed.
THEOREM SamplesKept == Spec => []NoSampleIsLost
<1>1. IInv => NoSampleIsLost
  <2> SUFFICES ASSUME IInv PROVE NoSampleIsLost
    OBVIOUS
  <2>1. TypeInv /\ CutInv /\ OnceInv
    BY DEF IInv
  <2>2. Cardinality(Written) = Cardinality(saved)
    <3> DEFINE sampleOf == [s \in saved |-> s.sample]
    <3>1. sampleOf \in [saved -> Written]
      BY DEF Written
    <3>2. \A s, t \in saved : sampleOf[s] = sampleOf[t] => s = t
      BY <2>1 DEF OnceInv
    <3>3. \A w \in Written : \E s \in saved : sampleOf[s] = w
      BY DEF Written
    <3> HIDE DEF sampleOf
    <3>4. sampleOf \in Bijection(saved, Written)
      BY <3>1, <3>2, <3>3, Fun_IsBij
    <3>5. ExistsBijection(saved, Written)
      BY <3>4 DEF ExistsBijection
    <3>6. QED
      BY <2>1, <3>5, FS_Bijection DEF OnceInv
  <2>3. Aside \cap Written = {} /\ Numbers(Aside \cup Written) \cap discarded = {}
    BY <2>1 DEF OnceInv, Apart, Numbers, Samples
  <2>4. ASSUME NEW n \in 1..Cut(Len(cuts))
        PROVE  n \in Numbers(Aside \cup Written) \cup discarded
    <3>1. cuts \in Seq(Nat) /\ received \in Nat
      BY <2>1 DEF TypeInv
    <3>2. Len(cuts) \in Nat /\ \A k \in 1..Len(cuts) : cuts[k] \in Nat
      BY ONLY <3>1, LenProperties
    <3>3. Cut(Len(cuts)) \in Nat /\ Cut(Len(cuts)) <= received
      BY <2>1, <3>2 DEF CutInv, Cut
    <3>4. n \in 1..received /\ n <= Cut(Len(cuts))
      BY <3>1, <3>3
    <3>5. CASE n \notin discarded
      <4>1. PICK s \in Samples : s.n = n
        BY <2>1, <3>4, <3>5 DEF OnceInv, Numbers
      <4>2. s \notin Buffered
        <5>1. \A b \in Buffered : Cut(Len(cuts)) < b.n
          BY <2>1 DEF CutInv
        <5>2. QED
          BY <3>3, <3>4, <4>1, <5>1
      <4>3. QED
        BY <4>1, <4>2 DEF Samples, Numbers
    <3>6. QED
      BY <3>5
  <2>5. 1..Cut(Len(cuts)) \subseteq Numbers(Aside \cup Written) \cup discarded
    BY <2>4
  <2>6. QED
    BY <2>2, <2>3, <2>5 DEF NoSampleIsLost, Aside, Written
<1>2. QED
  BY <1>1, Invariance, PTL

\* For any limits and wherever saveLaz fails, every point cloud file holds at most as many
\* points as are allowed; its header misses at most one of them, and names more than there
\* are only in a file that saveLaz left unfinished.
THEOREM HeadersCorrect == Spec => []HeadersCountPoints
<1>1. IInv => HeadersCountPoints
  <2> SUFFICES ASSUME IInv PROVE HeadersCountPoints
    OBVIOUS
  <2>1. files \in Seq(ChunkFile) /\ HeadersInv
    BY DEF IInv, TypeInv
  <2>2. DOMAIN files = 1..Len(files)
    BY ONLY <2>1, LenProperties
  <2>3. QED
    BY <2>1, <2>2 DEF HeadersInv, HeaderCounts, PointsOf, HeadersCountPoints
<1>2. QED
  BY <1>1, Invariance, PTL

\* The id in a sample names its lidar, and no other, in the table saved with its chunk,
\* whenever no lidar was entered between the arrival of its packet and the making of the
\* table; if others were, the id of a lidar known before is too small by at most their number.
THEOREM IdsCorrect == Spec => []IdsNameOneLidar
<1>1. IInv => IdsNameOneLidar
  BY IdsNamed DEF IInv
<1>2. QED
  BY <1>1, Invariance, PTL
=============================================================================
