----------------------- MODULE FileSystemClient_proofs -----------------------
(***************************************************************************)
(* Proofs about the numbering of the scan directories, for any number of    *)
(* runs, crashes and power failures.                                        *)
(***************************************************************************)
EXTENDS FileSystemClient, TLAPS

\* The run has taken its number from the manifest.
Numbered ==
    \/ pc \in {"write", "stopDir", "scan", "sync"}
    \/ pc = "contDir" /\ \E dir \in made : dir.kind = "stop"

\* The chunks of the current run, which saves only into its own directories.
OwnChunksInv ==
    \A c \in chunks \cup acked :
        /\ c.run <= run
        /\ c.run = run => pc \in {"scan", "sync", "error", "off"} /\ c.id = id_manifest

\* A run makes its directories after it has taken its number, and under that number.
MadeInv ==
    /\ \A dir \in made : dir.id = id_manifest
    /\ pc \in {"construct", "next"} => made = {}

\* What holds on every drive.
RunInv == TypeOK /\ OwnChunksInv /\ MadeInv /\ DirectoriesArePaired

\* The manifest, on the drive and as the kernel sees it, is ahead of every number under
\* which chunks have been brought to the drive, except while it is being rewritten.
ManifestInv ==
    /\ \A a \in acked : a.id < disk.manifest
    /\ pc # "write" => \A a \in acked : a.id < manifest
    /\ Numbered => \A a \in acked : a.run # run => a.id < id_manifest
    /\ Numbered /\ pc # "write" => manifest = id_manifest + 1

\* What holds as long as the manifest meets no mishap.
NumberingInv == ManifestInv /\ NoSyncedChunkOverwritten

IInv == RunInv /\ (mishaps = {} => NumberingInv)

LEMMA Initially == Init => IInv
BY DEF Init, IInv, RunInv, TypeOK, OwnChunksInv, MadeInv, DirectoriesArePaired,
       NumberingInv, ManifestInv, Numbered, NoSyncedChunkOverwritten,
       Absent, Chunk, Ids

\* Every action keeps the types; whatever fails on the drive.
LEMMA TypeStep == TypeOK /\ [Next]_vars => TypeOK'
<1> SUFFICES ASSUME TypeOK, [Next]_vars PROVE TypeOK'
  OBVIOUS
<1> USE DEF TypeOK, Dir, Chunk, Ids, NoId, Absent, Kinds, Suffer, Mishaps
<1>1. CASE TurnOn
  BY <1>1 DEF TurnOn
<1>2. CASE Construct
  BY <1>2 DEF Construct, ManifestAfterRead
<1>3. CASE GetNextIdFromManifest
  BY <1>3 DEF GetNextIdFromManifest, IdFromManifest, ManifestReads
<1>4. CASE NotWritable
  BY <1>4 DEF NotWritable
<1>5. CASE WriteManifest
  BY <1>5 DEF WriteManifest, NextId
<1>6. CASE CreateDirectoryForStopScans
  BY <1>6 DEF CreateDirectoryForStopScans, CreateDirectory
<1>7. CASE CreateDirectoryForContinousScanning
  BY <1>7 DEF CreateDirectoryForContinousScanning, CreateDirectory, ContinousId
<1>8. CASE \E dir \in made : SaveChunk(dir)
  BY <1>8 DEF SaveChunk
<1>9. CASE SyncDisk
  BY <1>9 DEF SyncDisk
<1>10. CASE ProgramEnds
  BY <1>10 DEF ProgramEnds
<1>11. CASE PowerFails
  <2>1. manifest' \in Nat \cup {Absent}
    BY <1>11 DEF PowerFails
  <2>2. chunks' \subseteq chunks /\ pc' = "off" /\ UNCHANGED <<run, id_manifest, made, acked>>
    BY <1>11 DEF PowerFails
  <2>3. disk'.manifest = manifest' /\ disk'.chunks = chunks'
    BY <1>11 DEF PowerFails
  <2>4. mishaps' = mishaps \/ mishaps' = mishaps \cup {"torn"}
    BY <1>11, Zenon DEF PowerFails
  <2>5. QED
    BY <2>1, <2>2, <2>3, <2>4
<1>12. CASE UNCHANGED vars
  BY <1>12 DEF vars
<1>13. QED
  BY <1>1, <1>2, <1>3, <1>4, <1>5, <1>6, <1>7, <1>8, <1>9, <1>10, <1>11, <1>12 DEF Next

\* On every drive the actions keep a run's directories and chunks under its number.
LEMMA RunStep == RunInv /\ [Next]_vars => RunInv'
<1> SUFFICES ASSUME RunInv, [Next]_vars PROVE RunInv'
  OBVIOUS
<1>0. TypeOK'
  BY TypeStep DEF RunInv
<1> USE <1>0 DEF RunInv, OwnChunksInv, MadeInv, DirectoriesArePaired, TypeOK, Dir, Chunk,
        Ids, NoId, Absent, Kinds
<1>1. CASE TurnOn
  BY <1>1 DEF TurnOn
<1>2. CASE Construct
  BY <1>2 DEF Construct
<1>3. CASE GetNextIdFromManifest
  BY <1>3 DEF GetNextIdFromManifest
<1>4. CASE NotWritable
  BY <1>4 DEF NotWritable
<1>5. CASE WriteManifest
  BY <1>5 DEF WriteManifest
<1>6. CASE CreateDirectoryForStopScans
  BY <1>6 DEF CreateDirectoryForStopScans, CreateDirectory
<1>7. CASE CreateDirectoryForContinousScanning
  BY <1>7 DEF CreateDirectoryForContinousScanning, CreateDirectory, ContinousId
<1>8. CASE \E dir \in made : SaveChunk(dir)
  BY <1>8 DEF SaveChunk
<1>9. CASE SyncDisk
  BY <1>9 DEF SyncDisk
<1>10. CASE ProgramEnds
  BY <1>10 DEF ProgramEnds
<1>11. CASE PowerFails
  BY <1>11 DEF PowerFails
<1>12. CASE UNCHANGED vars
  BY <1>12 DEF vars
<1>13. QED
  BY <1>1, <1>2, <1>3, <1>4, <1>5, <1>6, <1>7, <1>8, <1>9, <1>10, <1>11, <1>12 DEF Next

\* A mishap is never forgotten.
LEMMA MishapsStay == [Next]_vars /\ mishaps' = {} => mishaps = {}
<1> SUFFICES ASSUME [Next]_vars, mishaps' = {} PROVE mishaps = {}
  OBVIOUS
<1>1. UNCHANGED mishaps \/ \E mishap \in Mishaps, condition \in BOOLEAN : Suffer(mishap, condition)
  BY DEF Next, vars, Mishaps, Suffer, TurnOn, Construct, GetNextIdFromManifest, NotWritable,
         WriteManifest, CreateDirectoryForStopScans, CreateDirectoryForContinousScanning,
         SaveChunk, SyncDisk, ProgramEnds, PowerFails
<1>2. QED
  BY <1>1 DEF Suffer

\* A step without a mishap keeps the manifest ahead of every number in use.
LEMMA NumberingStep ==
    RunInv /\ RunInv' /\ NumberingInv /\ mishaps' = {} /\ [Next]_vars => NumberingInv'
<1> SUFFICES ASSUME RunInv, RunInv', NumberingInv, mishaps' = {}, [Next]_vars
             PROVE NumberingInv'
  OBVIOUS
<1> USE DEF RunInv, OwnChunksInv, MadeInv, NumberingInv, ManifestInv, Numbered,
        NoSyncedChunkOverwritten, TypeOK, Dir, Chunk, Ids, NoId, Absent, Kinds, Suffer
<1>1. CASE TurnOn
  BY <1>1 DEF TurnOn
<1>2. CASE Construct
  <2>1. PICK readable, openable \in BOOLEAN :
          /\ manifest' = ManifestAfterRead(readable, openable)
          /\ Suffer("error", manifest # Absent /\ ~readable)
    BY <1>2 DEF Construct
  <2>2. ~(manifest # Absent /\ ~readable)
    BY <2>1
  <2>3. manifest' \in {manifest, 0} /\ (manifest # Absent => manifest' = manifest)
    BY <2>1, <2>2 DEF ManifestAfterRead, ManifestReads
  <2>4. QED
    BY <1>2, <2>3 DEF Construct
<1>3. CASE GetNextIdFromManifest
  <2>1. /\ pc = "next" /\ pc' = "write"
        /\ id_manifest' = IF manifest = Absent THEN 0 ELSE manifest
        /\ UNCHANGED <<run, made, chunks, disk, acked>>
    BY <1>3 DEF GetNextIdFromManifest, IdFromManifest, ManifestReads
  <2>2. ManifestInv'
    BY <2>1
  <2>3. QED
    BY <2>1, <2>2
<1>4. CASE NotWritable
  BY <1>4 DEF NotWritable
<1>5. CASE WriteManifest
  <2>1. manifest' = id_manifest + 1
    BY <1>5 DEF WriteManifest, NextId
  <2>2. QED
    BY <1>5, <2>1 DEF WriteManifest
<1>6. CASE CreateDirectoryForStopScans
  BY <1>6 DEF CreateDirectoryForStopScans, CreateDirectory
<1>7. CASE CreateDirectoryForContinousScanning
  <2>1. (\E dir \in made' : dir.kind = "stop") => \E dir \in made : dir.kind = "stop"
    BY <1>7 DEF CreateDirectoryForContinousScanning, CreateDirectory
  <2>2. pc' = "scan" => \E dir \in made' : dir.kind = "stop"
    BY <1>7 DEF CreateDirectoryForContinousScanning
  <2>3. /\ pc = "contDir" /\ pc' \in {"scan", "error"} /\ id_manifest' = id_manifest
        /\ UNCHANGED <<run, manifest, chunks, disk, acked>>
    BY <1>7 DEF CreateDirectoryForContinousScanning, ContinousId
  <2>4. QED
    BY <2>1, <2>2, <2>3
<1>8. CASE \E dir \in made : SaveChunk(dir)
  BY <1>8 DEF SaveChunk
<1>9. CASE SyncDisk
  BY <1>9 DEF SyncDisk
<1>10. CASE ProgramEnds
  BY <1>10 DEF ProgramEnds
<1>11. CASE PowerFails
  BY <1>11 DEF PowerFails
<1>12. CASE UNCHANGED vars
  BY <1>12 DEF vars
<1>13. QED
  BY <1>1, <1>2, <1>3, <1>4, <1>5, <1>6, <1>7, <1>8, <1>9, <1>10, <1>11, <1>12 DEF Next

\* Every step keeps the invariant.
LEMMA Step == IInv /\ [Next]_vars => IInv'
<1> SUFFICES ASSUME IInv, [Next]_vars PROVE IInv'
  OBVIOUS
<1>1. RunInv'
  BY RunStep DEF IInv
<1>2. mishaps' = {} => NumberingInv'
  BY <1>1, MishapsStay, NumberingStep DEF IInv
<1>3. QED
  BY <1>1, <1>2 DEF IInv

\* FileSystemClient.cpp:80-191 and stateWatcher's start-up never leave their types, also
\* on a drive that fails.
THEOREM TypeCorrect == Spec => []TypeOK
<1>1. Init => TypeOK
  BY Initially DEF IInv, RunInv
<1>2. QED
  BY <1>1, TypeStep, PTL DEF Spec

\* Whatever fails on the drive, the two directories of a run carry one number
\* (FileSystemClient.cpp:131-191).
THEOREM DirectoriesPaired == Spec => []DirectoriesArePaired
<1>1. Init => RunInv
  BY Initially DEF IInv
<1>2. RunInv => DirectoriesArePaired
  BY DEF RunInv
<1>3. QED
  BY <1>1, <1>2, RunStep, PTL DEF Spec

\* As long as the manifest meets no mishap, chunks brought to the drive are never
\* overwritten by a later run, however often the program or the power ends and whichever
\* directories cannot be made (FileSystemClient.cpp:114-191).
THEOREM ChunksSurvive == Spec => []SyncedChunksSurvive
<1>1. IInv => SyncedChunksSurvive
  BY DEF IInv, NumberingInv, SyncedChunksSurvive
<1>2. QED
  BY <1>1, Initially, Step, PTL DEF Spec
=============================================================================
