-------------------------- MODULE FileSystemClient --------------------------
(***************************************************************************)
(* The directories of a run on the USB drive: FileSystemClient              *)
(* (src/src/clients/concrete/FileSystemClient.cpp) numbers them with a      *)
(* manifest file, stateWatcher makes them at start-up and saves chunks      *)
(* into them. The service starts the program again whenever it ends, and   *)
(* the operator may cut the power at any time: what the kernel had not     *)
(* written yet may then be lost. Chunk files are named by chunk number,     *)
(* which starts from 0 in every run, so two runs in the same directory      *)
(* overwrite each other's files.                                            *)
(***************************************************************************)
EXTENDS Integers

CONSTANT MaxRuns   \* BOUND: how often the program is started

ASSUME MaxRunsAssumption == MaxRuns \in Nat

VARIABLES
    pc,           \* where the current run is
    run,          \* how many runs there have been
    id_manifest,  \* the number of this run's directories
    made,         \* the directories this run has, each with its number
    manifest,     \* the number the manifest would be read as, or Absent
    chunks,       \* history: which run saved chunks into which directory
    disk,         \* what a power failure leaves: [manifest, chunks]
    acked,        \* history: what each run had saved when its syncDisk() returned
    mishaps       \* history: what has happened to the manifest, see Mishaps

vars == <<pc, run, id_manifest, made, manifest, chunks, disk, acked, mishaps>>

Absent == -1     \* no manifest on the drive
NoId   == -1     \* GetIdFromManifest's result when the manifest cannot be opened
Kinds  == {"stop", "cont"}
Ids    == Nat \cup {NoId}
Dir    == [kind : Kinds, id : Ids]
Chunk  == [kind : Kinds, id : Ids, run : Nat]

\* "error": the manifest could not be opened, read or written. "torn": the program or
\* the power ended while it was empty.
Mishaps == {"error", "torn"}

TypeOK ==
    /\ pc \in {"off", "construct", "next", "write", "stopDir", "contDir", "scan",
               "sync", "error"}
    /\ run \in Nat
    /\ id_manifest \in Ids
    /\ made \subseteq Dir
    /\ manifest \in Nat \cup {Absent}
    /\ chunks \subseteq Chunk
    /\ disk.manifest \in Nat \cup {Absent} /\ disk.chunks \subseteq Chunk
    /\ acked \subseteq Chunk
    /\ mishaps \subseteq Mishaps

\* A new drive.
Init ==
    /\ pc = "off" /\ run = 0 /\ id_manifest = 0 /\ made = {}
    /\ manifest = Absent
    /\ chunks = {}
    /\ disk = [manifest |-> Absent, chunks |-> {}]
    /\ acked = {} /\ mishaps = {}

-----------------------------------------------------------------------------
(* GetIdFromManifest: the number in the manifest, 0 if it is empty; a       *)
(* manifest that cannot be read is created, which empties an existing one. *)

ManifestReads(readable) == manifest # Absent /\ readable

IdFromManifest(readable, openable) ==
    IF ManifestReads(readable) THEN manifest ELSE IF openable THEN 0 ELSE NoId

ManifestAfterRead(readable, openable) ==
    IF ManifestReads(readable) \/ ~openable THEN manifest ELSE 0

Suffer(mishap, condition) ==
    mishaps' = IF condition THEN mishaps \cup {mishap} ELSE mishaps

-----------------------------------------------------------------------------
(* A run, from the start of the program to the loop of stateWatcher.       *)

TurnOn ==
    /\ pc = "off" /\ run < MaxRuns
    /\ pc' = "construct"
    /\ run' = run + 1
    /\ id_manifest' = 0
    /\ made' = {}
    /\ UNCHANGED <<manifest, chunks, disk, acked, mishaps>>

\* The constructor; its m_nextId is only reported, never used.
Construct ==
    /\ pc = "construct"
    /\ pc' = "next"
    /\ \E readable, openable \in BOOLEAN :
         /\ manifest' = ManifestAfterRead(readable, openable)
         /\ Suffer("error", manifest # Absent /\ ~readable)
    /\ UNCHANGED <<run, id_manifest, made, chunks, disk, acked>>

\* Opening the manifest to write the next number empties it.
GetNextIdFromManifest ==
    /\ pc = "next"
    /\ \E readable, openable \in BOOLEAN :
         /\ Suffer("error", ~openable \/ (manifest # Absent /\ ~readable))
         /\ id_manifest' = IdFromManifest(readable, openable)
         /\ IF openable
              THEN pc' = "write" /\ manifest' = 0
              ELSE pc' = "stopDir" /\ UNCHANGED manifest
    /\ UNCHANGED <<run, made, chunks, disk, acked>>

\* CreateDirectoryForStopScans returns before it has read the manifest.
NotWritable ==
    /\ pc = "next"
    /\ pc' = "contDir"
    /\ UNCHANGED <<run, id_manifest, made, manifest, chunks, disk, acked, mishaps>>

\* Mutant of NextId: the number is not advanced.
SameId == id_manifest
NextId == id_manifest + 1

WriteManifest ==
    /\ pc = "write"
    /\ pc' = "stopDir"
    /\ \E written \in BOOLEAN :
         /\ manifest' = IF written THEN NextId ELSE manifest
         /\ Suffer("error", ~written)
    /\ UNCHANGED <<run, id_manifest, made, chunks, disk, acked>>

\* An existing directory is no error: it is used as if it were new.
CreateDirectory(kind, id) ==
    \E ok \in BOOLEAN :
        made' = IF ok THEN made \cup {[kind |-> kind, id |-> id]} ELSE made

CreateDirectoryForStopScans ==
    /\ pc = "stopDir"
    /\ pc' = "contDir"
    /\ CreateDirectory("stop", id_manifest)
    /\ UNCHANGED <<run, id_manifest, manifest, chunks, disk, acked, mishaps>>

\* Mutant of ContinousId: the function asks for a number of its own, as it once did.
OwnId == id_manifest + 1
\* Mutant of ContinousId: one is subtracted here too.
PreviousId == id_manifest - 1
ContinousId == id_manifest

\* stateWatcher goes on although the first directory may have failed.
CreateDirectoryForContinousScanning ==
    /\ pc = "contDir"
    /\ id_manifest' = ContinousId
    /\ CreateDirectory("cont", ContinousId)
    /\ pc' = IF {d.kind : d \in made'} = Kinds THEN "scan" ELSE "error"
    /\ UNCHANGED <<run, manifest, chunks, disk, acked, mishaps>>

-----------------------------------------------------------------------------
(* Chunks, and the end of a run.                                           *)

\* saveDumpedChunkToDirectory of all the clients.
SaveChunk(dir) ==
    /\ pc = "scan"
    /\ pc' = "sync"
    /\ chunks' = chunks \cup {[kind |-> dir.kind, id |-> dir.id, run |-> run]}
    /\ UNCHANGED <<run, id_manifest, made, manifest, disk, acked, mishaps>>

SyncDisk ==
    /\ pc = "sync"
    /\ pc' = "scan"
    /\ disk' = [manifest |-> manifest, chunks |-> chunks]
    /\ acked' = acked \cup {c \in chunks : c.run = run}
    /\ UNCHANGED <<run, id_manifest, made, manifest, chunks, mishaps>>

\* The program ends or is killed; the kernel keeps what was written.
ProgramEnds ==
    /\ pc # "off"
    /\ pc' = "off"
    /\ Suffer("torn", pc = "write")
    /\ UNCHANGED <<run, id_manifest, made, manifest, chunks, disk, acked>>

\* Of what was written since the last sync, any part may be lost. A file whose new
\* contents are lost may have been emptied already.
PowerFails ==
    /\ pc' = "off"
    /\ \E lost \in SUBSET (chunks \ disk.chunks) : chunks' = chunks \ lost
    /\ \/ manifest' = disk.manifest /\ UNCHANGED mishaps
       \/ manifest' = manifest /\ Suffer("torn", pc = "write")
       \/ manifest' = 0 /\ manifest # disk.manifest /\ Suffer("torn", TRUE)
    /\ disk' = [manifest |-> manifest', chunks |-> chunks']
    /\ UNCHANGED <<run, id_manifest, made, acked>>

Next ==
    \/ TurnOn \/ Construct
    \/ GetNextIdFromManifest \/ NotWritable \/ WriteManifest
    \/ CreateDirectoryForStopScans \/ CreateDirectoryForContinousScanning
    \/ \E dir \in made : SaveChunk(dir)
    \/ SyncDisk
    \/ ProgramEnds
    \/ PowerFails

Spec == Init /\ [][Next]_vars

-----------------------------------------------------------------------------
\* No run saves into a directory in which an earlier one had chunks brought to the
\* drive with syncDisk().
NoSyncedChunkOverwritten ==
    \A a \in acked, b \in chunks :
        a.kind = b.kind /\ a.id = b.id => b.run <= a.run

\* A chunk that a run has saved and brought to the drive with syncDisk() is never
\* overwritten by a later run, whatever crashes, power failures and failures to make
\* directories come in between, as long as the manifest itself meets no mishap.
SyncedChunksSurvive == mishaps = {} => NoSyncedChunkOverwritten

\* "New folders are creating for each turn on" (chapter02.tex:205), as long as the drive
\* reads and writes without errors.
NewFoldersForEachTurnOn == "error" \notin mishaps => NoSyncedChunkOverwritten

\* A run's two directories carry the same number, whatever failed on the way.
DirectoriesArePaired ==
    \A a, b \in chunks : a.run = b.run => a.id = b.id

=============================================================================
