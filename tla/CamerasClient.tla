---------------------------- MODULE CamerasClient ----------------------------
(***************************************************************************)
(* The cameras client (src/src/clients/concrete/CamerasClient.cpp): a      *)
(* grabber thread keeps the latest image of each camera, the thread of      *)
(* receiveImages() pushes copies of them into a BlockingQueue while a scan *)
(* is logging, the thread of writeImages() writes each to a temporary file *)
(* on the drive, and the state machine's thread starts and stops logging,  *)
(* puts the written images aside and moves their files into the chunk's     *)
(* directory.                                                              *)
(*                                                                         *)
(* An image is represented by the order in which it was pushed and by the  *)
(* scan that was running when it was received.                             *)
(***************************************************************************)
EXTENDS Integers, Sequences, FiniteSets

CONSTANTS
    Cameras,                 \* number of cameras
    MAX_IMAGES_BUFFER_SIZE,
    SAFE_IMAGES_BUFFER_SIZE,
    ImwriteOutcomes,         \* outcomes of writing a temporary file
    OldFiles,                \* temporary files left on the drive by an earlier run
    DirOutcomes,             \* outcomes of making a chunk's directory
    MaxImages,               \* BOUND: images pushed
    MaxScans,                \* BOUND: scans
    MaxChunks,               \* BOUND: chunks in all
    FailingFiles             \* BOUND: the temporary files that imwrite may fail to write

ASSUME CamerasAssumption == Cameras \in Nat
ASSUME BufferAssumption ==
    MAX_IMAGES_BUFFER_SIZE \in Nat /\ SAFE_IMAGES_BUFFER_SIZE \in Nat
ASSUME OutcomesAssumption ==
    /\ ImwriteOutcomes \subseteq {"written", "failed", "thrown"}
    /\ DirOutcomes \subseteq BOOLEAN
ASSUME OldFilesAssumption == OldFiles \subseteq Nat
ASSUME BoundsAssumption ==
    MaxImages \in Nat /\ MaxScans \in Nat /\ MaxChunks \in Nat /\ FailingFiles \subseteq Nat

VARIABLES
    isRunning, isLogging,
    imagesBuffer,         \* number of images in it: none before the first grab
    rpc,                  \* where receiveImages is
    currentImages,        \* received, not pushed yet: the scans they belong to
    writeBuffer, queueRunning,   \* the BlockingQueue
    wpc,                  \* where writeImages is
    tmp,                  \* the image it has popped
    tmpImageCounter,
    tmpFiles,             \* numbers of the temporary files on the drive
    savedImagesBuffer, dumpBuffer,
    call,                 \* what the state machine does with this client
    pushed, scan, chunk,  \* history: images pushed, scans started, chunks cut
    photos,               \* history: the images moved to chunks, in order
    written, before,      \* history: the last image written, and that at each startLog
    stoppedAt,            \* history: the images pushed at each stopLog
    failed,               \* history: the files that imwrite did not write
    crashed               \* an exception has ended the process

control == <<isRunning, isLogging>>
receiver == <<rpc, currentImages, pushed>>
queueVars == <<writeBuffer, queueRunning, tmp>>
writer == <<wpc, tmpImageCounter, written>>
files == <<tmpFiles, failed, photos, crashed>>
watcher == <<call, scan, chunk, before, stoppedAt>>
vars == <<control, imagesBuffer, receiver, queueVars, writer, files, savedImagesBuffer,
          dumpBuffer, watcher>>

Image == [n : Nat \ {0}, scan : Nat]
Empty == [n |-> 0, scan |-> 0]     \* StampedImage(): its camera index is -1
ImageInfo == [n : Nat \ {0}, scan : Nat, path : Nat]
Photo == [n : Nat \ {0}, scan : Nat, chunkOf : Nat]    \* chunkOf: the scan it is saved with

Queue == INSTANCE BlockingQueue WITH
    Values <- Image, Nothing <- Empty,
    queue <- writeBuffer, running <- queueRunning, returned <- tmp

TypeOK ==
    /\ isRunning \in BOOLEAN /\ isLogging \in BOOLEAN
    /\ imagesBuffer \in {0, Cameras}
    /\ rpc \in {"test", "receive", "push", "stop", "done"}
    /\ currentImages \in Seq(Nat)
    /\ Queue!TypeOK
    /\ wpc \in {"test", "size", "keep", "pop", "write", "append", "done"}
    /\ tmpImageCounter \in Nat
    /\ tmpFiles \subseteq Nat /\ failed \subseteq Nat
    /\ savedImagesBuffer \in Seq(ImageInfo) /\ dumpBuffer \in Seq(ImageInfo)
    /\ call \in {"idle", "logging", "save", "stop", "clear", "lastSave"}
    /\ pushed \in Nat /\ scan \in Nat /\ chunk \in Nat
    /\ photos \in Seq(Photo)
    /\ written \in Nat /\ before \in Seq(Nat) /\ stoppedAt \in Seq(Nat)
    /\ crashed \in BOOLEAN

Init ==
    /\ isRunning = TRUE /\ isLogging = FALSE
    /\ imagesBuffer = 0
    /\ rpc = "test" /\ currentImages = << >>
    /\ Queue!Init
    /\ wpc = "test"
    /\ tmpImageCounter = 0
    /\ tmpFiles = OldFiles /\ failed = {}
    /\ savedImagesBuffer = << >> /\ dumpBuffer = << >>
    /\ call = "idle" /\ pushed = 0 /\ scan = 0 /\ chunk = 0
    /\ photos = << >> /\ written = 0 /\ before = << >> /\ stoppedAt = << >>
    /\ crashed = FALSE

-----------------------------------------------------------------------------
(* The grabber thread, readImagesFromCaps().                               *)

GrabImages ==
    /\ ~crashed /\ isRunning /\ imagesBuffer # Cameras
    /\ imagesBuffer' = Cameras
    /\ UNCHANGED <<control, receiver, queueVars, writer, files, savedImagesBuffer,
                   dumpBuffer, watcher>>

-----------------------------------------------------------------------------
(* The producer, receiveImages().                                          *)

ReceiverAt(pc) == ~crashed /\ rpc = pc

ReceiverTest ==
    /\ ReceiverAt("test")
    /\ rpc' = IF isRunning THEN "receive" ELSE "stop"
    /\ UNCHANGED <<control, imagesBuffer, currentImages, pushed, queueVars, writer, files,
                   savedImagesBuffer, dumpBuffer, watcher>>

\* While not logging, and at the model's bound, the thread only sleeps. The flag is tested
\* once for a round of images.
ReceiveImages ==
    /\ ReceiverAt("receive")
    /\ IF isLogging /\ pushed + Cameras <= MaxImages
         THEN /\ rpc' = IF imagesBuffer = 0 THEN "test" ELSE "push"
              /\ currentImages' = [k \in 1..imagesBuffer |-> scan]
         ELSE rpc' = "test" /\ UNCHANGED currentImages
    /\ UNCHANGED <<control, imagesBuffer, pushed, queueVars, writer, files,
                   savedImagesBuffer, dumpBuffer, watcher>>

PushImage ==
    /\ ReceiverAt("push")
    /\ Queue!Push([n |-> pushed + 1, scan |-> Head(currentImages)])
    /\ pushed' = pushed + 1
    /\ currentImages' = Tail(currentImages)
    /\ rpc' = IF currentImages' = << >> THEN "test" ELSE "push"
    /\ UNCHANGED <<control, imagesBuffer, writer, files, savedImagesBuffer,
                   dumpBuffer, watcher>>

\* Mutant of StopQueue: the queue is not stopped.
QueueLeftRunning == UNCHANGED queueVars
StopQueue == Queue!Stop

ReceiverStops ==
    /\ ReceiverAt("stop")
    /\ rpc' = "done"
    /\ StopQueue
    /\ UNCHANGED <<control, imagesBuffer, currentImages, pushed, writer, files,
                   savedImagesBuffer, dumpBuffer, watcher>>

Receiver == ReceiverTest \/ ReceiveImages \/ PushImage \/ ReceiverStops

-----------------------------------------------------------------------------
(* The consumer, writeImages().                                            *)

WriterAt(pc) == ~crashed /\ wpc = pc

WriterTest ==
    /\ WriterAt("test")
    /\ wpc' = IF isRunning THEN "size" ELSE "done"
    /\ UNCHANGED <<control, imagesBuffer, receiver, queueVars, tmpImageCounter, written, files,
                   savedImagesBuffer, dumpBuffer, watcher>>

\* size() and keepN() take the queue's mutex one after the other.
WriterSize ==
    /\ WriterAt("size")
    /\ wpc' = IF Len(writeBuffer) > MAX_IMAGES_BUFFER_SIZE THEN "keep" ELSE "pop"
    /\ UNCHANGED <<control, imagesBuffer, receiver, queueVars, tmpImageCounter, written, files,
                   savedImagesBuffer, dumpBuffer, watcher>>

DropImages ==
    /\ WriterAt("keep")
    /\ wpc' = "pop"
    /\ Queue!KeepN(SAFE_IMAGES_BUFFER_SIZE)
    /\ UNCHANGED <<control, imagesBuffer, receiver, tmpImageCounter, written, files,
                   savedImagesBuffer, dumpBuffer, watcher>>

PopImage ==
    /\ WriterAt("pop")
    /\ Queue!Pop
    /\ wpc' = IF tmp' = Empty THEN "test" ELSE "write"
    /\ UNCHANGED <<control, imagesBuffer, receiver, tmpImageCounter, written, files,
                   savedImagesBuffer, dumpBuffer, watcher>>

\* Mutant of NextTmpFile: the counter stands still.
SameTmpFile == tmpImageCounter' = tmpImageCounter
NextTmpFile == tmpImageCounter' = tmpImageCounter + 1

\* The result of imwrite is ignored, so a file that was not written (of which the drive
\* then has nothing, or what an earlier run left there) is taken for one that was. The empty
\* image of an unplugged camera makes imwrite throw, and nothing catches it.
PreWriteImageToDisk ==
    /\ WriterAt("write")
    /\ wpc' = "append"
    /\ NextTmpFile
    /\ \E outcome \in ImwriteOutcomes :
         /\ outcome # "written" => tmpImageCounter \in FailingFiles
         /\ tmpFiles' = tmpFiles \cup (IF outcome = "written" THEN {tmpImageCounter} ELSE {})
         /\ failed' = failed \cup (IF outcome = "written" THEN {} ELSE {tmpImageCounter})
         /\ crashed' = (outcome = "thrown")
    /\ UNCHANGED <<control, imagesBuffer, receiver, queueVars, written, photos,
                   savedImagesBuffer, dumpBuffer, watcher>>

\* Mutant of LastPath: the counter is taken to be incremented before its use.
PreIncremented == tmpImageCounter
\* The path of the image just written.
LastPath == tmpImageCounter - 1

AppendSaved ==
    /\ WriterAt("append")
    /\ wpc' = "test"
    /\ savedImagesBuffer' =
         Append(savedImagesBuffer, [n |-> tmp.n, scan |-> tmp.scan, path |-> LastPath])
    /\ written' = tmp.n
    /\ UNCHANGED <<control, imagesBuffer, receiver, queueVars, tmpImageCounter, files,
                   dumpBuffer, watcher>>

Writer ==
    \/ WriterTest \/ WriterSize \/ DropImages \/ PopImage
    \/ PreWriteImageToDisk \/ AppendSaved

-----------------------------------------------------------------------------
(* The calls of the state machine, in the order StateManagement makes them. *)

CallAt(c) == ~crashed /\ call = c

StartLog ==
    /\ CallAt("idle") /\ isRunning /\ scan < MaxScans
    /\ call' = "logging"
    /\ scan' = scan + 1
    /\ savedImagesBuffer' = << >>
    /\ isLogging' = TRUE
    /\ before' = Append(before, written)
    /\ UNCHANGED <<isRunning, imagesBuffer, receiver, queueVars, writer, files, dumpBuffer,
                   chunk, stoppedAt>>

\* Mutant of SavedAfterDump: the images put aside stay in the buffer.
SavedKept == savedImagesBuffer' = savedImagesBuffer
SavedAfterDump == savedImagesBuffer' = << >>

\* The chunk that is cut is the scan's last one, or not.
DumpChunkInternally ==
    /\ CallAt("logging") /\ chunk < MaxChunks
    /\ call' \in {"save", "stop"}
    /\ chunk' = chunk + 1
    /\ dumpBuffer' = savedImagesBuffer
    /\ SavedAfterDump
    /\ UNCHANGED <<control, imagesBuffer, receiver, queueVars, writer, files, scan, before,
                   stoppedAt>>

\* Mutant of NoMoreImages: the flag is not reset, and images are received between scans.
LogsForEver == isLogging' = isLogging
NoMoreImages == isLogging' = FALSE

\* stopLog() stores the flag before it takes the mutex.
StopLog ==
    /\ CallAt("stop")
    /\ call' = "clear"
    /\ NoMoreImages
    /\ stoppedAt' = Append(stoppedAt, pushed)
    /\ UNCHANGED <<isRunning, imagesBuffer, receiver, queueVars, writer, files,
                   savedImagesBuffer, dumpBuffer, scan, chunk, before>>

StopLogClears ==
    /\ CallAt("clear")
    /\ call' = "lastSave"
    /\ savedImagesBuffer' = << >>
    /\ UNCHANGED <<control, imagesBuffer, receiver, queueVars, writer, files, dumpBuffer,
                   scan, chunk, before, stoppedAt>>

\* The files of the first n images put aside.
FirstPaths(n) == {dumpBuffer[k].path : k \in 1..n}

\* The temporary file of the k-th image is there, and was not moved for an earlier one.
FileIsThere(k) == dumpBuffer[k].path \in tmpFiles \ FirstPaths(k - 1)

\* rename() throws at the first image whose temporary file is not there, which ends the
\* process, and the buffers with it; without the directory the images stay where they are.
SaveDumpedChunkToDirectory ==
    /\ CallAt("save") \/ CallAt("lastSave")
    /\ call' = IF call = "save" THEN "logging" ELSE "idle"
    /\ \/ /\ TRUE \in DirOutcomes
          /\ \E n \in 0..Len(dumpBuffer) :
               /\ \A k \in 1..n : FileIsThere(k)
               /\ n < Len(dumpBuffer) => ~FileIsThere(n + 1)
               /\ photos' = photos \o [k \in 1..n |->
                     [n |-> dumpBuffer[k].n, scan |-> dumpBuffer[k].scan, chunkOf |-> scan]]
               /\ tmpFiles' = tmpFiles \ FirstPaths(n)
               /\ crashed' = (n < Len(dumpBuffer))
          /\ dumpBuffer' = << >>
          /\ UNCHANGED failed
       \/ FALSE \in DirOutcomes /\ UNCHANGED <<files, dumpBuffer>>
    /\ UNCHANGED <<control, imagesBuffer, receiver, queueVars, writer, savedImagesBuffer,
                   scan, chunk, before, stoppedAt>>

Watcher == DumpChunkInternally \/ StopLog \/ StopLogClears \/ SaveDumpedChunkToDirectory

StopApplication ==
    /\ ~crashed /\ isRunning
    /\ isRunning' = FALSE
    /\ UNCHANGED <<isLogging, imagesBuffer, receiver, queueVars, writer, files,
                   savedImagesBuffer, dumpBuffer, watcher>>

\* The process has been killed, or nothing is left to do.
Ended ==
    /\ crashed \/ (rpc = "done" /\ wpc = "done")
    /\ UNCHANGED vars

Next ==
    \/ GrabImages \/ Receiver \/ Writer
    \/ StartLog \/ Watcher
    \/ StopApplication
    \/ Ended

Spec == Init /\ [][Next]_vars

\* Both threads are scheduled; imwrite returns.
FairSpec == Spec /\ WF_vars(Receiver) /\ WF_vars(Writer)

-----------------------------------------------------------------------------
Numbers(s) == [k \in 1..Len(s) |-> s[k].n]
Held == IF wpc \in {"write", "append"} THEN <<tmp.n>> ELSE << >>

\* The way of the images, from the drive back to the queue.
Pipeline ==
    Numbers(photos) \o Numbers(dumpBuffer) \o Numbers(savedImagesBuffer) \o Held
        \o Numbers(writeBuffer)

\* Whatever is dropped on the way, images reach the chunks in the order they were
\* received, and none is in two chunks.
ImagesInOrder ==
    \A j, k \in 1..Len(Pipeline) : j < k => Pipeline[j] < Pipeline[k]

\* Images are moved under the names they were written to, each once: only an image that
\* imwrite did not write can make rename() throw and end the process.
RenameFindsFile ==
    /\ crashed => failed # {}
    /\ \A j, k \in 1..Len(savedImagesBuffer) :
         j # k => savedImagesBuffer[j].path # savedImagesBuffer[k].path
    /\ \A k \in 1..Len(savedImagesBuffer) : savedImagesBuffer[k].path \in tmpFiles \cup failed

\* A chunk holds images received during its own scan. The only others were not written yet
\* when the scan started, as neither startLog() nor stopLog() empties the queue, and at most
\* one round of them was pushed after stopLog(): receiveImages tests isLogging between
\* rounds only.
ChunksHoldTheirScan ==
    \A k \in 1..Len(photos) :
        photos[k].scan # photos[k].chunkOf =>
            /\ photos[k].n > before[photos[k].chunkOf]
            /\ photos[k].scan \in 1..Len(stoppedAt)
            /\ photos[k].n <= stoppedAt[photos[k].scan] + Cameras

\* After the application has been stopped both threads end and can be joined.
ThreadsEnd == ~isRunning ~> (crashed \/ (rpc = "done" /\ wpc = "done"))
=============================================================================
