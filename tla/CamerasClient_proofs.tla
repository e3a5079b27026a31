------------------------ MODULE CamerasClient_proofs ------------------------
(***************************************************************************)
(* Proofs about the way of the images from the queue to the chunks, for any *)
(* number of cameras and images, any sizes of the buffers, any failures of  *)
(* imwrite and of the directories, and any interleaving of the threads.     *)
(***************************************************************************)
EXTENDS CamerasClient, TLAPS, FiniteSetTheorems, SequenceTheorems

\* An image is between the queue and the buffer of the written ones.
Holding == wpc \in {"write", "append"}

Ascending(s) == \A j, k \in 1..Len(s) : j < k => s[j].n < s[k].n
Before(s, t) == \A j \in 1..Len(s), k \in 1..Len(t) : s[j].n < t[k].n
AtMost(s, m) == \A k \in 1..Len(s) : s[k].n <= m
Above(s, m)  == \A k \in 1..Len(s) : s[k].n > m

\* The types, with what the writer's position says about its image and its counter.
TypeInv ==
    /\ TypeOK
    /\ Holding => tmp \in Image
    /\ wpc = "append" => tmpImageCounter > 0
    /\ Len(before) = scan
    /\ call # "idle" => scan > 0
    /\ rpc = "push" <=> currentImages # << >>

\* The latest image written divides the way: what has left the queue is not later, what
\* is still in it is.
OrderInv ==
    /\ Ascending(photos) /\ Ascending(dumpBuffer)
    /\ Ascending(savedImagesBuffer) /\ Ascending(writeBuffer)
    /\ Before(photos, dumpBuffer) /\ Before(photos, savedImagesBuffer)
    /\ Before(dumpBuffer, savedImagesBuffer)
    /\ AtMost(photos, written) /\ AtMost(dumpBuffer, written)
    /\ AtMost(savedImagesBuffer, written)
    /\ Above(writeBuffer, written) /\ AtMost(writeBuffer, pushed) /\ written <= pushed
    /\ Holding => written < tmp.n /\ tmp.n <= pushed /\ Above(writeBuffer, tmp.n)

\* What the client holds for the running scan was written after it had started.
ScanInv ==
    /\ \A k \in 1..Len(photos) :
         photos[k].chunkOf \in 1..scan /\ photos[k].n > before[photos[k].chunkOf]
    /\ scan > 0 => before[scan] <= written /\ Above(savedImagesBuffer, before[scan])
    /\ call \in {"save", "stop", "clear", "lastSave"} => Above(dumpBuffer, before[scan])

\* An image that is still on its way after its scan's stopLog() belongs to the round that
\* was being pushed then.
InTime(i) ==
    /\ i.scan \in 1..scan
    /\ i.scan <= Len(stoppedAt) => i.n <= stoppedAt[i.scan] + Cameras
AllInTime(s) == \A k \in 1..Len(s) : InTime(s[k])

StopInv ==
    /\ Len(stoppedAt) = IF call \in {"logging", "save", "stop"} THEN scan - 1 ELSE scan
    /\ isLogging <=> call \in {"logging", "save", "stop"}
    /\ Len(currentImages) <= Cameras
    /\ \A k \in 1..Len(currentImages) : InTime([n |-> pushed + k, scan |-> currentImages[k]])
    /\ AllInTime(writeBuffer) /\ AllInTime(savedImagesBuffer)
    /\ AllInTime(dumpBuffer) /\ AllInTime(photos)
    /\ Holding => InTime(tmp)
    /\ \A k \in 1..Len(photos) : photos[k].scan <= photos[k].chunkOf

\* Every image that is not in a chunk yet has a file name of its own, older than the
\* counter, and a file unless imwrite did not write it.
DumpedPaths == FirstPaths(Len(dumpBuffer))
PathsDiffer(s) == \A j, k \in 1..Len(s) : j # k => s[j].path # s[k].path
PathsKnown(s)  == \A k \in 1..Len(s) : s[k].path \in tmpFiles \cup failed
PathsOld(s)    == \A k \in 1..Len(s) : s[k].path < tmpImageCounter
PathsAvoid(s, paths) == \A k \in 1..Len(s) : s[k].path \notin paths

FilesInv ==
    /\ crashed => failed # {}
    /\ PathsDiffer(savedImagesBuffer) /\ PathsDiffer(dumpBuffer)
    /\ PathsKnown(savedImagesBuffer) /\ PathsKnown(dumpBuffer)
    /\ PathsOld(savedImagesBuffer) /\ PathsOld(dumpBuffer)
    /\ PathsAvoid(savedImagesBuffer, DumpedPaths)
    /\ wpc = "append" => /\ LastPath \in tmpFiles \cup failed
                         /\ PathsAvoid(savedImagesBuffer, {LastPath})
                         /\ PathsAvoid(dumpBuffer, {LastPath})

IInv == TypeInv /\ OrderInv /\ ScanInv /\ StopInv /\ FilesInv

-----------------------------------------------------------------------------
(* Sequences.                                                              *)

\* A function on 1..n is a sequence of n elements.
LEMMA FcnSeq ==
    ASSUME NEW S, NEW n \in Nat, NEW f \in [1..n -> S]
    PROVE  f \in Seq(S) /\ Len(f) = n
<1>1. f \in Seq(S)
  BY SeqDef
<1>2. Len(f) \in Nat /\ 1..Len(f) = 1..n
  BY <1>1, LenProperties
<1>3. Len(f) = n
  BY <1>2
<1>4. QED
  BY <1>1, <1>3

\* The oldest n elements are dropped.
LEMMA Suffix ==
    ASSUME NEW S, NEW s \in Seq(S), NEW n \in 0..Len(s)
    PROVE  /\ SubSeq(s, n + 1, Len(s)) \in Seq(S)
           /\ Len(SubSeq(s, n + 1, Len(s))) = Len(s) - n
           /\ \A k \in 1..(Len(s) - n) : SubSeq(s, n + 1, Len(s))[k] = s[n + k]
<1>1. Len(s) \in Nat /\ \A k \in 1..Len(s) : s[k] \in S
  BY LenProperties
<1>2. \A k \in (n + 1)..Len(s) : s[k] \in S
  BY <1>1
<1>3. n + 1 \in Int /\ Len(s) \in Int
  BY <1>1
<1>4. /\ SubSeq(s, n + 1, Len(s)) \in Seq(S)
      /\ Len(SubSeq(s, n + 1, Len(s)))
           = IF n + 1 <= Len(s) THEN Len(s) - (n + 1) + 1 ELSE 0
      /\ \A k \in 1..(Len(s) - (n + 1) + 1) :
           SubSeq(s, n + 1, Len(s))[k] = s[(n + 1) + k - 1]
  BY ONLY <1>2, <1>3, SubSeqProperties
<1>5. QED
  BY <1>1, <1>4

\* What keepN leaves is the end of the queue.
LEMMA Kept ==
    ASSUME writeBuffer \in Seq(Image), SAFE_IMAGES_BUFFER_SIZE \in Nat,
           Queue!KeepN(SAFE_IMAGES_BUFFER_SIZE)
    PROVE  \E n \in 0..Len(writeBuffer) :
             writeBuffer' = SubSeq(writeBuffer, n + 1, Len(writeBuffer))
<1>1. Len(writeBuffer) \in Nat
  BY LenProperties
<1>2. CASE Len(writeBuffer) > SAFE_IMAGES_BUFFER_SIZE
  <2> DEFINE n == Len(writeBuffer) - SAFE_IMAGES_BUFFER_SIZE
  <2>1. n \in 0..Len(writeBuffer)
    BY <1>1, <1>2
  <2>2. writeBuffer' = SubSeq(writeBuffer, n + 1, Len(writeBuffer))
    BY <1>2 DEF Queue!KeepN
  <2>3. QED
    BY <2>1, <2>2
<1>3. CASE ~(Len(writeBuffer) > SAFE_IMAGES_BUFFER_SIZE)
  <2>1. writeBuffer' = writeBuffer
    BY <1>3 DEF Queue!KeepN
  <2>2. SubSeq(writeBuffer, 0 + 1, Len(writeBuffer)) = writeBuffer
    BY SubSeqFull
  <2>3. QED
    BY <1>1, <2>1, <2>2
<1>4. QED
  BY <1>2, <1>3

-----------------------------------------------------------------------------
(* Types.                                                                  *)

LEMMA TypeInit == Init => TypeInv
<1> SUFFICES ASSUME Init PROVE TypeInv
  OBVIOUS
<1>1. isRunning \in BOOLEAN /\ isLogging \in BOOLEAN /\ crashed \in BOOLEAN
  BY Zenon DEF Init
<1>2. Queue!TypeOK
  <2>1. queueRunning \in BOOLEAN
    BY Zenon DEF Init, Queue!Init
  <2>2. writeBuffer \in Seq(Image) /\ tmp = Empty
    BY DEF Init, Queue!Init
  <2>3. QED
    BY <2>1, <2>2 DEF Queue!TypeOK
<1>3. QED
  BY <1>1, <1>2, OldFilesAssumption DEF Init, TypeInv, TypeOK, Holding

\* The first n of the images put aside have been moved.
MovesFirst(n) ==
    /\ photos' \in Seq(Photo) /\ Len(photos') = Len(photos) + n
    /\ \A k \in 1..Len(photos) : photos'[k] = photos[k]
    /\ \A k \in (Len(photos) + 1)..Len(photos') :
         photos'[k] = [n |-> dumpBuffer[k - Len(photos)].n,
                       scan |-> dumpBuffer[k - Len(photos)].scan, chunkOf |-> scan]
    /\ dumpBuffer' = << >> /\ tmpFiles' = tmpFiles \ FirstPaths(n)
    /\ failed' = failed
    /\ crashed' => n + 1 \in 1..Len(dumpBuffer) /\ ~FileIsThere(n + 1)

\* What a save does.
LEMMA SavedStep ==
    ASSUME TypeInv, SaveDumpedChunkToDirectory
    PROVE  /\ crashed' \in BOOLEAN
           /\ \/ UNCHANGED <<files, dumpBuffer>>
              \/ \E n \in 0..Len(dumpBuffer) : MovesFirst(n)
<1>1. CASE UNCHANGED <<files, dumpBuffer>>
  <2>1. crashed' = crashed
    BY <1>1, Zenon DEF files
  <2>2. crashed' \in BOOLEAN
    BY <2>1, Zenon DEF TypeInv, TypeOK
  <2>3. QED
    BY <1>1, <2>2, Zenon
<1>2. CASE \E n \in 0..Len(dumpBuffer) :
             /\ n < Len(dumpBuffer) => ~FileIsThere(n + 1)
             /\ photos' = photos \o [k \in 1..n |->
                   [n |-> dumpBuffer[k].n, scan |-> dumpBuffer[k].scan, chunkOf |-> scan]]
             /\ tmpFiles' = tmpFiles \ FirstPaths(n)
             /\ crashed' = (n < Len(dumpBuffer))
             /\ dumpBuffer' = << >> /\ failed' = failed
  <2>1. PICK n \in 0..Len(dumpBuffer) :
             /\ n < Len(dumpBuffer) => ~FileIsThere(n + 1)
             /\ photos' = photos \o [k \in 1..n |->
                   [n |-> dumpBuffer[k].n, scan |-> dumpBuffer[k].scan, chunkOf |-> scan]]
             /\ tmpFiles' = tmpFiles \ FirstPaths(n)
             /\ crashed' = (n < Len(dumpBuffer))
             /\ dumpBuffer' = << >> /\ failed' = failed
    BY <1>2
  <2> DEFINE moved == [k \in 1..n |->
               [n |-> dumpBuffer[k].n, scan |-> dumpBuffer[k].scan, chunkOf |-> scan]]
  <2>2. dumpBuffer \in Seq(ImageInfo) /\ photos \in Seq(Photo) /\ scan \in Nat
    BY DEF TypeInv, TypeOK
  <2>3. /\ Len(dumpBuffer) \in Nat /\ Len(photos) \in Nat
        /\ \A k \in 1..Len(dumpBuffer) : dumpBuffer[k] \in ImageInfo
    BY ONLY <2>2, LenProperties
  <2>4. moved \in [1..n -> Photo] /\ n \in Nat
    <3>1. n \in Nat /\ \A k \in 1..n : k \in 1..Len(dumpBuffer)
      BY <2>3
    <3>2. ASSUME NEW k \in 1..n
          PROVE  [n |-> dumpBuffer[k].n, scan |-> dumpBuffer[k].scan, chunkOf |-> scan] \in Photo
      BY ONLY <2>2, <2>3, <3>1 DEF ImageInfo, Photo
    <3>3. QED
      BY <3>1, <3>2
  <2>5. moved \in Seq(Photo) /\ Len(moved) = n
    BY ONLY <2>4, FcnSeq
  <2>6. /\ photos \o moved \in Seq(Photo) /\ Len(photos \o moved) = Len(photos) + n
        /\ \A k \in 1..(Len(photos) + n) :
             (photos \o moved)[k] = IF k <= Len(photos) THEN photos[k]
                                                        ELSE moved[k - Len(photos)]
    BY ONLY <2>2, <2>5, ConcatProperties
  <2>7. photos' = photos \o moved
    BY <2>1
  <2>8. \A k \in 1..Len(photos) : photos'[k] = photos[k]
    BY <2>3, <2>4, <2>6, <2>7
  <2>9. ASSUME NEW k \in (Len(photos) + 1)..Len(photos')
        PROVE  photos'[k] = [n |-> dumpBuffer[k - Len(photos)].n,
                             scan |-> dumpBuffer[k - Len(photos)].scan, chunkOf |-> scan]
    <3>1. k - Len(photos) \in 1..n /\ photos'[k] = moved[k - Len(photos)]
      BY <2>3, <2>4, <2>6, <2>7
    <3>2. QED
      BY <3>1
  <2>10. crashed' \in BOOLEAN /\ (crashed' => n < Len(dumpBuffer))
    <3>1. crashed' = (n < Len(dumpBuffer))
      BY <2>1, Zenon
    <3>2. (n < Len(dumpBuffer)) \in BOOLEAN
      BY <2>3
    <3>3. QED
      BY ONLY <3>1, <3>2, Zenon
  <2>11. crashed' => n + 1 \in 1..Len(dumpBuffer) /\ ~FileIsThere(n + 1)
    BY <2>1, <2>3, <2>10
  <2>12. MovesFirst(n)
    BY <2>1, <2>6, <2>7, <2>8, <2>9, <2>10, <2>11 DEF MovesFirst
  <2>13. QED
    BY <2>10, <2>12, Zenon
<1>3. QED
  BY <1>1, <1>2, Zenon DEF SaveDumpedChunkToDirectory

\* The photos of a chunk, one by one.
LEMMA MovedPhotos ==
    ASSUME NEW n \in Nat, MovesFirst(n), Len(photos) \in Nat, NEW k \in 1..Len(photos')
    PROVE  \/ k \in 1..Len(photos) /\ photos'[k] = photos[k]
           \/ /\ k - Len(photos) \in 1..n
              /\ photos'[k].n = dumpBuffer[k - Len(photos)].n
              /\ photos'[k].scan = dumpBuffer[k - Len(photos)].scan
              /\ photos'[k].chunkOf = scan
<1>1. /\ Len(photos') = Len(photos) + n
      /\ \A i \in 1..Len(photos) : photos'[i] = photos[i]
      /\ \A i \in (Len(photos) + 1)..Len(photos') :
           photos'[i] = [n |-> dumpBuffer[i - Len(photos)].n,
                         scan |-> dumpBuffer[i - Len(photos)].scan, chunkOf |-> scan]
  BY Zenon DEF MovesFirst
<1>2. k \in 1..Len(photos) \/ k \in (Len(photos) + 1)..Len(photos')
  BY <1>1
<1>3. ASSUME k \in (Len(photos) + 1)..Len(photos')
      PROVE  /\ k - Len(photos) \in 1..n
             /\ photos'[k].n = dumpBuffer[k - Len(photos)].n
             /\ photos'[k].scan = dumpBuffer[k - Len(photos)].scan
             /\ photos'[k].chunkOf = scan
  <2>1. k - Len(photos) \in 1..n
    BY <1>1, <1>3
  <2>2. photos'[k] = [n |-> dumpBuffer[k - Len(photos)].n,
                      scan |-> dumpBuffer[k - Len(photos)].scan, chunkOf |-> scan]
    BY <1>1, <1>3, Zenon
  <2>3. QED
    BY ONLY <2>1, <2>2
<1>4. QED
  BY <1>1, <1>2, <1>3

LEMMA TypeStep == TypeInv /\ [Next]_vars => TypeInv'
<1> SUFFICES ASSUME TypeInv, [Next]_vars PROVE TypeInv'
  OBVIOUS
<1> USE CamerasAssumption, BufferAssumption, OutcomesAssumption
    DEF TypeInv, TypeOK, Queue!TypeOK, Holding, control, receiver, queueVars, writer, files,
        watcher, vars, ReceiverAt, WriterAt, CallAt, Image, ImageInfo, Photo, Empty
<1>1. CASE GrabImages
  BY <1>1 DEF GrabImages
<1>2. CASE ReceiverTest
  BY <1>2 DEF ReceiverTest
<1>3. CASE ReceiveImages
  <2> DEFINE round == [k \in 1..imagesBuffer |-> scan]
  <2>1. round \in Seq(Nat) /\ Len(round) = imagesBuffer
    BY FcnSeq
  <2>2. round = << >> <=> imagesBuffer = 0
    BY ONLY <2>1, EmptySeq
  <2>3. currentImages' \in Seq(Nat) /\ (rpc' = "push" <=> currentImages' # << >>)
    BY <1>3, <2>1, <2>2 DEF ReceiveImages
  <2>4. QED
    BY <1>3, <2>3 DEF ReceiveImages
<1>4. CASE PushImage
  <2>1. /\ Head(currentImages) \in Nat /\ currentImages' \in Seq(Nat)
        /\ rpc' = IF currentImages' = << >> THEN "test" ELSE "push"
    <3>1. currentImages # << >> /\ currentImages \in Seq(Nat)
      BY <1>4 DEF PushImage
    <3>2. Head(currentImages) \in Nat /\ Tail(currentImages) \in Seq(Nat)
      BY ONLY <3>1, HeadTailProperties
    <3>3. QED
      BY <1>4, <3>2 DEF PushImage
  <2>2. [n |-> pushed + 1, scan |-> Head(currentImages)] \in Image
    <3>1. pushed \in Nat
      OBVIOUS
    <3>2. QED
      BY ONLY <2>1, <3>1 DEF Image
  <2>3. writeBuffer' \in Seq(Image)
    BY <1>4, <2>2, AppendProperties DEF PushImage, Queue!Push
  <2>4. currentImages' \in Seq(Nat) /\ (rpc' = "push" <=> currentImages' # << >>)
    BY ONLY <2>1
  <2>5. rpc' \in {"test", "push"}
    BY ONLY <2>1
  <2>6. /\ UNCHANGED <<control, imagesBuffer, queueRunning, tmp, writer, files,
                       savedImagesBuffer, dumpBuffer, watcher>>
        /\ pushed' = pushed + 1
    BY <1>4, Zenon DEF PushImage, Queue!Push
  <2>7. QED
    BY <2>3, <2>4, <2>5, <2>6, SMTT(30)
<1>6. CASE ReceiverStops
  BY <1>6, ZenonT(30) DEF ReceiverStops, StopQueue, Queue!Stop
<1>7. CASE WriterTest
  BY <1>7 DEF WriterTest
<1>8. CASE WriterSize
  BY <1>8, SMTT(30) DEF WriterSize
<1>9. CASE DropImages
  <2>1. writeBuffer' \in Seq(Image)
    <3>1. PICK n \in 0..Len(writeBuffer) :
            writeBuffer' = SubSeq(writeBuffer, n + 1, Len(writeBuffer))
      BY <1>9, Kept DEF DropImages
    <3>2. QED
      BY <3>1, Suffix
  <2>2. QED
    BY <1>9, <2>1 DEF DropImages, Queue!KeepN
<1>10. CASE PopImage
  <2>1. CASE queueRunning
    <3>1. writeBuffer # << >> /\ tmp' = Head(writeBuffer) /\ writeBuffer' = Tail(writeBuffer)
      BY <1>10, <2>1 DEF PopImage, Queue!Pop, Queue!CanPop
    <3>2. tmp' \in Image /\ writeBuffer' \in Seq(Image)
      BY <3>1, HeadTailProperties
    <3>3. QED
      BY <1>10, <3>2 DEF PopImage, Queue!Pop
  <2>2. CASE ~queueRunning
    BY <1>10, <2>2 DEF PopImage, Queue!Pop
  <2>3. QED
    BY <2>1, <2>2
<1>11. CASE PreWriteImageToDisk
  <2>1. tmpFiles' \subseteq Nat /\ failed' \subseteq Nat /\ crashed' \in BOOLEAN
    BY <1>11 DEF PreWriteImageToDisk
  <2>2. QED
    BY <1>11, <2>1 DEF PreWriteImageToDisk, NextTmpFile
<1>12. CASE AppendSaved
  <2>1. [n |-> tmp.n, scan |-> tmp.scan, path |-> LastPath] \in ImageInfo
    BY <1>12 DEF AppendSaved, LastPath
  <2>2. savedImagesBuffer' \in Seq(ImageInfo)
    BY <1>12, <2>1, AppendProperties DEF AppendSaved
  <2>3. QED
    BY <1>12, <2>2 DEF AppendSaved
<1>13. CASE StartLog
  <2>1. before' \in Seq(Nat) /\ Len(before') = scan'
    <3>1. before' = Append(before, written) /\ scan' = scan + 1
      BY <1>13 DEF StartLog
    <3>2. before \in Seq(Nat) /\ written \in Nat /\ Len(before) = scan
      OBVIOUS
    <3>3. QED
      BY ONLY <3>1, <3>2, AppendProperties
  <2>2. QED
    BY <1>13, <2>1 DEF StartLog
<1>14. CASE DumpChunkInternally
  BY <1>14 DEF DumpChunkInternally, SavedAfterDump
<1>15. CASE StopLog
  <2>1. stoppedAt' \in Seq(Nat)
    BY <1>15, AppendProperties DEF StopLog
  <2>2. isLogging' \in BOOLEAN
    BY <1>15, Zenon DEF StopLog, NoMoreImages
  <2>3. QED
    BY <1>15, <2>1, <2>2 DEF StopLog
<1>16. CASE StopLogClears
  BY <1>16 DEF StopLogClears
<1>17. CASE SaveDumpedChunkToDirectory
  <2>1. photos' \in Seq(Photo) /\ dumpBuffer' \in Seq(ImageInfo)
        /\ tmpFiles' \subseteq Nat /\ failed' = failed
    <3>1. CASE UNCHANGED <<files, dumpBuffer>>
      BY <3>1
    <3>2. ASSUME NEW n \in 0..Len(dumpBuffer), MovesFirst(n)
          PROVE  /\ photos' \in Seq(Photo) /\ dumpBuffer' = << >>
                 /\ tmpFiles' \subseteq tmpFiles /\ failed' = failed
      BY ONLY <3>2 DEF MovesFirst
    <3>3. << >> \in Seq(ImageInfo)
      OBVIOUS
    <3>4. QED
      BY <1>17, <3>1, <3>2, <3>3, SavedStep
  <2>2. crashed' \in BOOLEAN
    BY <1>17, SavedStep
  <2>3. QED
    BY <1>17, <2>1, <2>2 DEF SaveDumpedChunkToDirectory
<1>18. CASE StopApplication
  <2>1. isRunning' \in BOOLEAN
    BY <1>18, Zenon DEF StopApplication
  <2>2. UNCHANGED <<isLogging, imagesBuffer, receiver, queueVars, writer, files,
                    savedImagesBuffer, dumpBuffer, watcher>>
    BY <1>18, Zenon DEF StopApplication
  <2>3. QED
    BY <2>1, <2>2
<1>19. CASE UNCHANGED vars
  BY <1>19
<1>20. QED
  BY <1>1, <1>2, <1>3, <1>4, <1>6, <1>7, <1>8, <1>9, <1>10, <1>11, <1>12, <1>13,
     <1>14, <1>15, <1>16, <1>17, <1>18, <1>19
     DEF Next, Receiver, Writer, Watcher, Ended

-----------------------------------------------------------------------------
(* The order of the images.                                                *)

\* What the elements of the sequences are.
LEMMA Elements ==
    ASSUME TypeInv
    PROVE  /\ Len(photos) \in Nat /\ \A k \in 1..Len(photos) : photos[k] \in Photo
           /\ Len(dumpBuffer) \in Nat
           /\ \A k \in 1..Len(dumpBuffer) : dumpBuffer[k] \in ImageInfo
           /\ Len(savedImagesBuffer) \in Nat
           /\ \A k \in 1..Len(savedImagesBuffer) : savedImagesBuffer[k] \in ImageInfo
           /\ Len(writeBuffer) \in Nat
           /\ \A k \in 1..Len(writeBuffer) : writeBuffer[k] \in Image
           /\ Len(before) = scan /\ \A k \in 1..scan : before[k] \in Nat
           /\ Len(stoppedAt) \in Nat /\ \A k \in 1..Len(stoppedAt) : stoppedAt[k] \in Nat
           /\ scan \in Nat /\ written \in Nat /\ pushed \in Nat
<1>1. /\ photos \in Seq(Photo) /\ dumpBuffer \in Seq(ImageInfo)
      /\ savedImagesBuffer \in Seq(ImageInfo) /\ writeBuffer \in Seq(Image)
      /\ before \in Seq(Nat) /\ Len(before) = scan /\ stoppedAt \in Seq(Nat)
      /\ scan \in Nat /\ written \in Nat /\ pushed \in Nat
  BY DEF TypeInv, TypeOK, Queue!TypeOK
<1>2. QED
  BY ONLY <1>1, LenProperties

\* The steps that move no image leave the order alone.
LEMMA OrderKept ==
    ASSUME OrderInv, Holding' => Holding,
           UNCHANGED <<photos, dumpBuffer, savedImagesBuffer, writeBuffer, written, pushed, tmp>>
    PROVE  OrderInv'
BY DEF OrderInv, Ascending, Before, AtMost, Above

\* A new image is the newest.
LEMMA OrderPush == ASSUME TypeInv, OrderInv, PushImage PROVE OrderInv'
<1> DEFINE new == [n |-> pushed + 1, scan |-> Head(currentImages)]
<1>1. /\ writeBuffer' = Append(writeBuffer, new) /\ pushed' = pushed + 1
      /\ UNCHANGED <<photos, dumpBuffer, savedImagesBuffer, written, tmp, wpc>>
  BY DEF PushImage, Queue!Push, files, writer, queueVars
<1>2. writeBuffer \in Seq(Image) /\ new \in Image
  <2>1. Head(currentImages) \in Nat
    BY HeadTailProperties DEF PushImage, ReceiverAt, TypeInv, TypeOK
  <2>2. QED
    BY <2>1 DEF TypeInv, TypeOK, Queue!TypeOK, Image
<1>3. /\ Len(writeBuffer') = Len(writeBuffer) + 1
      /\ \A k \in 1..Len(writeBuffer) : writeBuffer'[k] = writeBuffer[k]
      /\ writeBuffer'[Len(writeBuffer) + 1].n = pushed + 1
  BY ONLY <1>1, <1>2, AppendProperties
<1>4. \A k \in 1..Len(writeBuffer) : writeBuffer[k].n \in Nat
  BY Elements DEF Image
<1>5. \A k \in 1..Len(photos) : photos[k].n \in Nat
  BY Elements DEF Photo
<1>6. \A k \in 1..Len(dumpBuffer) : dumpBuffer[k].n \in Nat
  BY Elements DEF ImageInfo
<1>7. \A k \in 1..Len(savedImagesBuffer) : savedImagesBuffer[k].n \in Nat
  BY Elements DEF ImageInfo
<1>8. Holding => tmp.n \in Nat
  BY DEF TypeInv, Image
<1>9. pushed \in Nat /\ written \in Nat /\ written <= pushed /\ Len(writeBuffer) \in Nat
  BY Elements DEF OrderInv
<1>10. Ascending(writeBuffer)' /\ Above(writeBuffer, written)' /\ AtMost(writeBuffer, pushed)'
  <2>1. /\ Ascending(writeBuffer) /\ Above(writeBuffer, written) /\ AtMost(writeBuffer, pushed)
        /\ written' = written /\ pushed' = pushed + 1
    BY <1>1 DEF OrderInv
  <2>2. Above(writeBuffer', written) /\ AtMost(writeBuffer', pushed + 1)
    BY ONLY <1>3, <1>4, <1>9, <2>1 DEF Above, AtMost
  <2>3. ASSUME NEW j \in 1..Len(writeBuffer'), NEW k \in 1..Len(writeBuffer'), j < k
        PROVE  writeBuffer'[j].n < writeBuffer'[k].n
    <3>1. j \in 1..Len(writeBuffer)
      BY ONLY <1>3, <1>9, <2>3
    <3>2. CASE k \in 1..Len(writeBuffer)
      BY ONLY <1>3, <2>1, <2>3, <3>1, <3>2 DEF Ascending
    <3>3. CASE k \notin 1..Len(writeBuffer)
      <4>1. k = Len(writeBuffer) + 1
        BY ONLY <1>3, <1>9, <2>3, <3>3
      <4>2. writeBuffer[j].n \in Nat /\ writeBuffer[j].n <= pushed
        BY ONLY <1>4, <2>1, <3>1 DEF AtMost
      <4>3. QED
        BY ONLY <1>3, <1>9, <3>1, <4>1, <4>2
    <3>4. QED
      BY <3>2, <3>3
  <2>4. QED
    BY <2>1, <2>2, <2>3 DEF Ascending, Above, AtMost
<1>11. Holding' => written' < tmp'.n /\ tmp'.n <= pushed' /\ Above(writeBuffer, tmp.n)'
  BY <1>1, <1>3, <1>4, <1>8, <1>9 DEF OrderInv, Holding, Above
<1>12. QED
  BY <1>1, <1>9, <1>10, <1>11 DEF OrderInv, Ascending, Before, AtMost

\* The end of a sequence of images keeps its order, and follows what was cut.
LEMMA OrderOfSuffix ==
    ASSUME NEW s, NEW t, NEW n \in Nat, NEW m, Len(s) \in Nat, Len(t) = Len(s) - n,
           Len(t) \in Nat, \A k \in 1..Len(s) : s[k].n \in Nat,
           \A k \in 1..Len(t) : t[k] = s[n + k]
    PROVE  /\ Ascending(s) => Ascending(t)
           /\ Above(s, m) => Above(t, m)
           /\ AtMost(s, m) => AtMost(t, m)
           /\ Ascending(s) /\ n = 1 => Above(t, s[1].n)
<1>0. \A k \in 1..Len(t) : n + k \in 1..Len(s)
  OBVIOUS
<1>1. Above(s, m) => Above(t, m)
  BY <1>0 DEF Above
<1>2. AtMost(s, m) => AtMost(t, m)
  BY <1>0 DEF AtMost
<1>3. ASSUME Ascending(s) PROVE Ascending(t)
  <2> SUFFICES ASSUME NEW j \in 1..Len(t), NEW k \in 1..Len(t), j < k
               PROVE  t[j].n < t[k].n
    BY DEF Ascending
  <2>1. n + j \in 1..Len(s) /\ n + k \in 1..Len(s) /\ n + j < n + k
    OBVIOUS
  <2>2. s[n + j].n < s[n + k].n
    BY <1>3, <2>1 DEF Ascending
  <2>3. QED
    BY <2>2
<1>4. ASSUME Ascending(s), n = 1 PROVE Above(t, s[1].n)
  <2> SUFFICES ASSUME NEW k \in 1..Len(t) PROVE t[k].n > s[1].n
    BY DEF Above
  <2>1. 1 \in 1..Len(s) /\ 1 + k \in 1..Len(s) /\ 1 < 1 + k
    BY <1>4
  <2>2. s[1].n < s[1 + k].n
    BY <1>4, <2>1 DEF Ascending
  <2>3. QED
    BY <1>4, <2>1, <2>2
<1>5. QED
  BY <1>1, <1>2, <1>3, <1>4

\* What keepN leaves keeps its order.
LEMMA OrderDrop == ASSUME TypeInv, OrderInv, DropImages PROVE OrderInv'
<1>1. UNCHANGED <<photos, dumpBuffer, savedImagesBuffer, written, pushed, tmp>> /\ ~Holding'
  BY DEF DropImages, Queue!KeepN, files, writer, receiver, Holding
<1>2. writeBuffer \in Seq(Image) /\ Len(writeBuffer) \in Nat
  BY Elements DEF TypeInv, TypeOK, Queue!TypeOK
<1>3. PICK n \in 0..Len(writeBuffer) :
        writeBuffer' = SubSeq(writeBuffer, n + 1, Len(writeBuffer))
  BY <1>2, Kept, BufferAssumption DEF DropImages, BufferAssumption
<1>4. /\ Len(writeBuffer') = Len(writeBuffer) - n
      /\ \A k \in 1..(Len(writeBuffer) - n) : writeBuffer'[k] = writeBuffer[n + k]
  BY ONLY <1>2, <1>3, Suffix
<1>5. \A k \in 1..Len(writeBuffer) : writeBuffer[k].n \in Nat
  BY Elements DEF Image
<1>6. /\ Ascending(writeBuffer) => Ascending(writeBuffer')
      /\ Above(writeBuffer, written) => Above(writeBuffer', written)
      /\ AtMost(writeBuffer, pushed) => AtMost(writeBuffer', pushed)
  <2>1. Len(writeBuffer') \in Nat /\ n \in Nat
    BY <1>2, <1>4
  <2>2. \A k \in 1..Len(writeBuffer') : writeBuffer'[k] = writeBuffer[n + k]
    BY <1>4
  <2>3. QED
    BY ONLY <1>2, <1>4, <1>5, <2>1, <2>2, OrderOfSuffix
<1>7. QED
  BY <1>1, <1>6 DEF OrderInv, Ascending, Before, AtMost, Above

\* The image that is popped is the oldest in the queue and newer than the ones written.
LEMMA OrderPop == ASSUME TypeInv, OrderInv, PopImage PROVE OrderInv'
<1>1. UNCHANGED <<photos, dumpBuffer, savedImagesBuffer, written, pushed>>
  BY DEF PopImage, files, writer, receiver
<1>2. CASE queueRunning
  <2>1. writeBuffer # << >> /\ tmp' = Head(writeBuffer) /\ writeBuffer' = Tail(writeBuffer)
    BY <1>2 DEF PopImage, Queue!Pop, Queue!CanPop
  <2>2. writeBuffer \in Seq(Image)
    BY DEF TypeInv, TypeOK, Queue!TypeOK
  <2>3. /\ Len(writeBuffer) \in Nat \ {0} /\ Len(writeBuffer') = Len(writeBuffer) - 1
        /\ \A k \in 1..(Len(writeBuffer) - 1) : writeBuffer'[k] = writeBuffer[k + 1]
    BY ONLY <2>1, <2>2, HeadTailProperties, EmptySeq
  <2>4. tmp' = writeBuffer[1]
    BY <2>1, <2>2
  <2>5. \A k \in 1..Len(writeBuffer) : writeBuffer[k].n \in Nat
    BY Elements DEF Image
  <2>6. /\ Ascending(writeBuffer) => Ascending(writeBuffer')
        /\ Above(writeBuffer, written) => Above(writeBuffer', written)
        /\ AtMost(writeBuffer, pushed) => AtMost(writeBuffer', pushed)
        /\ Ascending(writeBuffer) => Above(writeBuffer', writeBuffer[1].n)
    <3>1. Len(writeBuffer') \in Nat
      BY <2>3
    <3>2. \A k \in 1..Len(writeBuffer') : writeBuffer'[k] = writeBuffer[1 + k]
      BY <2>3
    <3>3. QED
      BY ONLY <2>3, <2>5, <3>1, <3>2, OrderOfSuffix
  <2>7. written' < tmp'.n /\ tmp'.n <= pushed'
    BY <1>1, <2>3, <2>4, <2>5 DEF OrderInv, Above, AtMost
  <2>8. QED
    BY <1>1, <2>4, <2>6, <2>7 DEF OrderInv, Ascending, Before, AtMost, Above
<1>3. CASE ~queueRunning
  <2>1. tmp' = Empty /\ wpc' = "test" /\ writeBuffer' = writeBuffer
    BY <1>3 DEF PopImage, Queue!Pop
  <2>2. QED
    BY <1>1, <2>1 DEF OrderInv, Ascending, Before, AtMost, Above, Holding
<1>4. QED
  BY <1>2, <1>3

\* The image becomes the latest one written.
LEMMA OrderAppend == ASSUME TypeInv, OrderInv, AppendSaved PROVE OrderInv'
<1> DEFINE info == [n |-> tmp.n, scan |-> tmp.scan, path |-> LastPath]
<1>1. /\ savedImagesBuffer' = Append(savedImagesBuffer, info) /\ written' = tmp.n
      /\ UNCHANGED <<photos, dumpBuffer, writeBuffer, pushed>> /\ Holding /\ ~Holding'
  BY DEF AppendSaved, WriterAt, files, receiver, queueVars, Holding
<1>2. savedImagesBuffer \in Seq(ImageInfo) /\ info \in ImageInfo
  BY DEF TypeInv, TypeOK, Holding, AppendSaved, WriterAt, Image, ImageInfo, LastPath
<1>3. /\ Len(savedImagesBuffer') = Len(savedImagesBuffer) + 1
      /\ \A k \in 1..Len(savedImagesBuffer) : savedImagesBuffer'[k] = savedImagesBuffer[k]
      /\ savedImagesBuffer'[Len(savedImagesBuffer) + 1].n = tmp.n
  BY ONLY <1>1, <1>2, AppendProperties
<1>4. /\ \A k \in 1..Len(savedImagesBuffer) : savedImagesBuffer[k].n \in Nat
      /\ \A k \in 1..Len(dumpBuffer) : dumpBuffer[k].n \in Nat
  BY Elements DEF ImageInfo
<1>5. \A k \in 1..Len(photos) : photos[k].n \in Nat
  BY Elements DEF Photo
<1>6. /\ tmp.n \in Nat /\ written \in Nat /\ pushed \in Nat /\ Len(savedImagesBuffer) \in Nat
      /\ written < tmp.n /\ tmp.n <= pushed /\ Above(writeBuffer, tmp.n)
  BY <1>1, Elements DEF OrderInv, TypeInv, Image
<1>7. Ascending(savedImagesBuffer)' /\ AtMost(savedImagesBuffer, written)'
  BY <1>1, <1>3, <1>4, <1>6 DEF OrderInv, Ascending, AtMost
<1>8. ASSUME NEW s, \A k \in 1..Len(s) : s[k].n \in Nat,
             Before(s, savedImagesBuffer), AtMost(s, written)
      PROVE  Before(s, savedImagesBuffer') /\ AtMost(s, tmp.n)
  <2>1. \A k \in 1..Len(s) : s[k].n < tmp.n
    BY <1>6, <1>8 DEF AtMost
  <2>2. AtMost(s, tmp.n)
    BY <1>6, <1>8, <2>1 DEF AtMost
  <2>3. ASSUME NEW j \in 1..Len(s), NEW k \in 1..Len(savedImagesBuffer')
        PROVE  s[j].n < savedImagesBuffer'[k].n
    <3>1. CASE k \in 1..Len(savedImagesBuffer)
      BY ONLY <1>3, <1>8, <2>3, <3>1 DEF Before
    <3>2. CASE k \notin 1..Len(savedImagesBuffer)
      <4>1. k = Len(savedImagesBuffer) + 1
        BY ONLY <1>3, <1>6, <2>3, <3>2
      <4>2. QED
        BY ONLY <1>3, <2>1, <2>3, <4>1
    <3>3. QED
      BY <3>1, <3>2
  <2>4. QED
    BY <2>2, <2>3 DEF Before
<1>9. /\ Before(photos, savedImagesBuffer)' /\ AtMost(photos, written)'
      /\ Before(dumpBuffer, savedImagesBuffer)' /\ AtMost(dumpBuffer, written)'
  <2>1. /\ Before(photos, savedImagesBuffer) /\ AtMost(photos, written)
        /\ Before(dumpBuffer, savedImagesBuffer) /\ AtMost(dumpBuffer, written)
    BY DEF OrderInv
  <2>2. /\ Before(photos, savedImagesBuffer') /\ AtMost(photos, tmp.n)
        /\ Before(dumpBuffer, savedImagesBuffer') /\ AtMost(dumpBuffer, tmp.n)
    BY <1>4, <1>5, <1>8, <2>1
  <2>3. QED
    BY <1>1, <2>2 DEF Before, AtMost
<1>10. QED
  BY <1>1, <1>6, <1>7, <1>9 DEF OrderInv, Ascending, Before, AtMost, Above

\* The order of a sequence of images and the first ones of another put together.
LEMMA OrderOfConcat ==
    ASSUME NEW s, NEW t, NEW r, NEW u, NEW m, Len(s) \in Nat, Len(t) \in Nat,
           NEW n \in 0..Len(t), Len(r) = Len(s) + n,
           \A k \in 1..Len(s) : r[k].n = s[k].n,
           \A k \in (Len(s) + 1)..Len(r) : r[k].n = t[k - Len(s)].n
    PROVE  /\ Ascending(s) /\ Ascending(t) /\ Before(s, t) => Ascending(r)
           /\ AtMost(s, m) /\ AtMost(t, m) => AtMost(r, m)
           /\ Before(s, u) /\ Before(t, u) => Before(r, u)
<1>1. \A k \in 1..Len(r) :
        \/ k \in 1..Len(s) /\ r[k].n = s[k].n
        \/ k - Len(s) \in 1..Len(t) /\ r[k].n = t[k - Len(s)].n /\ k > Len(s)
  OBVIOUS
<1>2. AtMost(s, m) /\ AtMost(t, m) => AtMost(r, m)
  BY <1>1 DEF AtMost
<1>3. Before(s, u) /\ Before(t, u) => Before(r, u)
  BY <1>1 DEF Before
<1>4. ASSUME Ascending(s), Ascending(t), Before(s, t) PROVE Ascending(r)
  <2> SUFFICES ASSUME NEW j \in 1..Len(r), NEW k \in 1..Len(r), j < k
               PROVE  r[j].n < r[k].n
    BY DEF Ascending
  <2>1. CASE k <= Len(s)
    BY <1>4, <2>1 DEF Ascending
  <2>2. CASE j <= Len(s) /\ k > Len(s)
    <3>1. s[j].n < t[k - Len(s)].n
      BY <1>1, <1>4, <2>2 DEF Before
    <3>2. QED
      BY <2>2, <3>1
  <2>3. CASE j > Len(s)
    <3>1. /\ j - Len(s) \in 1..Len(t) /\ k - Len(s) \in 1..Len(t)
          /\ j - Len(s) < k - Len(s)
      BY <2>3
    <3>2. t[j - Len(s)].n < t[k - Len(s)].n
      BY <1>4, <3>1 DEF Ascending
    <3>3. QED
      BY <2>3, <3>2, SMTT(30)
  <2>4. QED
    BY <2>1, <2>2, <2>3
<1>5. QED
  BY <1>2, <1>3, <1>4

\* The files of the images put aside are moved, or stay.
LEMMA OrderSave == ASSUME TypeInv, OrderInv, SaveDumpedChunkToDirectory PROVE OrderInv'
<1>1. UNCHANGED <<savedImagesBuffer, writeBuffer, written, pushed, tmp, wpc>>
  BY DEF SaveDumpedChunkToDirectory, writer, receiver, queueVars
<1>2. CASE UNCHANGED <<files, dumpBuffer>>
  BY <1>1, <1>2, OrderKept DEF Holding, files
<1>3. CASE \E n \in 0..Len(dumpBuffer) : MovesFirst(n)
  <2>1. PICK n \in 0..Len(dumpBuffer) : MovesFirst(n)
    BY <1>3
  <2>2. Len(dumpBuffer) \in Nat /\ Len(photos) \in Nat
    BY Elements
  <2>3. /\ Len(photos') = Len(photos) + n
        /\ \A k \in 1..Len(photos) : photos'[k].n = photos[k].n
        /\ \A k \in (Len(photos) + 1)..Len(photos') :
             photos'[k].n = dumpBuffer[k - Len(photos)].n
    <3>1. Len(photos') = Len(photos) + n
      BY <2>1, Zenon DEF MovesFirst
    <3>2. \A k \in 1..Len(photos') :
            \/ k \in 1..Len(photos) /\ photos'[k] = photos[k]
            \/ k - Len(photos) \in 1..n /\ photos'[k].n = dumpBuffer[k - Len(photos)].n
      BY <2>1, <2>2, MovedPhotos
    <3>3. QED
      BY ONLY <2>2, <3>1, <3>2, n \in 0..Len(dumpBuffer)
  <2>4. Len(dumpBuffer') = 0
    BY <2>1 DEF MovesFirst
  <2>5. /\ Ascending(photos) /\ Ascending(dumpBuffer) /\ Before(photos, dumpBuffer)
               => Ascending(photos')
        /\ AtMost(photos, written) /\ AtMost(dumpBuffer, written) => AtMost(photos', written)
        /\ Before(photos, savedImagesBuffer) /\ Before(dumpBuffer, savedImagesBuffer)
               => Before(photos', savedImagesBuffer)
    BY ONLY <2>2, <2>3, OrderOfConcat
  <2>6. /\ Ascending(photos)' /\ AtMost(photos, written)' /\ Before(photos, savedImagesBuffer)'
    BY <1>1, <2>5 DEF OrderInv, Ascending, Before, AtMost
  <2>7. /\ Ascending(dumpBuffer)' /\ Before(photos, dumpBuffer)'
        /\ Before(dumpBuffer, savedImagesBuffer)' /\ AtMost(dumpBuffer, written)'
    BY <2>4 DEF Ascending, Before, AtMost
  <2>8. QED
    BY <1>1, <2>6, <2>7 DEF OrderInv, Ascending, Before, AtMost, Above, Holding
<1>4. QED
  BY <1>2, <1>3, SavedStep

LEMMA OrderStep == TypeInv /\ OrderInv /\ [Next]_vars => OrderInv'
<1> SUFFICES ASSUME TypeInv, OrderInv, [Next]_vars PROVE OrderInv'
  OBVIOUS
<1> DEFINE unmoved ==
      UNCHANGED <<photos, dumpBuffer, savedImagesBuffer, writeBuffer, written, pushed, tmp>>
<1>1. CASE \/ GrabImages \/ ReceiverTest \/ ReceiveImages \/ ReceiverStops
           \/ StopLog \/ StopApplication \/ UNCHANGED vars
  <2>1. unmoved /\ UNCHANGED wpc
    BY <1>1 DEF GrabImages, ReceiverTest, ReceiveImages, ReceiverStops, StopQueue,
                Queue!Stop, StopLog, StopApplication, vars, receiver, queueVars, writer, files
  <2>2. QED
    BY <2>1, OrderKept DEF Holding
<1>2. CASE WriterTest \/ WriterSize \/ PreWriteImageToDisk
  <2>1. unmoved /\ (Holding' => Holding)
    BY <1>2 DEF WriterTest, WriterSize, PreWriteImageToDisk, WriterAt, receiver, queueVars,
                files, Holding
  <2>2. QED
    BY <2>1, OrderKept
<1>3. CASE StartLog \/ StopLogClears
  <2>1. /\ savedImagesBuffer' = << >>
        /\ UNCHANGED <<photos, dumpBuffer, writeBuffer, written, pushed, tmp, wpc>>
    BY <1>3 DEF StartLog, StopLogClears, receiver, queueVars, writer, files
  <2>2. Len(savedImagesBuffer') = 0
    BY <2>1
  <2>3. /\ Ascending(savedImagesBuffer)' /\ AtMost(savedImagesBuffer, written)'
        /\ Before(photos, savedImagesBuffer)' /\ Before(dumpBuffer, savedImagesBuffer)'
    BY <2>2 DEF Ascending, Before, AtMost
  <2>4. QED
    BY <2>1, <2>3 DEF OrderInv, Ascending, Before, AtMost, Above, Holding
<1>4. CASE DumpChunkInternally
  <2>1. /\ dumpBuffer' = savedImagesBuffer /\ savedImagesBuffer' = << >>
        /\ UNCHANGED <<photos, writeBuffer, written, pushed, tmp, wpc>>
    BY <1>4 DEF DumpChunkInternally, SavedAfterDump, receiver, queueVars, writer, files
  <2>2. Len(savedImagesBuffer') = 0
    BY <2>1
  <2>3. /\ Ascending(savedImagesBuffer)' /\ AtMost(savedImagesBuffer, written)'
        /\ Before(photos, savedImagesBuffer)' /\ Before(dumpBuffer, savedImagesBuffer)'
    BY <2>2 DEF Ascending, Before, AtMost
  <2>4. /\ Ascending(dumpBuffer)' /\ Before(photos, dumpBuffer)' /\ AtMost(dumpBuffer, written)'
    BY <2>1 DEF OrderInv, Ascending, Before, AtMost
  <2>5. QED
    BY <2>1, <2>3, <2>4 DEF OrderInv, Ascending, Before, AtMost, Above, Holding
<1>5. QED
  BY <1>1, <1>2, <1>3, <1>4, OrderPush, OrderDrop, OrderPop, OrderAppend, OrderSave
     DEF Next, Receiver, Writer, Watcher, Ended

LEMMA OrderInit == Init => OrderInv /\ ScanInv
<1> SUFFICES ASSUME Init PROVE OrderInv /\ ScanInv
  OBVIOUS
<1>1. /\ Len(photos) = 0 /\ Len(dumpBuffer) = 0 /\ Len(savedImagesBuffer) = 0
      /\ Len(writeBuffer) = 0 /\ written = 0 /\ pushed = 0 /\ ~Holding
      /\ scan = 0 /\ call = "idle"
  BY DEF Init, Queue!Init, Holding
<1>2. QED
  BY <1>1 DEF OrderInv, ScanInv, Ascending, Before, AtMost, Above

-----------------------------------------------------------------------------
(* The scans of the images.                                                *)

\* The image that is written now was pushed after the last one written at startLog.
LEMMA ScanAppend == ASSUME TypeInv, OrderInv, ScanInv, AppendSaved PROVE ScanInv'
<1> DEFINE info == [n |-> tmp.n, scan |-> tmp.scan, path |-> LastPath]
<1>1. /\ savedImagesBuffer' = Append(savedImagesBuffer, info) /\ written' = tmp.n
      /\ UNCHANGED <<photos, dumpBuffer, before, scan, call>>
  BY DEF AppendSaved, files, watcher
<1>2. savedImagesBuffer \in Seq(ImageInfo) /\ info \in ImageInfo
  BY DEF TypeInv, TypeOK, Holding, AppendSaved, WriterAt, Image, ImageInfo, LastPath
<1>3. /\ Len(savedImagesBuffer') = Len(savedImagesBuffer) + 1
      /\ \A k \in 1..Len(savedImagesBuffer) : savedImagesBuffer'[k] = savedImagesBuffer[k]
      /\ savedImagesBuffer'[Len(savedImagesBuffer) + 1].n = tmp.n
  BY ONLY <1>1, <1>2, AppendProperties
<1>4. /\ tmp.n \in Nat /\ written \in Nat /\ written < tmp.n
      /\ Len(savedImagesBuffer) \in Nat /\ scan \in Nat
  BY Elements DEF TypeInv, OrderInv, Holding, AppendSaved, WriterAt, Image
<1>5. ASSUME scan > 0 PROVE before[scan] <= written' /\ Above(savedImagesBuffer', before[scan])
  <2>1. before[scan] \in Nat /\ before[scan] <= written /\ Above(savedImagesBuffer, before[scan])
    BY <1>4, <1>5, Elements DEF ScanInv
  <2>2. QED
    BY <1>1, <1>3, <1>4, <2>1 DEF Above
<1>6. QED
  BY <1>1, <1>5 DEF ScanInv, Above

\* A scan starts with no image put aside for it.
LEMMA ScanStart == ASSUME TypeInv, OrderInv, ScanInv, StartLog PROVE ScanInv'
<1>1. /\ before' = Append(before, written) /\ scan' = scan + 1 /\ savedImagesBuffer' = << >>
      /\ call' = "logging" /\ UNCHANGED <<photos, written, dumpBuffer>>
  BY DEF StartLog, writer, files
<1>2. before \in Seq(Nat) /\ written \in Nat /\ Len(before) = scan /\ scan \in Nat
  BY DEF TypeInv, TypeOK
<1>3. before'[scan'] = written /\ \A k \in 1..scan : before'[k] = before[k]
  BY ONLY <1>1, <1>2, AppendProperties
<1>4. Len(savedImagesBuffer') = 0
  BY <1>1
<1>5. \A k \in 1..Len(photos) :
        photos[k].chunkOf \in 1..scan' /\ photos[k].n > before'[photos[k].chunkOf]
  BY <1>1, <1>2, <1>3 DEF ScanInv
<1>6. QED
  BY <1>1, <1>2, <1>3, <1>4, <1>5 DEF ScanInv, Above

\* The images put aside become the chunk's.
LEMMA ScanSave ==
    ASSUME TypeInv, ScanInv, SaveDumpedChunkToDirectory PROVE ScanInv'
<1>1. /\ UNCHANGED <<savedImagesBuffer, written, before, scan>>
      /\ call \in {"save", "lastSave"} /\ call' \in {"logging", "idle"}
  BY DEF SaveDumpedChunkToDirectory, CallAt, writer
<1>2. scan > 0 /\ Above(dumpBuffer, before[scan]) /\ scan \in Nat
  BY <1>1 DEF TypeInv, TypeOK, ScanInv
<1>3. CASE UNCHANGED <<files, dumpBuffer>>
  BY <1>1, <1>3 DEF ScanInv, Above, files
<1>4. CASE \E n \in 0..Len(dumpBuffer) : MovesFirst(n)
  <2>1. PICK n \in 0..Len(dumpBuffer) : MovesFirst(n)
    BY <1>4
  <2>2. Len(dumpBuffer) \in Nat /\ Len(photos) \in Nat
    BY Elements
  <2>3. ASSUME NEW k \in 1..Len(photos')
        PROVE  photos'[k].chunkOf \in 1..scan /\ photos'[k].n > before[photos'[k].chunkOf]
    <3>1. \/ k \in 1..Len(photos) /\ photos'[k] = photos[k]
          \/ /\ k - Len(photos) \in 1..Len(dumpBuffer)
             /\ photos'[k].n = dumpBuffer[k - Len(photos)].n /\ photos'[k].chunkOf = scan
      BY <2>1, <2>2, MovedPhotos
    <3>2. QED
      BY <1>2, <3>1 DEF ScanInv, Above
  <2>4. QED
    BY <1>1, <2>3 DEF ScanInv, Above
<1>5. QED
  BY <1>3, <1>4, SavedStep

LEMMA ScanStep == TypeInv /\ OrderInv /\ ScanInv /\ [Next]_vars => ScanInv'
<1> SUFFICES ASSUME TypeInv, OrderInv, ScanInv, [Next]_vars PROVE ScanInv'
  OBVIOUS
<1> DEFINE unmoved ==
      UNCHANGED <<photos, dumpBuffer, savedImagesBuffer, written, before, scan>>
<1>1. CASE \/ GrabImages \/ Receiver \/ StopApplication \/ UNCHANGED vars
           \/ WriterTest \/ WriterSize \/ DropImages \/ PopImage \/ PreWriteImageToDisk
  <2>1. unmoved /\ UNCHANGED call
    <3>1. CASE GrabImages \/ StopApplication \/ UNCHANGED vars
      BY <3>1 DEF GrabImages, StopApplication, vars, writer, files, watcher
    <3>2. CASE Receiver
      BY <3>2 DEF Receiver, ReceiverTest, ReceiveImages, PushImage, ReceiverStops,
                  writer, files, watcher
    <3>3. CASE WriterTest \/ WriterSize \/ DropImages \/ PopImage \/ PreWriteImageToDisk
      BY <3>3 DEF WriterTest, WriterSize, DropImages, PopImage, PreWriteImageToDisk, files,
                  watcher
    <3>4. QED
      BY <1>1, <3>1, <3>2, <3>3
  <2>2. QED
    BY <2>1 DEF ScanInv, Above
<1>2. CASE StopLog
  <2>1. unmoved /\ call = "stop"
    BY <1>2 DEF StopLog, CallAt, writer, files
  <2>2. QED
    BY <2>1 DEF ScanInv, Above
<1>3. CASE StopLogClears
  <2>1. /\ savedImagesBuffer' = << >> /\ call = "clear"
        /\ UNCHANGED <<photos, dumpBuffer, written, before, scan>>
    BY <1>3 DEF StopLogClears, CallAt, writer, files
  <2>2. Len(savedImagesBuffer') = 0
    BY <2>1
  <2>3. QED
    BY <2>1, <2>2 DEF ScanInv, Above
<1>4. CASE DumpChunkInternally
  <2>1. /\ dumpBuffer' = savedImagesBuffer /\ savedImagesBuffer' = << >>
        /\ call = "logging" /\ UNCHANGED <<photos, written, before, scan>>
    BY <1>4 DEF DumpChunkInternally, SavedAfterDump, CallAt, writer, files
  <2>2. Len(savedImagesBuffer') = 0 /\ scan > 0
    BY <2>1 DEF TypeInv
  <2>3. QED
    BY <2>1, <2>2 DEF ScanInv, Above
<1>5. QED
  BY <1>1, <1>2, <1>3, <1>4, ScanAppend, ScanStart, ScanSave
     DEF Next, Receiver, Writer, Watcher, Ended

-----------------------------------------------------------------------------
(* The images that are still on their way when a scan ends.                *)

\* The steps that move no image, and start or stop no scan.
LEMMA StopKept ==
    ASSUME StopInv, Holding' => Holding,
           UNCHANGED <<photos, dumpBuffer, savedImagesBuffer, writeBuffer, tmp, scan, stoppedAt,
                       currentImages, pushed, isLogging, call>>
    PROVE  StopInv'
BY DEF StopInv, AllInTime, InTime

\* A round starts while the scan is logging, and is in time for it.
LEMMA StopReceive == ASSUME TypeInv, StopInv, ReceiveImages PROVE StopInv'
<1>1. /\ UNCHANGED <<photos, dumpBuffer, savedImagesBuffer, writeBuffer, tmp, scan, stoppedAt,
                      pushed, isLogging, call, wpc>>
      /\ \/ isLogging /\ currentImages' = [k \in 1..imagesBuffer |-> scan]
         \/ currentImages' = currentImages
  BY DEF ReceiveImages, control, queueVars, files, watcher, writer
<1>2. CASE currentImages' = currentImages
  BY <1>1, <1>2, StopKept DEF Holding
<1>3. CASE isLogging /\ currentImages' = [k \in 1..imagesBuffer |-> scan]
  <2>1. scan \in Nat \ {0} /\ imagesBuffer \in Nat /\ imagesBuffer <= Cameras
    BY <1>3, CamerasAssumption DEF TypeInv, TypeOK, StopInv
  <2>2. Len(currentImages') = imagesBuffer
    BY ONLY <1>3, <2>1, FcnSeq
  <2>3. Len(stoppedAt) = scan - 1
    BY <1>3 DEF StopInv
  <2>4. \A k \in 1..Len(currentImages') :
          InTime([n |-> pushed + k, scan |-> currentImages'[k]])
    BY <1>3, <2>1, <2>2, <2>3 DEF InTime
  <2>5. QED
    BY <1>1, <2>1, <2>2, <2>4 DEF StopInv, AllInTime, InTime, Holding
<1>4. QED
  BY <1>1, <1>2, <1>3

\* The image pushed is the first of the round.
LEMMA StopPush == ASSUME TypeInv, StopInv, PushImage PROVE StopInv'
<1> DEFINE new == [n |-> pushed + 1, scan |-> Head(currentImages)]
<1>1. /\ writeBuffer' = Append(writeBuffer, new) /\ pushed' = pushed + 1
      /\ currentImages' = Tail(currentImages)
      /\ UNCHANGED <<photos, dumpBuffer, savedImagesBuffer, tmp, wpc, scan, stoppedAt,
                     isLogging, call>>
  BY DEF PushImage, Queue!Push, control, files, watcher, writer, queueVars
<1>2. currentImages # << >> /\ currentImages \in Seq(Nat) /\ pushed \in Nat
  BY DEF PushImage, ReceiverAt, TypeInv, TypeOK
<1>3. /\ Len(currentImages) \in Nat \ {0} /\ Head(currentImages) = currentImages[1]
      /\ currentImages[1] \in Nat /\ Len(currentImages') = Len(currentImages) - 1
      /\ \A k \in 1..(Len(currentImages) - 1) : currentImages'[k] = currentImages[k + 1]
  BY ONLY <1>1, <1>2, HeadTailProperties, EmptySeq, LenProperties
<1>4. writeBuffer \in Seq(Image) /\ new \in Image
  BY <1>2, <1>3 DEF TypeInv, TypeOK, Queue!TypeOK, Image
<1>5. /\ Len(writeBuffer) \in Nat /\ Len(writeBuffer') = Len(writeBuffer) + 1
      /\ \A k \in 1..Len(writeBuffer) : writeBuffer'[k] = writeBuffer[k]
      /\ writeBuffer'[Len(writeBuffer) + 1] = new
  BY ONLY <1>1, <1>4, AppendProperties, LenProperties
<1>6. InTime(new)
  BY <1>3 DEF StopInv
<1>7. AllInTime(writeBuffer)'
  BY <1>1, <1>5, <1>6 DEF StopInv, AllInTime, InTime
<1>8. ASSUME NEW k \in 1..Len(currentImages')
      PROVE  InTime([n |-> pushed' + k, scan |-> currentImages'[k]])
  <2>1. /\ k + 1 \in 1..Len(currentImages) /\ currentImages'[k] = currentImages[k + 1]
        /\ pushed' + k = pushed + (k + 1)
    BY <1>1, <1>2, <1>3
  <2>2. InTime([n |-> pushed + (k + 1), scan |-> currentImages[k + 1]])
    BY <2>1 DEF StopInv
  <2>3. QED
    BY <2>1, <2>2
<1>9. Len(currentImages') <= Cameras
  BY <1>3, CamerasAssumption DEF StopInv
<1>10. QED
  BY <1>1, <1>7, <1>8, <1>9 DEF StopInv, AllInTime, InTime, Holding

\* The queue's images leave it in the order they came, or are dropped.
LEMMA StopDrop == ASSUME TypeInv, StopInv, DropImages PROVE StopInv'
<1>1. /\ UNCHANGED <<photos, dumpBuffer, savedImagesBuffer, tmp, scan, stoppedAt, currentImages,
                     pushed, isLogging, call>>
      /\ ~Holding'
  BY DEF DropImages, Queue!KeepN, control, files, receiver, watcher, Holding
<1>2. writeBuffer \in Seq(Image) /\ Len(writeBuffer) \in Nat
  BY Elements DEF TypeInv, TypeOK, Queue!TypeOK
<1>3. PICK n \in 0..Len(writeBuffer) :
        writeBuffer' = SubSeq(writeBuffer, n + 1, Len(writeBuffer))
  BY <1>2, Kept, BufferAssumption DEF DropImages, BufferAssumption
<1>4. /\ Len(writeBuffer') = Len(writeBuffer) - n
      /\ \A k \in 1..(Len(writeBuffer) - n) : writeBuffer'[k] = writeBuffer[n + k]
  BY ONLY <1>2, <1>3, Suffix
<1>5. \A k \in 1..Len(writeBuffer') :
        n + k \in 1..Len(writeBuffer) /\ writeBuffer'[k] = writeBuffer[n + k]
  BY <1>2, <1>4
<1>6. AllInTime(writeBuffer)'
  BY <1>1, <1>5 DEF StopInv, AllInTime, InTime
<1>7. QED
  BY <1>1, <1>6 DEF StopInv, AllInTime, InTime

LEMMA StopPop == ASSUME TypeInv, StopInv, PopImage PROVE StopInv'
<1>1. UNCHANGED <<photos, dumpBuffer, savedImagesBuffer, scan, stoppedAt, currentImages, pushed,
                  isLogging, call>>
  BY DEF PopImage, control, files, receiver, watcher
<1>2. CASE queueRunning
  <2>1. writeBuffer # << >> /\ tmp' = Head(writeBuffer) /\ writeBuffer' = Tail(writeBuffer)
    BY <1>2 DEF PopImage, Queue!Pop, Queue!CanPop
  <2>2. writeBuffer \in Seq(Image)
    BY DEF TypeInv, TypeOK, Queue!TypeOK
  <2>3. /\ Len(writeBuffer) \in Nat \ {0} /\ Len(writeBuffer') = Len(writeBuffer) - 1
        /\ \A k \in 1..(Len(writeBuffer) - 1) : writeBuffer'[k] = writeBuffer[k + 1]
        /\ tmp' = writeBuffer[1]
    BY ONLY <2>1, <2>2, HeadTailProperties, EmptySeq
  <2>4. \A k \in 1..Len(writeBuffer') :
          k + 1 \in 1..Len(writeBuffer) /\ writeBuffer'[k] = writeBuffer[k + 1]
    BY <2>3
  <2>5. AllInTime(writeBuffer')
    BY <2>4 DEF StopInv, AllInTime
  <2>6. InTime(tmp')
    <3>1. 1 \in 1..Len(writeBuffer)
      BY <2>3
    <3>2. InTime(writeBuffer[1])
      BY <3>1 DEF StopInv, AllInTime
    <3>3. QED
      BY <2>3, <3>2
  <2>7. QED
    BY <1>1, <2>5, <2>6 DEF StopInv, AllInTime, InTime
<1>3. CASE ~queueRunning
  <2>1. tmp' = Empty /\ wpc' = "test" /\ writeBuffer' = writeBuffer
    BY <1>3 DEF PopImage, Queue!Pop
  <2>2. QED
    BY <1>1, <2>1 DEF StopInv, AllInTime, InTime, Holding
<1>4. QED
  BY <1>2, <1>3

LEMMA StopAppend == ASSUME TypeInv, StopInv, AppendSaved PROVE StopInv'
<1> DEFINE info == [n |-> tmp.n, scan |-> tmp.scan, path |-> LastPath]
<1>1. /\ savedImagesBuffer' = Append(savedImagesBuffer, info)
      /\ UNCHANGED <<photos, dumpBuffer, writeBuffer, tmp, scan, stoppedAt, currentImages, pushed,
                     isLogging, call>>
      /\ Holding /\ ~Holding'
  BY DEF AppendSaved, WriterAt, control, files, receiver, queueVars, watcher, Holding
<1>2. savedImagesBuffer \in Seq(ImageInfo) /\ info \in ImageInfo
  BY DEF TypeInv, TypeOK, Holding, AppendSaved, WriterAt, Image, ImageInfo, LastPath
<1>3. /\ Len(savedImagesBuffer) \in Nat
      /\ Len(savedImagesBuffer') = Len(savedImagesBuffer) + 1
      /\ \A k \in 1..Len(savedImagesBuffer) : savedImagesBuffer'[k] = savedImagesBuffer[k]
      /\ savedImagesBuffer'[Len(savedImagesBuffer) + 1] = info
  BY ONLY <1>1, <1>2, AppendProperties, LenProperties
<1>4. InTime(info)
  BY <1>1 DEF StopInv, InTime
<1>5. AllInTime(savedImagesBuffer)'
  BY <1>1, <1>3, <1>4 DEF StopInv, AllInTime, InTime
<1>6. QED
  BY <1>1, <1>5 DEF StopInv, AllInTime, InTime

\* When the scan stops, everything of it has been pushed but the rest of one round.
LEMMA StopStop == ASSUME TypeInv, OrderInv, StopInv, StopLog PROVE StopInv'
<1>1. /\ UNCHANGED <<photos, dumpBuffer, savedImagesBuffer, writeBuffer, tmp, scan, currentImages,
                     pushed, wpc>>
      /\ stoppedAt' = Append(stoppedAt, pushed) /\ isLogging' = FALSE
      /\ call = "stop" /\ call' = "clear"
  BY DEF StopLog, NoMoreImages, CallAt, files, receiver, queueVars, writer
<1>2. stoppedAt \in Seq(Nat) /\ pushed \in Nat /\ scan \in Nat /\ written \in Nat
  BY DEF TypeInv, TypeOK
<1>3. /\ Len(stoppedAt) \in Nat /\ Len(stoppedAt') = Len(stoppedAt) + 1
      /\ \A k \in 1..Len(stoppedAt) : stoppedAt'[k] = stoppedAt[k]
      /\ stoppedAt'[Len(stoppedAt) + 1] = pushed
  BY ONLY <1>1, <1>2, AppendProperties, LenProperties
<1>4. Len(stoppedAt) = scan - 1
  BY <1>1 DEF StopInv
<1>5. ASSUME NEW i, InTime(i), i.n \in Nat, i.n <= pushed + Cameras PROVE InTime(i)'
  <2>1. CASE i.scan <= Len(stoppedAt)
    <3>1. i.scan \in 1..Len(stoppedAt)
      BY <1>2, <1>3, <1>5, <2>1 DEF InTime
    <3>2. stoppedAt'[i.scan] = stoppedAt[i.scan]
      BY <1>3, <3>1
    <3>3. QED
      BY <1>1, <1>5, <2>1, <3>2 DEF InTime
  <2>2. CASE ~(i.scan <= Len(stoppedAt))
    <3>1. i.scan = Len(stoppedAt) + 1
      BY <1>2, <1>3, <1>4, <1>5, <2>2 DEF InTime
    <3>2. QED
      BY <1>1, <1>3, <1>5, <3>1 DEF InTime
  <2>3. QED
    BY <2>1, <2>2
<1>6. \A i, j : i \in Nat /\ j \in Nat /\ i <= j /\ j <= pushed => i <= pushed + Cameras
  BY <1>2, CamerasAssumption
<1>7. AllInTime(photos)' /\ AllInTime(dumpBuffer)' /\ AllInTime(savedImagesBuffer)'
  <2>1. /\ \A k \in 1..Len(photos) : photos[k].n \in Nat /\ photos[k].n <= written
        /\ \A k \in 1..Len(dumpBuffer) : dumpBuffer[k].n \in Nat /\ dumpBuffer[k].n <= written
        /\ \A k \in 1..Len(savedImagesBuffer) :
              savedImagesBuffer[k].n \in Nat /\ savedImagesBuffer[k].n <= written
    BY Elements DEF OrderInv, AtMost, Photo, ImageInfo
  <2>2. written <= pushed
    BY DEF OrderInv
  <2>3. /\ \A k \in 1..Len(photos) : InTime(photos[k])'
        /\ \A k \in 1..Len(dumpBuffer) : InTime(dumpBuffer[k])'
        /\ \A k \in 1..Len(savedImagesBuffer) : InTime(savedImagesBuffer[k])'
    BY <1>1, <1>2, <1>5, <1>6, <2>1, <2>2 DEF StopInv, AllInTime
  <2>4. QED
    BY <1>1, <2>3 DEF AllInTime
<1>8. AllInTime(writeBuffer)' /\ (Holding' => InTime(tmp)')
  <2>1. \A k \in 1..Len(writeBuffer) : writeBuffer[k].n \in Nat /\ writeBuffer[k].n <= pushed
    BY Elements DEF OrderInv, AtMost, Image
  <2>2. Holding => tmp.n \in Nat /\ tmp.n <= pushed
    BY DEF OrderInv, TypeInv, Image
  <2>3. ASSUME NEW k \in 1..Len(writeBuffer) PROVE InTime(writeBuffer[k])'
    <3>1. InTime(writeBuffer[k])
      BY DEF StopInv, AllInTime
    <3>2. writeBuffer[k].n \in Nat /\ writeBuffer[k].n <= pushed + Cameras
      BY <1>2, <2>1, CamerasAssumption
    <3>3. QED
      BY <1>1, <1>5, <3>1, <3>2
  <2>4. Holding' => InTime(tmp)'
    BY <1>1, <1>2, <1>5, <1>6, <2>2 DEF StopInv, Holding
  <2>5. QED
    BY <1>1, <2>3, <2>4 DEF AllInTime
<1>9. ASSUME NEW k \in 1..Len(currentImages)
      PROVE  InTime([n |-> pushed + k, scan |-> currentImages[k]])'
  <2>1. Len(currentImages) \in Nat /\ Len(currentImages) <= Cameras
    BY LenProperties DEF TypeInv, TypeOK, StopInv
  <2>2. pushed + k \in Nat /\ pushed + k <= pushed + Cameras
    BY <1>2, <2>1, CamerasAssumption
  <2>3. InTime([n |-> pushed + k, scan |-> currentImages[k]])
    BY DEF StopInv
  <2>4. QED
    BY <1>1, <1>5, <2>2, <2>3
<1>10. /\ Len(stoppedAt') = IF call' \in {"logging", "save", "stop"} THEN scan' - 1 ELSE scan'
       /\ isLogging' <=> call' \in {"logging", "save", "stop"}
  BY <1>1, <1>2, <1>3, <1>4
<1>11. /\ Len(currentImages') <= Cameras
       /\ \A k \in 1..Len(currentImages') :
            InTime([n |-> pushed + k, scan |-> currentImages[k]])'
  BY <1>1, <1>9 DEF StopInv
<1>12. \A k \in 1..Len(photos') : photos'[k].scan <= photos'[k].chunkOf
  BY <1>1 DEF StopInv
<1>13. QED
  BY <1>7, <1>8, <1>10, <1>11, <1>12 DEF StopInv

\* Scans have started that the images on their way are not of.
LEMMA StopStart == ASSUME TypeInv, StopInv, StartLog PROVE StopInv'
<1>1. /\ UNCHANGED <<photos, dumpBuffer, writeBuffer, tmp, stoppedAt, currentImages, pushed, wpc>>
      /\ savedImagesBuffer' = << >> /\ scan' = scan + 1 /\ isLogging' = TRUE
      /\ call = "idle" /\ call' = "logging" /\ scan \in Nat
  BY DEF StartLog, CallAt, files, receiver, queueVars, writer, TypeInv, TypeOK
<1>2. Len(savedImagesBuffer') = 0
  BY <1>1
<1>3. Len(stoppedAt) = scan
  BY <1>1 DEF StopInv
<1>4. \A i : InTime(i) => InTime(i)'
  BY <1>1 DEF InTime
<1>5. \A s : AllInTime(s) => AllInTime(s)'
  BY <1>4 DEF AllInTime
<1>6. QED
  BY <1>1, <1>2, <1>3, <1>4 DEF StopInv, AllInTime, Holding

\* The images put aside become the chunk's; they are of this scan or of an earlier one.
LEMMA StopSave == ASSUME TypeInv, ScanInv, StopInv, SaveDumpedChunkToDirectory PROVE StopInv'
<1>1. /\ UNCHANGED <<savedImagesBuffer, writeBuffer, tmp, wpc, scan, stoppedAt, currentImages,
                     pushed, isLogging>>
      /\ \/ call = "save" /\ call' = "logging"
         \/ call = "lastSave" /\ call' = "idle"
  BY DEF SaveDumpedChunkToDirectory, CallAt, control, receiver, queueVars, writer
<1>2. AllInTime(photos)' /\ AllInTime(dumpBuffer)'
      /\ \A k \in 1..Len(photos') : photos'[k].scan <= photos'[k].chunkOf
  <2>1. CASE UNCHANGED <<files, dumpBuffer>>
    BY <1>1, <2>1 DEF files, StopInv, AllInTime, InTime
  <2>2. CASE \E n \in 0..Len(dumpBuffer) : MovesFirst(n)
    <3>1. PICK n \in 0..Len(dumpBuffer) : MovesFirst(n)
      BY <2>2
    <3>2. Len(dumpBuffer) \in Nat /\ Len(photos) \in Nat /\ scan \in Nat
      BY Elements
    <3>3. ASSUME NEW k \in 1..Len(photos')
          PROVE  InTime(photos'[k]) /\ photos'[k].scan <= photos'[k].chunkOf
      <4>1. CASE k \in 1..Len(photos) /\ photos'[k] = photos[k]
        BY <4>1 DEF StopInv, AllInTime
      <4>2. CASE /\ k - Len(photos) \in 1..Len(dumpBuffer)
                 /\ photos'[k].n = dumpBuffer[k - Len(photos)].n
                 /\ photos'[k].scan = dumpBuffer[k - Len(photos)].scan
                 /\ photos'[k].chunkOf = scan
        <5>1. InTime(dumpBuffer[k - Len(photos)])
          BY <4>2 DEF StopInv, AllInTime
        <5>2. QED
          BY <3>2, <4>2, <5>1 DEF InTime
      <4>3. QED
        BY <3>1, <3>2, <4>1, <4>2, MovedPhotos
    <3>4. Len(dumpBuffer') = 0
      BY <3>1 DEF MovesFirst
    <3>5. QED
      BY <1>1, <3>3, <3>4 DEF AllInTime, InTime
  <2>3. QED
    BY <2>1, <2>2, SavedStep
<1>3. QED
  BY <1>1, <1>2 DEF StopInv, AllInTime, InTime, Holding

LEMMA StopInit == Init => StopInv
<1> SUFFICES ASSUME Init PROVE StopInv
  OBVIOUS
<1>1. /\ Len(photos) = 0 /\ Len(dumpBuffer) = 0 /\ Len(savedImagesBuffer) = 0
      /\ Len(writeBuffer) = 0 /\ Len(currentImages) = 0 /\ Len(stoppedAt) = 0
      /\ ~Holding /\ scan = 0 /\ call = "idle"
  BY DEF Init, Queue!Init, Holding
<1>2. isLogging = FALSE
  BY Zenon DEF Init
<1>3. QED
  BY <1>1, <1>2, CamerasAssumption DEF StopInv, AllInTime

LEMMA StopStep == TypeInv /\ OrderInv /\ ScanInv /\ StopInv /\ [Next]_vars => StopInv'
<1> SUFFICES ASSUME TypeInv, OrderInv, ScanInv, StopInv, [Next]_vars PROVE StopInv'
  OBVIOUS
<1>1. CASE \/ GrabImages \/ ReceiverTest \/ ReceiverStops \/ StopApplication \/ UNCHANGED vars
           \/ WriterTest \/ WriterSize \/ PreWriteImageToDisk
  <2>1. /\ UNCHANGED <<photos, dumpBuffer, savedImagesBuffer, writeBuffer, tmp, scan, stoppedAt,
                       currentImages, pushed, isLogging, call>>
        /\ Holding' => Holding
    <3>1. CASE GrabImages \/ StopApplication \/ UNCHANGED vars
      BY <3>1 DEF GrabImages, StopApplication, vars, control, receiver, queueVars, writer, files,
                  watcher, Holding
    <3>2. CASE ReceiverTest \/ ReceiverStops
      BY <3>2 DEF ReceiverTest, ReceiverStops, StopQueue, Queue!Stop, control, receiver,
                  queueVars, writer, files, watcher, Holding
    <3>3. CASE WriterTest \/ WriterSize \/ PreWriteImageToDisk
      BY <3>3 DEF WriterTest, WriterSize, PreWriteImageToDisk, WriterAt, control, receiver,
                  queueVars, files, watcher, Holding
    <3>4. QED
      BY <1>1, <3>1, <3>2, <3>3
  <2>2. QED
    BY <2>1, StopKept
<1>2. CASE DumpChunkInternally \/ StopLogClears
  <2>1. /\ UNCHANGED <<photos, writeBuffer, tmp, wpc, scan, stoppedAt, currentImages, pushed,
                       isLogging>>
        /\ savedImagesBuffer' = << >>
        /\ \/ /\ call = "logging" /\ call' \in {"save", "stop"}
              /\ dumpBuffer' = savedImagesBuffer
           \/ /\ call = "clear" /\ call' = "lastSave" /\ dumpBuffer' = dumpBuffer
    BY <1>2 DEF DumpChunkInternally, SavedAfterDump, StopLogClears, CallAt, control, files,
                receiver, queueVars, writer
  <2>2. Len(savedImagesBuffer') = 0
    BY <2>1
  <2>3. AllInTime(savedImagesBuffer)' /\ AllInTime(dumpBuffer)'
    BY <2>1, <2>2, SMTT(30) DEF StopInv, AllInTime, InTime
  <2>4. /\ Len(stoppedAt') = IF call' \in {"logging", "save", "stop"} THEN scan' - 1 ELSE scan'
        /\ isLogging' <=> call' \in {"logging", "save", "stop"}
    BY <2>1 DEF StopInv
  <2>5. QED
    BY <2>1, <2>3, <2>4 DEF StopInv, AllInTime, InTime, Holding
<1>3. QED
  BY <1>1, <1>2, StopReceive, StopPush, StopDrop, StopPop, StopAppend, StopStop, StopStart,
     StopSave
  DEF Next, Receiver, Writer, Watcher, Ended

-----------------------------------------------------------------------------
(* The whole way of the images.                                            *)

\* Numbers put in order, one sequence after the other.
Rising(s) == s \in Seq(Nat) /\ \A j, k \in 1..Len(s) : j < k => s[j] < s[k]
Under(s, t) == \A j \in 1..Len(s), k \in 1..Len(t) : s[j] < t[k]

LEMMA Joined ==
    ASSUME NEW s, NEW t, Rising(s), Rising(t), Under(s, t)
    PROVE  /\ Rising(s \o t)
           /\ \A u : Under(s, u) /\ Under(t, u) => Under(s \o t, u)
<1>1. s \in Seq(Nat) /\ t \in Seq(Nat)
  BY DEF Rising
<1>2. /\ s \o t \in Seq(Nat) /\ Len(s) \in Nat /\ Len(t) \in Nat
      /\ Len(s \o t) = Len(s) + Len(t)
      /\ \A k \in 1..(Len(s) + Len(t)) :
           (s \o t)[k] = IF k <= Len(s) THEN s[k] ELSE t[k - Len(s)]
  BY ONLY <1>1, ConcatProperties, LenProperties
<1>3. \A k \in 1..Len(s \o t) :
        \/ k \in 1..Len(s) /\ (s \o t)[k] = s[k]
        \/ k - Len(s) \in 1..Len(t) /\ (s \o t)[k] = t[k - Len(s)] /\ k > Len(s)
  BY <1>2
<1>4. ASSUME NEW u, Under(s, u), Under(t, u) PROVE Under(s \o t, u)
  BY <1>3, <1>4 DEF Under
<1>5. ASSUME NEW j \in 1..Len(s \o t), NEW k \in 1..Len(s \o t), j < k
      PROVE  (s \o t)[j] < (s \o t)[k]
  <2>1. CASE k <= Len(s)
    <3>1. j \in 1..Len(s) /\ k \in 1..Len(s) /\ (s \o t)[j] = s[j] /\ (s \o t)[k] = s[k]
      BY <1>2, <1>5, <2>1
    <3>2. QED
      BY <1>5, <3>1 DEF Rising
  <2>2. CASE j <= Len(s) /\ k > Len(s)
    <3>1. /\ j \in 1..Len(s) /\ k - Len(s) \in 1..Len(t)
          /\ (s \o t)[j] = s[j] /\ (s \o t)[k] = t[k - Len(s)]
      BY <1>2, <1>5, <2>2
    <3>2. QED
      BY <3>1 DEF Under
  <2>3. CASE j > Len(s)
    <3>1. /\ j - Len(s) \in 1..Len(t) /\ k - Len(s) \in 1..Len(t)
          /\ j - Len(s) < k - Len(s)
          /\ (s \o t)[j] = t[j - Len(s)] /\ (s \o t)[k] = t[k - Len(s)]
      BY <1>2, <1>5, <2>3
    <3>2. QED
      BY <3>1 DEF Rising
  <2>4. Len(s) \in Nat /\ j \in Nat /\ k \in Nat
    BY <1>2
  <2>5. QED
    BY ONLY <1>5, <2>1, <2>2, <2>3, <2>4
<1>6. QED
  BY <1>2, <1>4, <1>5 DEF Rising

\* The numbers of a sequence of images.
LEMMA NumbersOf ==
    ASSUME NEW s, Len(s) \in Nat, \A k \in 1..Len(s) : s[k].n \in Nat
    PROVE  /\ Numbers(s) \in Seq(Nat) /\ Len(Numbers(s)) = Len(s)
           /\ \A k \in 1..Len(s) : Numbers(s)[k] = s[k].n
<1>1. Numbers(s) \in [1..Len(s) -> Nat]
  BY DEF Numbers
<1>2. Numbers(s) \in Seq(Nat) /\ Len(Numbers(s)) = Len(s)
  BY ONLY <1>1, Len(s) \in Nat, FcnSeq
<1>3. QED
  BY <1>2 DEF Numbers

LEMMA OrderOfNumbers ==
    ASSUME NEW s, NEW t, Len(s) \in Nat, \A k \in 1..Len(s) : s[k].n \in Nat,
           Len(t) \in Nat, \A k \in 1..Len(t) : t[k].n \in Nat
    PROVE  /\ Ascending(s) => Rising(Numbers(s))
           /\ Before(s, t) => Under(Numbers(s), Numbers(t))
<1>1. /\ Numbers(s) \in Seq(Nat) /\ Len(Numbers(s)) = Len(s)
      /\ \A k \in 1..Len(s) : Numbers(s)[k] = s[k].n
  BY ONLY NumbersOf, Len(s) \in Nat, \A k \in 1..Len(s) : s[k].n \in Nat
<1>2. /\ Numbers(t) \in Seq(Nat) /\ Len(Numbers(t)) = Len(t)
      /\ \A k \in 1..Len(t) : Numbers(t)[k] = t[k].n
  BY ONLY NumbersOf, Len(t) \in Nat, \A k \in 1..Len(t) : t[k].n \in Nat
<1>3. Ascending(s) => Rising(Numbers(s))
  BY <1>1 DEF Ascending, Rising
<1>4. Before(s, t) => Under(Numbers(s), Numbers(t))
  BY <1>1, <1>2 DEF Before, Under
<1>5. QED
  BY <1>3, <1>4

LEMMA OrderOfOne ==
    ASSUME NEW s, Len(s) \in Nat, \A k \in 1..Len(s) : s[k].n \in Nat,
           NEW x \in Nat, NEW h, Len(h) = 1, h[1] = x, NEW m \in Nat, m < x
    PROVE  /\ AtMost(s, m) => Under(Numbers(s), h)
           /\ Above(s, x) => Under(h, Numbers(s))
<1>1. Len(Numbers(s)) = Len(s) /\ \A k \in 1..Len(s) : Numbers(s)[k] = s[k].n
  BY ONLY NumbersOf, Len(s) \in Nat, \A k \in 1..Len(s) : s[k].n \in Nat
<1>2. QED
  BY <1>1 DEF AtMost, Above, Under

LEMMA InOrder == TypeInv /\ OrderInv => ImagesInOrder
<1> SUFFICES ASSUME TypeInv, OrderInv PROVE ImagesInOrder
  OBVIOUS
<1>1. Len(photos) \in Nat /\ \A k \in 1..Len(photos) : photos[k].n \in Nat
  BY Elements DEF Photo
<1>2. Len(dumpBuffer) \in Nat /\ \A k \in 1..Len(dumpBuffer) : dumpBuffer[k].n \in Nat
  BY Elements DEF ImageInfo
<1>3. /\ Len(savedImagesBuffer) \in Nat
      /\ \A k \in 1..Len(savedImagesBuffer) : savedImagesBuffer[k].n \in Nat
  BY Elements DEF ImageInfo
<1>4. Len(writeBuffer) \in Nat /\ \A k \in 1..Len(writeBuffer) : writeBuffer[k].n \in Nat
  BY Elements DEF Image
<1>5. written \in Nat /\ (Holding => tmp.n \in Nat)
  BY Elements DEF TypeInv, Image
<1>6. /\ Before(photos, writeBuffer) /\ Before(dumpBuffer, writeBuffer)
      /\ Before(savedImagesBuffer, writeBuffer)
  BY <1>1, <1>2, <1>3, <1>4, <1>5 DEF OrderInv, Before, AtMost, Above
<1> DEFINE P == Numbers(photos)
           D == Numbers(dumpBuffer)
           S == Numbers(savedImagesBuffer)
           W == Numbers(writeBuffer)
<1>7. /\ Rising(P) /\ Under(P, D) /\ Under(P, S) /\ Under(P, W)
  BY <1>1, <1>2, <1>3, <1>4, <1>6, OrderOfNumbers DEF OrderInv
<1>8. Rising(D) /\ Under(D, S) /\ Under(D, W)
  BY <1>2, <1>3, <1>4, <1>6, OrderOfNumbers DEF OrderInv
<1>9. Rising(S) /\ Under(S, W) /\ Rising(W)
  BY <1>3, <1>4, <1>6, OrderOfNumbers DEF OrderInv
<1>10. /\ Rising(Held) /\ Under(P, Held) /\ Under(D, Held) /\ Under(S, Held)
       /\ Under(Held, W)
  <2>1. CASE Holding
    <3>1. Held = <<tmp.n>>
      BY <2>1 DEF Holding, Held
    <3>2. Held \in Seq(Nat) /\ Len(Held) = 1 /\ Held[1] = tmp.n
      BY <1>5, <2>1, <3>1
    <3>3. /\ AtMost(photos, written) /\ AtMost(dumpBuffer, written)
          /\ AtMost(savedImagesBuffer, written) /\ Above(writeBuffer, tmp.n)
          /\ written < tmp.n
      BY <2>1 DEF OrderInv
    <3>4. Rising(Held)
      BY <3>2 DEF Rising
    <3>5. Under(P, Held)
      BY <1>1, <1>5, <2>1, <3>2, <3>3, OrderOfOne
    <3>6. Under(D, Held)
      BY <1>2, <1>5, <2>1, <3>2, <3>3, OrderOfOne
    <3>7. Under(S, Held)
      BY <1>3, <1>5, <2>1, <3>2, <3>3, OrderOfOne
    <3>8. Under(Held, W)
      BY <1>4, <1>5, <2>1, <3>2, <3>3, OrderOfOne
    <3>9. QED
      BY <3>4, <3>5, <3>6, <3>7, <3>8
  <2>2. CASE ~Holding
    <3>1. Held = << >>
      BY <2>2 DEF Holding, Held
    <3>2. Held \in Seq(Nat) /\ Len(Held) = 0
      BY <3>1
    <3>3. QED
      BY <3>2 DEF Rising, Under
  <2>3. QED
    BY <2>1, <2>2
<1>11. Rising(P \o D) /\ Under(P \o D, S) /\ Under(P \o D, Held) /\ Under(P \o D, W)
  BY ONLY <1>7, <1>8, <1>10, Joined
<1>12. Rising(P \o D \o S) /\ Under(P \o D \o S, Held) /\ Under(P \o D \o S, W)
  BY ONLY <1>9, <1>10, <1>11, Joined
<1>13. Rising(P \o D \o S \o Held) /\ Under(P \o D \o S \o Held, W)
  BY ONLY <1>10, <1>12, Joined
<1>14. Rising(P \o D \o S \o Held \o W)
  BY ONLY <1>9, <1>13, Joined
<1>15. Rising(Pipeline)
  BY <1>14, Zenon DEF Pipeline
<1>16. QED
  BY <1>15 DEF Rising, ImagesInOrder

-----------------------------------------------------------------------------
(* The temporary files.                                                    *)

LEMMA FilesInit == Init => FilesInv
<1> SUFFICES ASSUME Init PROVE FilesInv
  OBVIOUS
<1>1. ~crashed
  BY Zenon DEF Init
<1>2. Len(dumpBuffer) = 0 /\ Len(savedImagesBuffer) = 0 /\ wpc = "test"
  BY DEF Init
<1>3. QED
  BY <1>1, <1>2 DEF FilesInv, PathsDiffer, PathsKnown, PathsOld, PathsAvoid

\* The steps that move no file and no path.
LEMMA FilesKept ==
    ASSUME FilesInv, wpc' = "append" => wpc = "append",
           UNCHANGED <<crashed, tmpFiles, failed, tmpImageCounter, dumpBuffer, savedImagesBuffer>>
    PROVE  FilesInv'
BY DEF FilesInv, PathsDiffer, PathsKnown, PathsOld, PathsAvoid, DumpedPaths, FirstPaths, LastPath

\* The file written now has a number no image that waits has.
LEMMA FilesWrite == ASSUME TypeInv, FilesInv, PreWriteImageToDisk PROVE FilesInv'
<1>1. /\ tmpImageCounter' = tmpImageCounter + 1
      /\ UNCHANGED <<dumpBuffer, savedImagesBuffer>>
      /\ tmpFiles \subseteq tmpFiles' /\ failed \subseteq failed'
      /\ tmpImageCounter \in tmpFiles' \cup failed'
  BY DEF PreWriteImageToDisk, NextTmpFile
<1>2. crashed' => failed' # {}
  BY DEF PreWriteImageToDisk
<1>3. /\ tmpImageCounter \in Nat
      /\ \A k \in 1..Len(savedImagesBuffer) : savedImagesBuffer[k].path \in Nat
      /\ \A k \in 1..Len(dumpBuffer) : dumpBuffer[k].path \in Nat
  BY Elements DEF TypeInv, TypeOK, ImageInfo
<1>4. LastPath' = tmpImageCounter
  BY <1>1, <1>3 DEF LastPath
<1>5. /\ PathsAvoid(savedImagesBuffer, {tmpImageCounter})
      /\ PathsAvoid(dumpBuffer, {tmpImageCounter})
  BY <1>3 DEF FilesInv, PathsOld, PathsAvoid
<1>6. PathsOld(savedImagesBuffer)' /\ PathsOld(dumpBuffer)'
  BY <1>1, <1>3 DEF FilesInv, PathsOld
<1>7. QED
  BY <1>1, <1>2, <1>4, <1>5, <1>6
     DEF FilesInv, PathsDiffer, PathsKnown, PathsAvoid, DumpedPaths, FirstPaths

\* Its path is put aside.
LEMMA FilesAppend == ASSUME TypeInv, FilesInv, AppendSaved PROVE FilesInv'
<1> DEFINE info == [n |-> tmp.n, scan |-> tmp.scan, path |-> LastPath]
<1>1. /\ savedImagesBuffer' = Append(savedImagesBuffer, info) /\ wpc = "append"
      /\ wpc' = "test"
      /\ UNCHANGED <<crashed, dumpBuffer, tmpFiles, failed, tmpImageCounter>>
  BY DEF AppendSaved, WriterAt, files
<1>2. savedImagesBuffer \in Seq(ImageInfo) /\ info \in ImageInfo
  BY <1>1 DEF TypeInv, TypeOK, Holding, Image, ImageInfo, LastPath
<1>3. /\ Len(savedImagesBuffer') = Len(savedImagesBuffer) + 1
      /\ \A k \in 1..Len(savedImagesBuffer) : savedImagesBuffer'[k] = savedImagesBuffer[k]
      /\ savedImagesBuffer'[Len(savedImagesBuffer) + 1].path = LastPath
  BY ONLY <1>1, <1>2, AppendProperties
<1>4. \A k \in 1..Len(savedImagesBuffer') :
        \/ k \in 1..Len(savedImagesBuffer)
             /\ savedImagesBuffer'[k].path = savedImagesBuffer[k].path
        \/ k = Len(savedImagesBuffer) + 1 /\ savedImagesBuffer'[k].path = LastPath
  BY <1>3, Elements
<1>5. /\ LastPath \in tmpFiles \cup failed /\ PathsAvoid(savedImagesBuffer, {LastPath})
      /\ PathsAvoid(dumpBuffer, {LastPath}) /\ LastPath < tmpImageCounter
  BY <1>1 DEF FilesInv, TypeInv, TypeOK, LastPath
<1>6. PathsDiffer(savedImagesBuffer')
  BY <1>4, <1>5 DEF FilesInv, PathsDiffer, PathsAvoid
<1>7. \A k \in 1..Len(savedImagesBuffer') :
        /\ savedImagesBuffer'[k].path \in tmpFiles \cup failed
        /\ savedImagesBuffer'[k].path < tmpImageCounter
  BY <1>4, <1>5 DEF FilesInv, PathsKnown, PathsOld
<1>8. PathsAvoid(savedImagesBuffer', DumpedPaths)
  BY <1>4, <1>5 DEF FilesInv, PathsAvoid, DumpedPaths, FirstPaths
<1>9. PathsDiffer(dumpBuffer)' /\ PathsKnown(dumpBuffer)' /\ PathsOld(dumpBuffer)'
  BY <1>1 DEF FilesInv, PathsDiffer, PathsKnown, PathsOld
<1>10. PathsAvoid(savedImagesBuffer, DumpedPaths)'
  BY <1>1, <1>8 DEF PathsAvoid, DumpedPaths, FirstPaths
<1>11. PathsKnown(savedImagesBuffer)' /\ PathsOld(savedImagesBuffer)'
  BY <1>1, <1>7 DEF PathsKnown, PathsOld
<1>12. PathsDiffer(savedImagesBuffer)'
  BY <1>6 DEF PathsDiffer
<1>13. QED
  BY <1>1, <1>9, <1>10, <1>11, <1>12 DEF FilesInv

\* The chunk's images are put aside. Those of an earlier chunk whose directory could not
\* be made are forgotten, and their files stay.
LEMMA FilesDump == ASSUME FilesInv, DumpChunkInternally PROVE FilesInv'
<1>1. /\ dumpBuffer' = savedImagesBuffer /\ savedImagesBuffer' = << >>
      /\ UNCHANGED <<crashed, tmpFiles, failed, tmpImageCounter, wpc>>
  BY DEF DumpChunkInternally, SavedAfterDump, files, writer
<1>2. Len(savedImagesBuffer') = 0
  BY <1>1
<1>3. QED
  BY <1>1, <1>2 DEF FilesInv, PathsDiffer, PathsKnown, PathsOld, PathsAvoid, LastPath

LEMMA FilesForgotten == ASSUME FilesInv, StartLog \/ StopLogClears PROVE FilesInv'
<1>1. /\ savedImagesBuffer' = << >>
      /\ UNCHANGED <<crashed, dumpBuffer, tmpFiles, failed, tmpImageCounter, wpc>>
  BY DEF StartLog, StopLogClears, files, writer
<1>2. Len(savedImagesBuffer') = 0
  BY <1>1
<1>3. QED
  BY <1>1, <1>2
     DEF FilesInv, PathsDiffer, PathsKnown, PathsOld, PathsAvoid, LastPath, DumpedPaths, FirstPaths

\* A rename that does not find its file is of an image that imwrite did not write.
LEMMA FilesSave == ASSUME TypeInv, FilesInv, SaveDumpedChunkToDirectory PROVE FilesInv'
<1>1. UNCHANGED <<tmpImageCounter, savedImagesBuffer, wpc>>
  BY DEF SaveDumpedChunkToDirectory, writer
<1>2. CASE UNCHANGED <<files, dumpBuffer>>
  BY <1>1, <1>2, FilesKept DEF files
<1>3. CASE \E n \in 0..Len(dumpBuffer) : MovesFirst(n)
  <2>1. PICK n \in 0..Len(dumpBuffer) : MovesFirst(n)
    BY <1>3
  <2>2. Len(dumpBuffer) \in Nat
    BY Elements
  <2>3. ASSUME crashed' PROVE failed # {}
    <3>1. n + 1 \in 1..Len(dumpBuffer) /\ ~FileIsThere(n + 1)
      BY <2>1, <2>3 DEF MovesFirst
    <3>2. dumpBuffer[n + 1].path \notin FirstPaths(n)
      <4>1. \A k \in 1..n : k \in 1..Len(dumpBuffer) /\ k # n + 1
        BY <2>2
      <4>2. QED
        BY <3>1, <4>1 DEF FirstPaths, FilesInv, PathsDiffer
    <3>3. n + 1 - 1 = n
      OBVIOUS
    <3>4. dumpBuffer[n + 1].path \notin tmpFiles
      BY <3>1, <3>2, <3>3 DEF FileIsThere
    <3>5. QED
      BY <3>1, <3>4 DEF FilesInv, PathsKnown
  <2>4. FirstPaths(n) \subseteq DumpedPaths
    BY <2>2 DEF FirstPaths, DumpedPaths
  <2>5. /\ tmpFiles' = tmpFiles \ FirstPaths(n) /\ failed' = failed /\ Len(dumpBuffer') = 0
    BY <2>1 DEF MovesFirst
  <2>6. PathsKnown(savedImagesBuffer)'
    BY <1>1, <2>4, <2>5 DEF FilesInv, PathsKnown, PathsAvoid
  <2>7. wpc = "append" => LastPath \in tmpFiles' \cup failed'
    BY <2>4, <2>5 DEF FilesInv, PathsAvoid, DumpedPaths, FirstPaths
  <2>8. QED
    BY <1>1, <2>3, <2>5, <2>6, <2>7
       DEF FilesInv, PathsDiffer, PathsKnown, PathsOld, PathsAvoid, LastPath, DumpedPaths,
           FirstPaths
<1>4. QED
  BY <1>2, <1>3, SavedStep

LEMMA FilesStep == ASSUME TypeInv, FilesInv, [Next]_vars PROVE FilesInv'
<1>1. CASE \/ GrabImages \/ Receiver \/ StopApplication \/ StopLog \/ UNCHANGED vars
           \/ WriterTest \/ WriterSize \/ DropImages \/ PopImage
  <2>1. /\ UNCHANGED <<crashed, tmpFiles, failed, tmpImageCounter, dumpBuffer,
                       savedImagesBuffer>>
        /\ wpc' = "append" => wpc = "append"
    <3>1. CASE GrabImages \/ StopApplication \/ StopLog \/ UNCHANGED vars
      BY <3>1 DEF GrabImages, StopApplication, StopLog, vars, writer, files
    <3>2. CASE Receiver
      BY <3>2 DEF Receiver, ReceiverTest, ReceiveImages, PushImage, ReceiverStops, writer, files
    <3>3. CASE WriterTest \/ WriterSize \/ DropImages \/ PopImage
      BY <3>3 DEF WriterTest, WriterSize, DropImages, PopImage, files
    <3>4. QED
      BY <1>1, <3>1, <3>2, <3>3
  <2>2. QED
    BY <2>1, FilesKept
<1>2. QED
  BY <1>1, FilesWrite, FilesAppend, FilesDump, FilesForgotten, FilesSave
     DEF Next, Receiver, Writer, Watcher, Ended

-----------------------------------------------------------------------------
(* The theorems.                                                           *)

LEMMA Invariance == Spec => []IInv
<1>1. Init => IInv
  BY TypeInit, OrderInit, StopInit, FilesInit DEF IInv
<1>2. IInv /\ [Next]_vars => IInv'
  BY TypeStep, OrderStep, ScanStep, StopStep, FilesStep DEF IInv
<1>3. QED
  BY <1>1, <1>2, PTL DEF Spec

\* Whatever the two threads and the state machine do, the variables keep their types: no
\* thread is between two lines, and no buffer holds the empty image of a stopped queue.
THEOREM TypeCorrect == Spec => []TypeOK
<1>1. IInv => TypeOK
  BY DEF IInv, TypeInv
<1>2. QED
  BY <1>1, Invariance, PTL

\* A chunk holds images received during its own scan, or that were not yet written when
\* the scan started; of those at most one round was pushed after its own scan's end.
THEOREM ChunksOfTheirScan == Spec => []ChunksHoldTheirScan
<1>1. ASSUME IInv PROVE ChunksHoldTheirScan
  <2> SUFFICES ASSUME NEW k \in 1..Len(photos), photos[k].scan # photos[k].chunkOf
               PROVE  /\ photos[k].n > before[photos[k].chunkOf]
                      /\ photos[k].scan \in 1..Len(stoppedAt)
                      /\ photos[k].n <= stoppedAt[photos[k].scan] + Cameras
    BY DEF ChunksHoldTheirScan
  <2>1. photos[k].chunkOf \in 1..scan /\ photos[k].n > before[photos[k].chunkOf]
    BY <1>1 DEF IInv, ScanInv
  <2>2. InTime(photos[k]) /\ photos[k].scan <= photos[k].chunkOf
    BY <1>1 DEF IInv, StopInv, AllInTime
  <2>3. scan \in Nat /\ Len(stoppedAt) \in {scan - 1, scan}
    BY <1>1 DEF IInv, StopInv, TypeInv, TypeOK
  <2>4. photos[k].scan \in 1..Len(stoppedAt)
    BY <2>1, <2>2, <2>3 DEF InTime
  <2>5. QED
    BY <2>1, <2>2, <2>4 DEF InTime
<1>2. QED
  BY <1>1, Invariance, PTL

\* Whatever is dropped on the way and whatever directory cannot be made, images reach the
\* chunks in the order they were received, and none is in two chunks.
THEOREM ImagesKeepTheirOrder == Spec => []ImagesInOrder
<1>1. IInv => ImagesInOrder
  BY InOrder DEF IInv
<1>2. QED
  BY <1>1, Invariance, PTL

\* Whatever becomes of the temporary files and of the directories, every image that waits
\* has a name of its own, under which there is a file unless imwrite did not write it: only
\* such an image, or imwrite itself, ends the process.
THEOREM RenamesFindFiles == Spec => []RenameFindsFile
<1>1. IInv => RenameFindsFile
  BY DEF IInv, FilesInv, RenameFindsFile, PathsDiffer, PathsKnown
<1>2. QED
  BY <1>1, Invariance, PTL
=============================================================================
