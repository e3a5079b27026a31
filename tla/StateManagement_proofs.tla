----------------------- MODULE StateManagement_proofs -----------------------
(***************************************************************************)
(* Proofs about the controller, for any number of clients and any bound on  *)
(* the chunks: first what holds for any number of requesting threads, then  *)
(* what needs the requests to come from one, up to the refinement of        *)
(* ScanSession.                                                             *)
(***************************************************************************)
EXTENDS StateManagement, SequenceTheorems, TLAPS

\* Both scan directories could be made.
BothDirectories == stopScanDirectory /\ continousScanDirectory

\* States the controller reaches only when nothing went wrong at start-up.
ReadyStates == ScanStates \cup {"IDLE"}

\* The latch and the GPIO client follow the start-up sequence of main.
StartupInv ==
    /\ wpc = "unborn" <=> mpc = "watcher"
    /\ initializationLatch = IF dance = "done" THEN 0 ELSE 1
    /\ dance = "unborn" <=> mpc \in {"watcher", "gpio"}
    /\ gpioClientPtr <=> dance # "unborn"

\* The loops over the clients stay within those that are registered.
LoopInv == last <= registered /\ i <= last + 1

\* What the watcher's position, the state it branched on, the shared state and the
\* requests under way say about the directories and the GPIO client.
DirectoriesInv ==
    /\ wpc \in {"unborn", "stopDir"} =>
         app_state \in {"WAIT_FOR_RESOURCES", "LIDAR_ERROR"} /\ ~continousScanDirectory
    /\ wpc = "contDir" =>
         /\ app_state \in {"WAIT_FOR_RESOURCES", "LIDAR_ERROR", "USB_IO_ERROR"}
         /\ app_state = "WAIT_FOR_RESOURCES" => stopScanDirectory
         /\ app_state = "USB_IO_ERROR" => ~stopScanDirectory
         /\ ~continousScanDirectory
    /\ wpc \in Watching /\ app_state = "WAIT_FOR_RESOURCES" => BothDirectories
    /\ app_state = "USB_IO_ERROR" => ~BothDirectories
    /\ app_state \in ReadyStates => BothDirectories
    /\ app_state \in ReadyStates \cup {"LIDAR_ERROR"} => gpioClientPtr
    /\ \A t \in Threads : pending[t] # "none" => BothDirectories /\ gpioClientPtr

SeenInv ==
    /\ wpc \in Watching \ {"test", "switch"} =>
         /\ seen \in ReadyStates \cup {"WAIT_FOR_RESOURCES"} => BothDirectories
         /\ seen \in ReadyStates \cup {"LIDAR_ERROR"} => gpioClientPtr
         /\ seen = "USB_IO_ERROR" => ~BothDirectories
    /\ wpc \in {"dump", "stopLog", "save", "return"} =>
         seen \in {"SCANNING", "STOPPING", "STOPPING_STOP_SCAN"}

IInv ==
    /\ TypeOK
    /\ StartupInv
    /\ LoopInv
    /\ DirectoriesInv
    /\ SeenInv
    /\ LatchProtectsGpio
    /\ CountersMatchSaves

\* Every action preserves the invariant.
LEMMA Step == IInv /\ Next => IInv'
<1> SUFFICES ASSUME IInv, Next PROVE IInv'
  OBVIOUS
<1> USE EarlyAssumption, LivoxAssumption, BooleanAssumption, MaxAssumption
    DEF IInv, TypeOK, SharedTypes, WatcherTypes, RecordingTypes, StartupInv, LoopInv, DirectoriesInv, SeenInv, LatchProtectsGpio,
        CountersMatchSaves, BothDirectories, ReadyStates, ScanStates, States, Requested,
        Watching, Clients, Camera, ChunkNumber, At, MainAt, Case, WithoutLeds, Alive,
        flags, mains, notWatchers, clients, loop, dirs, counts, clocks, outputs, vars
<1>1. CASE CreateDirectoryForStopScans
  BY <1>1 DEF CreateDirectoryForStopScans, StateAfter
<1>2. CASE CreateDirectoryForContinousScanning
  BY <1>2 DEF CreateDirectoryForContinousScanning, StateAfter
<1>3. CASE TestRunning
  BY <1>3 DEF TestRunning, LoopContinues
<1>4. CASE Switch
  BY <1>4 DEF Switch
<1>5. CASE NullGpioClient
  BY <1>5 DEF NullGpioClient
<1>6. CASE OnlyLeds
  BY <1>6 DEF OnlyLeds
<1>7. CASE WaitForResources
  BY <1>7 DEF WaitForResources, ResourcesReady
<1>8. CASE StartAllLogs
  BY <1>8 DEF StartAllLogs, OverClients
<1>9. CASE StartLog
  BY <1>9 DEF StartLog, ClientsLeft
<1>10. CASE AllLogsStarted
  BY <1>10, ZenonT(30) DEF AllLogsStarted, ClientsLeft, StopScanStarted
<1>11. CASE StartingStopScan
  BY <1>11 DEF StartingStopScan
<1>12. CASE StopScanInProgress
  BY <1>12 DEF StopScanInProgress
<1>13. CASE SaveChunkToDisk
  <2> USE <1>13 DEF SaveChunkToDisk, OverClients, OutDirectory
  <2>1. SharedTypes'
    OBVIOUS
  <2>2. WatcherTypes'
    <3>1. i' \in 1..Camera + 1 /\ last' \in 0..Camera
      OBVIOUS
    <3>2. wpc' \in Watching \cup {"unborn", "stopDir", "contDir", "done"}
      OBVIOUS
    <3>3. QED
      BY <3>1, <3>2
  <2>3. RecordingTypes'
    OBVIOUS
  <2>4. StartupInv'
    OBVIOUS
  <2>5. LoopInv'
    OBVIOUS
  <2>6. DirectoriesInv'
    OBVIOUS
  <2>7. SeenInv'
    OBVIOUS
  <2>8. LatchProtectsGpio'
    OBVIOUS
  <2>9. CountersMatchSaves'
    OBVIOUS
  <2>10. QED
    BY <2>1, <2>2, <2>3, <2>4, <2>5, <2>6, <2>7, <2>8, <2>9
<1>14. CASE DumpChunkInternally
  <2> USE <1>14 DEF DumpChunkInternally, ClientsLeft
  <2>1. SharedTypes'
    OBVIOUS
  <2>2. WatcherTypes'
    OBVIOUS
  <2>3. RecordingTypes'
    <3>1. i \in Clients
      OBVIOUS
    <3>2. dumped' \subseteq Clients
      BY <3>1
    <3>3. logging' \in [Clients -> BOOLEAN] /\ saves' \in Seq(Chunk)
      OBVIOUS
    <3>4. QED
      BY <3>2, <3>3
  <2>4. StartupInv'
    OBVIOUS
  <2>5. LoopInv'
    OBVIOUS
  <2>6. DirectoriesInv'
    OBVIOUS
  <2>7. SeenInv'
    OBVIOUS
  <2>8. LatchProtectsGpio'
    OBVIOUS
  <2>9. CountersMatchSaves'
    OBVIOUS
  <2>10. QED
    BY <2>1, <2>2, <2>3, <2>4, <2>5, <2>6, <2>7, <2>8, <2>9
<1>15. CASE AllDumped
  BY <1>15 DEF AllDumped, OverClients, ClientsLeft, StopsLogging
<1>16. CASE StopLog
  BY <1>16 DEF StopLog, ClientsLeft
<1>17. CASE AllLogsStopped
  BY <1>17 DEF AllLogsStopped, ClientsLeft
<1>18. CASE SaveDumpedChunkToDirectory
  <2> USE <1>18 DEF SaveDumpedChunkToDirectory, OutDirectory, Chunk
  <2>1. SharedTypes'
    OBVIOUS
  <2>2. WatcherTypes'
    OBVIOUS
  <2>3. RecordingTypes'
    <3>1. logging' \in [Clients -> BOOLEAN] /\ dumped' \subseteq Clients
      OBVIOUS
    <3>2. [dir |-> OutDirectory, chunk |-> ChunkNumber, ok |-> media] \in Chunk
      OBVIOUS
    <3>3. saves' \in Seq(Chunk)
      <4>1. saves \in Seq(Chunk)
        OBVIOUS
      <4>2. \/ saves' = Append(saves, [dir |-> OutDirectory, chunk |-> ChunkNumber, ok |-> media])
            \/ saves' = saves
        OBVIOUS
      <4>3. Append(saves, [dir |-> OutDirectory, chunk |-> ChunkNumber, ok |-> media]) \in Seq(Chunk)
        BY ONLY <4>1, <3>2, AppendProperties
      <4>4. QED
        BY ONLY <4>1, <4>2, <4>3
    <3>4. QED
      BY <3>1, <3>3
  <2>4. StartupInv'
    OBVIOUS
  <2>5. LoopInv'
    OBVIOUS
  <2>6. DirectoriesInv'
    OBVIOUS
  <2>7. SeenInv'
    OBVIOUS
  <2>8. LatchProtectsGpio'
    OBVIOUS
  <2>9. CountersMatchSaves'
    <3>1. \/ /\ saves' = Append(saves, [dir |-> OutDirectory, chunk |-> Len(saves), ok |-> media])
             /\ wpc' = "return"
          \/ UNCHANGED <<saves, wpc>>
      OBVIOUS
    <3>2. /\ Len(saves) = ChunkNumber
          /\ ChunkNumber' = ChunkNumber
          /\ saves \in Seq(Chunk)
          /\ \A n \in 1..Len(saves) : saves[n].chunk = n - 1
      OBVIOUS
    <3>3. CASE UNCHANGED <<saves, wpc>>
      BY <3>2, <3>3
    <3>4. CASE /\ saves' = Append(saves, [dir |-> OutDirectory, chunk |-> Len(saves), ok |-> media])
               /\ wpc' = "return"
      <4>1. [dir |-> OutDirectory, chunk |-> Len(saves), ok |-> media] \in Chunk
        OBVIOUS
      <4>2. /\ Len(saves') = Len(saves) + 1
            /\ \A n \in 1..Len(saves) : saves'[n] = saves[n]
            /\ saves'[Len(saves) + 1].chunk = Len(saves)
        BY ONLY <3>2, <3>4, <4>1, AppendProperties
      <4>3. QED
        BY <3>2, <3>4, <4>2
    <3>5. QED
      BY <3>1, <3>3, <3>4
  <2>10. QED
    BY <2>1, <2>2, <2>3, <2>4, <2>5, <2>6, <2>7, <2>8, <2>9
<1>19. CASE SavingDone
  <2> USE <1>19 DEF SavingDone, CountChunk, OutDirectory, StateAfterSave
  <2>1. SharedTypes'
    OBVIOUS
  <2>2. WatcherTypes'
    OBVIOUS
  <2>3. RecordingTypes'
    OBVIOUS
  <2>4. StartupInv'
    OBVIOUS
  <2>5. LoopInv'
    OBVIOUS
  <2>6. DirectoriesInv'
    <3>1. BothDirectories /\ gpioClientPtr
      OBVIOUS
    <3>2. CASE seen = "SCANNING"
      BY <3>2
    <3>3. CASE seen # "SCANNING"
      <4>1. app_state' = "IDLE"
        BY <3>3
      <4>2. QED
        BY <4>1, <3>1
    <3>4. QED
      BY <3>2, <3>3
  <2>7. SeenInv'
    OBVIOUS
  <2>8. LatchProtectsGpio'
    OBVIOUS
  <2>9. CountersMatchSaves'
    OBVIOUS
  <2>10. QED
    BY <2>1, <2>2, <2>3, <2>4, <2>5, <2>6, <2>7, <2>8, <2>9
<1>20. CASE InitializeStateMachineThread
  <2> USE <1>20 DEF InitializeStateMachineThread
  <2>1. SharedTypes'
    OBVIOUS
  <2>2. WatcherTypes'
    OBVIOUS
  <2>3. RecordingTypes'
    OBVIOUS
  <2>4. StartupInv'
    OBVIOUS
  <2>5. LoopInv'
    OBVIOUS
  <2>6. DirectoriesInv'
    OBVIOUS
  <2>7. SeenInv'
    OBVIOUS
  <2>8. LatchProtectsGpio'
    OBVIOUS
  <2>9. CountersMatchSaves'
    OBVIOUS
  <2>10. QED
    BY <2>1, <2>2, <2>3, <2>4, <2>5, <2>6, <2>7, <2>8, <2>9
<1>21. CASE InitializeGpioClientThread
  BY <1>21 DEF InitializeGpioClientThread
<1>22. CASE InitializeCameraClientThread
  BY <1>22 DEF InitializeCameraClientThread
<1>23. CASE MainBody
  BY <1>23 DEF MainBody, LidarGuardClause
<1>24. CASE MainTest
  BY <1>24 DEF MainTest
<1>25. CASE JoinThreads
  BY <1>25 DEF JoinThreads
<1>26. CASE LedDance
  BY <1>26 DEF LedDance, DanceEnds
<1>27. CASE StopApplication
  <2> USE <1>27 DEF StopApplication
  <2>1. SharedTypes'
    OBVIOUS
  <2>2. WatcherTypes'
    OBVIOUS
  <2>3. RecordingTypes'
    OBVIOUS
  <2>4. StartupInv'
    OBVIOUS
  <2>5. LoopInv'
    OBVIOUS
  <2>6. DirectoriesInv'
    OBVIOUS
  <2>7. SeenInv'
    OBVIOUS
  <2>8. LatchProtectsGpio'
    OBVIOUS
  <2>9. CountersMatchSaves'
    OBVIOUS
  <2>10. QED
    BY <2>1, <2>2, <2>3, <2>4, <2>5, <2>6, <2>7, <2>8, <2>9
<1>28. CASE ChunkIntervalElapses
  BY <1>28 DEF ChunkIntervalElapses
<1>29. CASE DeadlineElapses
  BY <1>29 DEF DeadlineElapses
<1>30. CASE MediaRemoved
  <2> USE <1>30 DEF MediaRemoved
  <2>1. SharedTypes'
    OBVIOUS
  <2>2. WatcherTypes'
    OBVIOUS
  <2>3. RecordingTypes'
    OBVIOUS
  <2>4. StartupInv'
    OBVIOUS
  <2>5. LoopInv'
    OBVIOUS
  <2>6. DirectoriesInv'
    OBVIOUS
  <2>7. SeenInv'
    OBVIOUS
  <2>8. LatchProtectsGpio'
    OBVIOUS
  <2>9. CountersMatchSaves'
    OBVIOUS
  <2>10. QED
    BY <2>1, <2>2, <2>3, <2>4, <2>5, <2>6, <2>7, <2>8, <2>9
<1>31. ASSUME NEW t \in Threads, Request(t) PROVE IInv'
  <2> USE <1>31 DEF Request, StartScan, StopScan, TriggerStopScan, TriggerContinousScanning, Decide, MayRequest
  <2>1. SharedTypes'
    OBVIOUS
  <2>2. WatcherTypes'
    BY SMTT(30)
  <2>3. RecordingTypes'
    OBVIOUS
  <2>4. StartupInv'
    OBVIOUS
  <2>5. LoopInv'
    OBVIOUS
  <2>6. DirectoriesInv'
    OBVIOUS
  <2>7. SeenInv'
    OBVIOUS
  <2>8. LatchProtectsGpio'
    OBVIOUS
  <2>9. CountersMatchSaves'
    OBVIOUS
  <2>10. QED
    BY <2>1, <2>2, <2>3, <2>4, <2>5, <2>6, <2>7, <2>8, <2>9
<1>32. ASSUME NEW t \in Threads, CommitRequest(t) PROVE IInv'
  BY <1>32 DEF CommitRequest
<1>33. CASE Ended
  BY <1>33 DEF Ended
<1>34. CASE ImwriteThrows
  <2> USE <1>34 DEF ImwriteThrows
  <2>1. SharedTypes' /\ WatcherTypes'
    OBVIOUS
  <2>2. RecordingTypes'
    OBVIOUS
  <2>3. StartupInv' /\ LoopInv' /\ LatchProtectsGpio' /\ CountersMatchSaves'
    OBVIOUS
  <2>4. DirectoriesInv'
    OBVIOUS
  <2>5. SeenInv'
    OBVIOUS
  <2>6. QED
    BY <2>1, <2>2, <2>3, <2>4, <2>5
<1>35. QED
  BY <1>1, <1>2, <1>3, <1>4, <1>5, <1>6, <1>7, <1>8, <1>9, <1>10, <1>11, <1>12, <1>13, <1>14, <1>15, <1>16, <1>17,
     <1>18, <1>19, <1>20, <1>21, <1>22, <1>23, <1>24, <1>25, <1>26, <1>27, <1>28, <1>29, <1>30, <1>31, <1>32, <1>33, <1>34
  DEF Next, Watcher, Main

\* The invariant holds initially.
LEMMA Initially == Init => IInv
<1> SUFFICES ASSUME Init PROVE IInv
  OBVIOUS
<1> USE EarlyAssumption, LivoxAssumption, BooleanAssumption DEF Init, Clients, Camera
<1>1. SharedTypes
  <2>1. pending \in [Threads -> Requested \cup {"none"}]
    OBVIOUS
  <2>2. lidar_error \in BOOLEAN
    OBVIOUS
  <2>3. app_state \in States /\ registered \in EarlyClients..Camera
    BY DEF States
  <2>4. isRunning \in BOOLEAN /\ gpioClientPtr \in BOOLEAN
    BY Zenon
  <2>5. /\ initializationLatch \in 0..1
        /\ mpc \in {"watcher", "gpio", "cameras", "body", "test", "join", "exited"}
        /\ dance \in {"unborn", "blinking", "done"}
    OBVIOUS
  <2>6. QED
    BY ONLY <2>1, <2>2, <2>3, <2>4, <2>5 DEF SharedTypes
<1>2. WatcherTypes
  <2>1. i \in 1..Camera + 1 /\ last \in 0..Camera
    OBVIOUS
  <2>2. seen \in States
    BY DEF States
  <2>3. /\ stopScanDirectory \in BOOLEAN /\ continousScanDirectory \in BOOLEAN
        /\ chunkDue \in BOOLEAN
    BY Zenon
  <2>4. wpc \in Watching \cup {"unborn", "stopDir", "contDir", "done"} /\ deadlines \in 0..2
    OBVIOUS
  <2>5. QED
    BY ONLY <2>1, <2>2, <2>3, <2>4 DEF WatcherTypes
<1>3. RecordingTypes
  BY DEF RecordingTypes
<1>4. StartupInv /\ LoopInv /\ LatchProtectsGpio
  BY DEF StartupInv, LoopInv, LatchProtectsGpio
<1>5. DirectoriesInv /\ SeenInv
  BY DEF DirectoriesInv, SeenInv, BothDirectories, ReadyStates, ScanStates, Watching
<1>6. CountersMatchSaves
  BY DEF CountersMatchSaves, ChunkNumber
<1>7. QED
  BY <1>1, <1>2, <1>3, <1>4, <1>5, <1>6 DEF IInv, TypeOK

\* A stuttering step changes nothing the invariant speaks of.
LEMMA Stuttering == IInv /\ UNCHANGED vars => IInv'
BY DEF vars, flags, mains, notWatchers, clients, loop, dirs, counts, clocks, outputs, IInv,
       TypeOK, SharedTypes, WatcherTypes, RecordingTypes, StartupInv, LoopInv,
       DirectoriesInv, SeenInv, LatchProtectsGpio, CountersMatchSaves, BothDirectories,
       ReadyStates, ChunkNumber

\* The strengthened invariant holds in every reachable state.
THEOREM Invariance == Spec => []IInv
<1>1. IInv /\ [Next]_vars => IInv'
  BY Step, Stuttering
<1>2. QED
  BY <1>1, Initially, PTL DEF Spec

-----------------------------------------------------------------------------

\* Every variable stays in its type. In particular the latch is opened once and the
\* watcher's loops over the clients stay inside the vectors they started with.
THEOREM TypeCorrect == Spec => []TypeOK
<1>1. IInv => TypeOK
  BY DEF IInv
<1>2. QED
  BY <1>1, Invariance, PTL

\* The two counters count the chunks of their directories, so saveChunkToDisk numbers
\* the chunks 0, 1, 2, ... in the order of the saves.
THEOREM CountersCorrect == Spec => []CountersMatchSaves
<1>1. IInv => CountersMatchSaves
  BY DEF IInv
<1>2. QED
  BY <1>1, Invariance, PTL

\* However many threads request scans, no chunk gets the number of an earlier one.
THEOREM NoChunkOverwritten == Spec => []ChunksNeverOverwritten
<1>1. IInv => ChunksNeverOverwritten
  BY DEF IInv, CountersMatchSaves, ChunksNeverOverwritten, TypeOK, RecordingTypes
<1>2. QED
  BY <1>1, Invariance, PTL

\* The controller scans only when both directories were made: the branch of
\* saveChunkToDisk for an empty directory is dead code.
THEOREM ScansHaveDirectories == Spec => []ScanOnlyWithDirectories
<1>1. IInv => ScanOnlyWithDirectories
  BY DEF IInv, DirectoriesInv, ReadyStates, BothDirectories, ScanOnlyWithDirectories
<1>2. QED
  BY <1>1, Invariance, PTL

\* With both directories made, the watcher never uses the GPIO client before it exists.
THEOREM LatchCorrect == Spec => []LatchProtectsGpio
<1>1. IInv => LatchProtectsGpio
  BY DEF IInv
<1>2. QED
  BY <1>1, Invariance, PTL
-----------------------------------------------------------------------------
(* What the clients do, however many threads request scans. A request writes *)
(* STARTING_SCAN, STOPPING or STARTING_STOP_SCAN, possibly out of date; the   *)
(* states that promise something of the clients only the watcher writes, at   *)
(* the end of a loop over them.                                              *)

\* The clients that every scan starts. Cameras that are registered while a scan runs
\* are not started; operators who wait for the end of the start-up prevent that.
Recorders == IF Patient THEN Clients ELSE 1..EarlyClients
On  == \A c \in Recorders : logging[c]
Off == \A c \in Clients : ~logging[c]

\* The watcher is telling the clients what to do.
Busy == {"startLog", "dump", "stopLog", "save", "return"}

\* What the shared state tells of the clients. While the watcher is busy nobody else
\* writes a state that tells anything.
ShownInv ==
    /\ app_state \in {"WAIT_FOR_RESOURCES", "IDLE"} => Off
    /\ app_state \in {"SCANNING", "STOP_SCAN_IN_PROGRESS"} => On
    /\ wpc \in Busy \cup {"case"} => app_state \in {seen, "LIDAR_ERROR"} \cup Requested
    /\ wpc = "case" /\ seen = "WAIT_FOR_RESOURCES" => Off

\* How far the watcher has come with its clients. When a request came too late, a
\* client may be started that records already, or be stopped that does not; but none
\* that records is stopped before its dump.
LoopsInv ==
    /\ wpc = "startLog" =>
         /\ seen \in {"STARTING_SCAN", "STOP_SCAN_IN_INITIAL_PROGRESS"}
         /\ \A c \in Recorders : c <= last
         /\ \A c \in Clients : c < i => logging[c]
    /\ wpc = "dump" => dumped = 1..(i - 1) /\ \A c \in Clients : logging[c] => c <= last
    /\ wpc = "stopLog" =>
         /\ seen # "SCANNING"
         /\ \A c \in Clients : logging[c] => c \in i..last /\ c \in dumped
    /\ wpc \in {"save", "return"} /\ seen # "SCANNING" => Off
    /\ wpc \notin {"dump", "stopLog", "save"} => dumped = {}

\* The cameras are registered last; patient operators do not scan before.
RegisteredInv ==
    /\ registered = IF mpc \in {"watcher", "gpio", "cameras"} THEN EarlyClients ELSE Camera
    /\ \A c \in Clients : logging[c] => c <= registered
    /\ Patient /\ registered # Camera =>
         /\ app_state \notin ScanStates /\ \A t \in Threads : pending[t] = "none"
         /\ wpc \in Busy \cup {"case"} => seen \notin ScanStates

ClientsInv == ShownInv /\ LoopsInv /\ RegisteredInv

\* Which clients are started.
LEMMA RecorderTypes ==
    /\ \A c \in Recorders : c \in Clients
    /\ \A c \in 1..EarlyClients : c \in Recorders
    /\ ~Patient => \A c \in Recorders : c <= EarlyClients
BY EarlyAssumption DEF Recorders, Clients, Camera

\* Every action keeps to it, whatever requests are under way.
LEMMA ClientsStep == ASSUME IInv, ClientsInv, Next PROVE ClientsInv'
<1> USE EarlyAssumption, RecorderTypes
    DEF ClientsInv, ShownInv, LoopsInv, RegisteredInv, On, Off, Busy, ScanStates, Requested,
        Clients, Camera, At, MainAt, Alive, Case, notWatchers, flags, mains, clients, loop, IInv,
        TypeOK, SharedTypes, WatcherTypes, RecordingTypes, LoopInv, SeenInv
<1>1. CASE CreateDirectoryForStopScans
  <2>1. ShownInv'
    BY <1>1 DEF CreateDirectoryForStopScans, StateAfter, DirectoriesInv
  <2>2. LoopsInv'
    BY <1>1 DEF CreateDirectoryForStopScans, StateAfter, DirectoriesInv
  <2>3. RegisteredInv'
    BY <1>1 DEF CreateDirectoryForStopScans, StateAfter, DirectoriesInv
  <2>4. QED
    BY ONLY <2>1, <2>2, <2>3 DEF ClientsInv
<1>2. CASE CreateDirectoryForContinousScanning
  <2>1. ShownInv'
    BY <1>2 DEF CreateDirectoryForContinousScanning, StateAfter, DirectoriesInv
  <2>2. LoopsInv'
    BY <1>2 DEF CreateDirectoryForContinousScanning, StateAfter, DirectoriesInv
  <2>3. RegisteredInv'
    BY <1>2 DEF CreateDirectoryForContinousScanning, StateAfter, DirectoriesInv
  <2>4. QED
    BY ONLY <2>1, <2>2, <2>3 DEF ClientsInv
<1>3. CASE TestRunning
  <2>1. ShownInv'
    BY <1>3 DEF TestRunning
  <2>2. LoopsInv'
    BY <1>3 DEF TestRunning
  <2>3. RegisteredInv'
    BY <1>3 DEF TestRunning
  <2>4. QED
    BY ONLY <2>1, <2>2, <2>3 DEF ClientsInv
<1>4. CASE Switch
  <2>1. ShownInv'
    BY <1>4 DEF Switch
  <2>2. LoopsInv'
    BY <1>4 DEF Switch
  <2>3. RegisteredInv'
    BY <1>4 DEF Switch
  <2>4. QED
    BY ONLY <2>1, <2>2, <2>3 DEF ClientsInv
<1>5. CASE OnlyLeds
  <2>1. ShownInv'
    BY <1>5 DEF OnlyLeds
  <2>2. LoopsInv'
    BY <1>5 DEF OnlyLeds
  <2>3. RegisteredInv'
    BY <1>5 DEF OnlyLeds
  <2>4. QED
    BY ONLY <2>1, <2>2, <2>3 DEF ClientsInv
<1>6. CASE WaitForResources
  <2>1. ShownInv'
    BY <1>6 DEF WaitForResources
  <2>2. LoopsInv'
    BY <1>6 DEF WaitForResources
  <2>3. RegisteredInv'
    BY <1>6 DEF WaitForResources
  <2>4. QED
    BY ONLY <2>1, <2>2, <2>3 DEF ClientsInv
<1>7. CASE StartAllLogs
  <2>1. ShownInv'
    BY <1>7 DEF StartAllLogs, OverClients
  <2>2. LoopsInv'
    BY <1>7 DEF StartAllLogs, OverClients
  <2>3. RegisteredInv'
    BY <1>7 DEF StartAllLogs, OverClients
  <2>4. QED
    BY ONLY <2>1, <2>2, <2>3 DEF ClientsInv
<1>8. CASE StartLog
  <2>1. ShownInv'
    BY <1>8 DEF StartLog, ClientsLeft
  <2>2. LoopsInv'
    BY <1>8 DEF StartLog, ClientsLeft
  <2>3. RegisteredInv'
    BY <1>8 DEF StartLog, ClientsLeft
  <2>4. QED
    BY ONLY <2>1, <2>2, <2>3 DEF ClientsInv
<1>9. CASE AllLogsStarted
  <2>1. ShownInv'
    BY <1>9 DEF AllLogsStarted, ClientsLeft, StopScanStarted
  <2>2. LoopsInv'
    BY <1>9 DEF AllLogsStarted, ClientsLeft, StopScanStarted
  <2>3. RegisteredInv'
    BY <1>9 DEF AllLogsStarted, ClientsLeft, StopScanStarted
  <2>4. QED
    BY ONLY <2>1, <2>2, <2>3 DEF ClientsInv
<1>10. CASE StartingStopScan
  <2>1. ShownInv'
    BY <1>10 DEF StartingStopScan
  <2>2. LoopsInv'
    BY <1>10 DEF StartingStopScan
  <2>3. RegisteredInv'
    BY <1>10 DEF StartingStopScan
  <2>4. QED
    BY ONLY <2>1, <2>2, <2>3 DEF ClientsInv
<1>11. CASE StopScanInProgress
  <2>1. ShownInv'
    BY <1>11 DEF StopScanInProgress
  <2>2. LoopsInv'
    BY <1>11 DEF StopScanInProgress
  <2>3. RegisteredInv'
    BY <1>11 DEF StopScanInProgress
  <2>4. QED
    BY ONLY <2>1, <2>2, <2>3 DEF ClientsInv
<1>12. CASE SaveChunkToDisk
  <2>1. ShownInv'
    BY <1>12 DEF SaveChunkToDisk, OverClients, OutDirectory, Watching, ReadyStates, BothDirectories
  <2>2. LoopsInv'
    <3>1. /\ wpc = "case" /\ wpc' = "dump" /\ i' = 1 /\ last' = registered
          /\ UNCHANGED <<logging, dumped>>
      BY <1>12 DEF SaveChunkToDisk, OverClients, OutDirectory, Watching, ReadyStates,
                   BothDirectories
    <3>2. QED
      BY <3>1
  <2>3. RegisteredInv'
    BY <1>12 DEF SaveChunkToDisk, OverClients, OutDirectory, Watching, ReadyStates, BothDirectories
  <2>4. QED
    BY ONLY <2>1, <2>2, <2>3 DEF ClientsInv
<1>13. CASE DumpChunkInternally
  <2>1. ShownInv'
    BY <1>13 DEF DumpChunkInternally, ClientsLeft
  <2>2. LoopsInv'
    <3>1. /\ wpc = "dump" /\ wpc' = wpc /\ UNCHANGED <<last, seen, logging>>
          /\ \/ i' = i + 1 /\ dumped' = dumped \cup {i}
             \/ UNCHANGED <<i, dumped>>
      BY <1>13 DEF DumpChunkInternally, ClientsLeft
    <3>2. dumped = 1..(i - 1) /\ i \in 1..Camera + 1
      BY <3>1
    <3>3. dumped' = 1..(i' - 1)
      BY ONLY <3>1, <3>2, EarlyAssumption DEF Camera
    <3>4. QED
      BY <3>1, <3>3
  <2>3. RegisteredInv'
    BY <1>13 DEF DumpChunkInternally, ClientsLeft
  <2>4. QED
    BY ONLY <2>1, <2>2, <2>3 DEF ClientsInv
<1>14. CASE AllDumped
  <2>1. ShownInv'
    BY <1>14 DEF AllDumped, OverClients, ClientsLeft, StopsLogging
  <2>2. LoopsInv'
    BY <1>14 DEF AllDumped, OverClients, ClientsLeft, StopsLogging
  <2>3. RegisteredInv'
    BY <1>14 DEF AllDumped, OverClients, ClientsLeft, StopsLogging
  <2>4. QED
    BY ONLY <2>1, <2>2, <2>3 DEF ClientsInv
<1>15. CASE StopLog
  <2>1. ShownInv'
    BY <1>15 DEF StopLog, ClientsLeft
  <2>2. LoopsInv'
    BY <1>15 DEF StopLog, ClientsLeft
  <2>3. RegisteredInv'
    BY <1>15 DEF StopLog, ClientsLeft
  <2>4. QED
    BY ONLY <2>1, <2>2, <2>3 DEF ClientsInv
<1>16. CASE AllLogsStopped
  <2>1. ShownInv'
    BY <1>16 DEF AllLogsStopped, ClientsLeft
  <2>2. LoopsInv'
    BY <1>16 DEF AllLogsStopped, ClientsLeft
  <2>3. RegisteredInv'
    BY <1>16 DEF AllLogsStopped, ClientsLeft
  <2>4. QED
    BY ONLY <2>1, <2>2, <2>3 DEF ClientsInv
<1>17. CASE SaveDumpedChunkToDirectory
  <2>1. ShownInv'
    BY <1>17 DEF SaveDumpedChunkToDirectory
  <2>2. LoopsInv'
    BY <1>17 DEF SaveDumpedChunkToDirectory
  <2>3. RegisteredInv'
    BY <1>17 DEF SaveDumpedChunkToDirectory
  <2>4. QED
    BY ONLY <2>1, <2>2, <2>3 DEF ClientsInv
<1>18. CASE SavingDone
  <2>1. ShownInv'
    BY <1>18 DEF SavingDone, StateAfterSave
  <2>2. LoopsInv'
    BY <1>18 DEF SavingDone, StateAfterSave
  <2>3. RegisteredInv'
    BY <1>18 DEF SavingDone, StateAfterSave
  <2>4. QED
    BY ONLY <2>1, <2>2, <2>3 DEF ClientsInv
<1>19. CASE InitializeStateMachineThread
  <2>1. ShownInv'
    BY <1>19 DEF InitializeStateMachineThread, StartupInv
  <2>2. LoopsInv'
    BY <1>19 DEF InitializeStateMachineThread, StartupInv
  <2>3. RegisteredInv'
    BY <1>19 DEF InitializeStateMachineThread, StartupInv
  <2>4. QED
    BY ONLY <2>1, <2>2, <2>3 DEF ClientsInv
<1>20. CASE InitializeGpioClientThread
  <2>1. ShownInv'
    BY <1>20 DEF InitializeGpioClientThread
  <2>2. LoopsInv'
    BY <1>20 DEF InitializeGpioClientThread
  <2>3. RegisteredInv'
    BY <1>20 DEF InitializeGpioClientThread
  <2>4. QED
    BY ONLY <2>1, <2>2, <2>3 DEF ClientsInv
<1>21. CASE InitializeCameraClientThread
  <2>1. ShownInv'
    BY <1>21 DEF InitializeCameraClientThread
  <2>2. LoopsInv'
    BY <1>21 DEF InitializeCameraClientThread
  <2>3. RegisteredInv'
    BY <1>21 DEF InitializeCameraClientThread
  <2>4. QED
    BY ONLY <2>1, <2>2, <2>3 DEF ClientsInv
<1>22. CASE MainBody
  <2>1. ShownInv'
    BY <1>22 DEF MainBody, LidarGuardClause
  <2>2. LoopsInv'
    BY <1>22 DEF MainBody, LidarGuardClause
  <2>3. RegisteredInv'
    BY <1>22 DEF MainBody, LidarGuardClause
  <2>4. QED
    BY ONLY <2>1, <2>2, <2>3 DEF ClientsInv
<1>23. CASE MainTest
  <2>1. ShownInv'
    BY <1>23 DEF MainTest
  <2>2. LoopsInv'
    BY <1>23 DEF MainTest
  <2>3. RegisteredInv'
    BY <1>23 DEF MainTest
  <2>4. QED
    BY ONLY <2>1, <2>2, <2>3 DEF ClientsInv
<1>24. CASE JoinThreads
  <2>1. ShownInv'
    BY <1>24 DEF JoinThreads
  <2>2. LoopsInv'
    BY <1>24 DEF JoinThreads
  <2>3. RegisteredInv'
    BY <1>24 DEF JoinThreads
  <2>4. QED
    BY ONLY <2>1, <2>2, <2>3 DEF ClientsInv
<1>25. ASSUME NEW t \in Threads, Request(t) PROVE ClientsInv'
  <2>1. /\ Patient => mpc \in {"body", "test"}
        /\ \E to \in Requested : pending' = [pending EXCEPT ![t] = to]
        /\ UNCHANGED <<app_state, registered, mpc, logging, dumped, wpc, seen, i, last>>
    BY <1>25 DEF Request, StartScan, StopScan, TriggerStopScan, TriggerContinousScanning, Decide,
                 MayRequest
  <2>2. ShownInv'
    BY <2>1
  <2>3. LoopsInv'
    BY <2>1
  <2>4. RegisteredInv'
    BY <2>1
  <2>5. QED
    BY ONLY <2>2, <2>3, <2>4 DEF ClientsInv
<1>26. ASSUME NEW t \in Threads, CommitRequest(t) PROVE ClientsInv'
  BY <1>26 DEF CommitRequest
<1>27. CASE \/ NullGpioClient \/ ImwriteThrows \/ LedDance \/ StopApplication
            \/ ChunkIntervalElapses \/ DeadlineElapses \/ MediaRemoved \/ Ended
  <2>1. UNCHANGED <<app_state, registered, mpc, pending, logging, dumped, wpc, seen, i, last>>
    BY <1>27 DEF NullGpioClient, ImwriteThrows, LedDance, StopApplication,
                 ChunkIntervalElapses, DeadlineElapses, MediaRemoved, Ended, vars
  <2>2. QED
    BY <2>1
<1>28. QED
  BY <1>1, <1>2, <1>3, <1>4, <1>5, <1>6, <1>7, <1>8, <1>9, <1>10, <1>11, <1>12, <1>13,
     <1>14, <1>15, <1>16, <1>17, <1>18, <1>19, <1>20, <1>21, <1>22, <1>23, <1>24, <1>25,
     <1>26, <1>27
     DEF Next, Watcher, Main

\* A stuttering step changes nothing the invariant speaks of.
LEMMA ClientsStuttering == ClientsInv /\ UNCHANGED vars => ClientsInv'
BY DEF vars, flags, mains, notWatchers, clients, loop, ClientsInv, ShownInv, LoopsInv,
       RegisteredInv, On, Off

LEMMA ClientsInitially == Init => ClientsInv
<1> SUFFICES ASSUME Init PROVE ClientsInv
  OBVIOUS
<1>1. Off
  BY DEF Init, Off
<1>2. ShownInv /\ LoopsInv
  BY <1>1 DEF Init, ShownInv, LoopsInv, Busy
<1>3. RegisteredInv
  BY <1>1 DEF Init, RegisteredInv, ScanStates, Busy, Off
<1>4. QED
  BY <1>2, <1>3 DEF ClientsInv

THEOREM ClientsInvariance == Spec => []ClientsInv
<1>1. Init => ClientsInv
  BY ClientsInitially
<1>2. IInv /\ ClientsInv /\ [Next]_vars => ClientsInv'
  BY ClientsStep, ClientsStuttering
<1>3. QED
  BY <1>1, <1>2, Invariance, PTL DEF Spec

\* The ready state means that no client records, however many threads request scans and
\* however late their requests are written.
THEOREM IdleIsIdle == Spec => []IdleRecordsNothing
<1>1. ClientsInv => IdleRecordsNothing
  BY DEF ClientsInv, ShownInv, IdleRecordsNothing, Off
<1>2. QED
  BY <1>1, ClientsInvariance, PTL

\* While the device shows a scan, every client that was registered before the watcher
\* started records.
THEOREM ScansRecordEarlyClients ==
    Spec => [](app_state \in {"SCANNING", "STOP_SCAN_IN_PROGRESS"} =>
                   \A c \in 1..EarlyClients : logging[c])
<1>1. ClientsInv => (app_state \in {"SCANNING", "STOP_SCAN_IN_PROGRESS"} =>
                         \A c \in 1..EarlyClients : logging[c])
  BY RecorderTypes DEF ClientsInv, ShownInv, On
<1>2. QED
  BY <1>1, ClientsInvariance, PTL

\* If the operators wait for the end of the start-up, the cameras included all clients
\* record while the device shows a scan.
THEOREM ScansRecordEverything == ASSUME Patient PROVE Spec => []AllClientsRecord
<1>1. ASSUME ClientsInv PROVE AllClientsRecord
  BY <1>1 DEF ClientsInv, ShownInv, AllClientsRecord, On, Recorders
<1>2. QED
  BY <1>1, ClientsInvariance, PTL

\* Only the watcher's loops over the clients change what they do, and only their last part
\* writes chunks.
LEMMA ClientsEffects ==
    [Next]_vars =>
            \/ StartLog \/ DumpChunkInternally \/ StopLog \/ SaveDumpedChunkToDirectory
            \/ UNCHANGED <<logging, dumped, saves>>
BY DEF Next, Watcher, Main, CreateDirectoryForStopScans, CreateDirectoryForContinousScanning,
       TestRunning, Switch, NullGpioClient, ImwriteThrows, OnlyLeds, WaitForResources,
       StartAllLogs, AllLogsStarted, StartingStopScan, StopScanInProgress, SaveChunkToDisk, AllDumped,
       AllLogsStopped, SavingDone, InitializeStateMachineThread, InitializeGpioClientThread,
       InitializeCameraClientThread, MainBody, MainTest, JoinThreads, LedDance,
       StopApplication, ChunkIntervalElapses, DeadlineElapses, MediaRemoved, Request,
       StartScan, StopScan, TriggerStopScan, TriggerContinousScanning, Decide,
       CommitRequest, Ended, vars, clients, outputs

\* No client is stopped before its dump, and a dump is given up only for a chunk that is
\* written (the drive permitting): what was recorded before the dump reaches a chunk.
THEOREM DumpsAreSaved == Spec => NothingDumpedIsLost
<1> DEFINE Kept == \A c \in Clients :
             /\ logging[c] /\ ~logging'[c] => c \in dumped
             /\ c \in dumped /\ c \notin dumped' => Len(saves') = Len(saves) + 1
<1>1. ASSUME IInv, ClientsInv, [Next]_vars PROVE Kept
  <2> USE <1>1 DEF IInv, TypeOK, RecordingTypes
  <2>1. CASE StartLog
    BY <2>1 DEF StartLog
  <2>2. CASE DumpChunkInternally
    BY <2>2 DEF DumpChunkInternally
  <2>3. CASE StopLog
    <3>1. /\ wpc = "stopLog" /\ logging' = [logging EXCEPT ![i] = FALSE]
          /\ UNCHANGED dumped
      BY <2>3 DEF StopLog, At
    <3>2. \A c \in Clients : logging[c] => c \in dumped
      BY <1>1, <3>1 DEF ClientsInv, LoopsInv
    <3>3. QED
      BY <3>1, <3>2
  <2>4. CASE SaveDumpedChunkToDirectory
    BY <2>4 DEF SaveDumpedChunkToDirectory
  <2>5. CASE UNCHANGED <<logging, dumped, saves>>
    BY <2>5
  <2>6. QED
    BY <1>1, <2>1, <2>2, <2>3, <2>4, <2>5, ClientsEffects
<1>2. QED
  BY <1>1, Invariance, ClientsInvariance, PTL DEF Spec, NothingDumpedIsLost

-----------------------------------------------------------------------------
(* How the process may end, however many threads request scans.            *)

\* The clients record until the watcher itself stops them.
RecordingInv ==
    /\ app_state = "STOPPING_STOP_SCAN" /\ wpc \notin {"stopLog", "save", "return"} => On
    /\ wpc \in {"case", "dump"}
         /\ seen \in {"SCANNING", "STOP_SCAN_IN_PROGRESS", "STOPPING_STOP_SCAN"} => On

CrashInv ==
    /\ RecordingInv
    /\ crash = "dump" => seen = "STOPPING"
    /\ Patient => crash # "vector"
    /\ mpc = "exited" => wpc = "done"

LEMMA CrashStep == ASSUME IInv, ClientsInv, CrashInv, Next PROVE CrashInv'
<1> USE EarlyAssumption, LivoxAssumption, RecorderTypes
    DEF CrashInv, RecordingInv, ClientsInv, ShownInv, LoopsInv, RegisteredInv, On, Off, Busy,
        ScanStates, Requested, Clients, Camera, At, MainAt, Alive, Case, notWatchers, flags,
        mains, clients, loop, outputs, IInv, TypeOK, SharedTypes, WatcherTypes,
        RecordingTypes, SeenInv
<1>1. CASE CreateDirectoryForStopScans
  BY <1>1 DEF CreateDirectoryForStopScans, StateAfter
<1>2. CASE CreateDirectoryForContinousScanning
  BY <1>2 DEF CreateDirectoryForContinousScanning, StateAfter
<1>3. CASE TestRunning
  BY <1>3 DEF TestRunning
<1>4. CASE Switch
  BY <1>4 DEF Switch
<1>5. CASE NullGpioClient \/ ImwriteThrows
  BY <1>5 DEF NullGpioClient, ImwriteThrows
<1>6. CASE OnlyLeds
  BY <1>6 DEF OnlyLeds
<1>7. CASE WaitForResources
  BY <1>7 DEF WaitForResources
<1>8. CASE StartAllLogs
  BY <1>8 DEF StartAllLogs, OverClients
<1>9. CASE StartLog
  BY <1>9 DEF StartLog, ClientsLeft
<1>10. CASE AllLogsStarted
  BY <1>10 DEF AllLogsStarted, StopScanStarted
<1>11. CASE StartingStopScan
  BY <1>11 DEF StartingStopScan
<1>12. CASE StopScanInProgress
  BY <1>12 DEF StopScanInProgress
<1>13. CASE SaveChunkToDisk
  BY <1>13 DEF SaveChunkToDisk, OverClients, OutDirectory
<1>14. CASE DumpChunkInternally
  BY <1>14 DEF DumpChunkInternally, ClientsLeft
<1>15. CASE AllDumped
  BY <1>15 DEF AllDumped, OverClients
<1>16. CASE StopLog
  BY <1>16 DEF StopLog, ClientsLeft
<1>17. CASE AllLogsStopped
  BY <1>17 DEF AllLogsStopped
<1>18. CASE SaveDumpedChunkToDirectory
  BY <1>18 DEF SaveDumpedChunkToDirectory
<1>19. CASE SavingDone
  BY <1>19 DEF SavingDone, StateAfterSave
<1>20. CASE InitializeStateMachineThread
  BY <1>20 DEF InitializeStateMachineThread, StartupInv
<1>21. CASE InitializeGpioClientThread
  BY <1>21 DEF InitializeGpioClientThread
<1>22. CASE InitializeCameraClientThread
  BY <1>22 DEF InitializeCameraClientThread
<1>23. CASE MainBody
  BY <1>23 DEF MainBody, LidarGuardClause
<1>24. CASE MainTest
  BY <1>24 DEF MainTest
<1>25. CASE JoinThreads
  BY <1>25 DEF JoinThreads
<1>26. CASE LedDance
  BY <1>26 DEF LedDance
<1>27. CASE StopApplication
  BY <1>27 DEF StopApplication
<1>28. CASE ChunkIntervalElapses
  BY <1>28 DEF ChunkIntervalElapses
<1>29. CASE DeadlineElapses
  BY <1>29 DEF DeadlineElapses
<1>30. CASE MediaRemoved
  BY <1>30 DEF MediaRemoved
<1>31. ASSUME NEW t \in Threads, Request(t) PROVE CrashInv'
  BY <1>31 DEF Request, StartScan, StopScan, TriggerStopScan, TriggerContinousScanning, Decide,
               MayRequest
<1>32. ASSUME NEW t \in Threads, CommitRequest(t) PROVE CrashInv'
  BY <1>32 DEF CommitRequest
<1>33. CASE Ended
  BY <1>33 DEF Ended, vars
<1>34. QED
  BY <1>1, <1>2, <1>3, <1>4, <1>5, <1>6, <1>7, <1>8, <1>9, <1>10, <1>11, <1>12, <1>13,
     <1>14, <1>15, <1>16, <1>17, <1>18, <1>19, <1>20, <1>21, <1>22, <1>23, <1>24, <1>25,
     <1>26, <1>27, <1>28, <1>29, <1>30, <1>31, <1>32, <1>33
     DEF Next, Watcher, Main

\* A stuttering step changes nothing the invariant speaks of.
LEMMA CrashStuttering == CrashInv /\ UNCHANGED vars => CrashInv'
BY DEF vars, flags, mains, notWatchers, clients, loop, outputs, CrashInv, RecordingInv, On

LEMMA CrashInitially == Init => CrashInv
BY DEF Init, CrashInv, RecordingInv

THEOREM CrashInvariance == Spec => []CrashInv
<1>1. IInv /\ ClientsInv /\ CrashInv /\ [Next]_vars => CrashInv'
  BY CrashStep, CrashStuttering
<1>2. QED
  BY <1>1, CrashInitially, Invariance, ClientsInvariance, PTL DEF Spec

\* The null buffers of a lidar are read in the case STOPPING only: a request to stop that
\* is written too late is the one way to that crash. Periodic saves and the end of a stop
\* scan always find their clients recording.
THEOREM OnlyLateStopsCrash == Spec => [](crash = "dump" => seen = "STOPPING")
<1>1. CrashInv => (crash = "dump" => seen = "STOPPING")
  BY DEF CrashInv
<1>2. QED
  BY <1>1, CrashInvariance, PTL

\* The cameras do not enter the vectors while the watcher iterates over them, if the
\* operators wait for the end of the start-up: main's push_back needs no lock then.
THEOREM VectorsStandStill == ASSUME Patient PROVE Spec => [](crash # "vector")
<1>1. CrashInv => crash # "vector"
  BY DEF CrashInv
<1>2. QED
  BY <1>1, CrashInvariance, PTL

\* When main has returned, the watcher has ended with nothing dumped and unwritten: the
\* shutdown does not interrupt saveChunkToDisk.
THEOREM ExitLosesNoDump == Spec => [](mpc = "exited" => wpc = "done" /\ dumped = {})
<1>1. ClientsInv /\ CrashInv => (mpc = "exited" => wpc = "done" /\ dumped = {})
  BY DEF ClientsInv, LoopsInv, CrashInv
<1>2. QED
  BY <1>1, ClientsInvariance, CrashInvariance, PTL

-----------------------------------------------------------------------------
(* One requester: what the clients do, and what the controller knows of it. *)

\* No two threads can request.
OneRequester == \A t, u \in Threads : t = u

OnStates  == {"SCANNING", "STOPPING", "STOP_SCAN_IN_PROGRESS", "STOPPING_STOP_SCAN"}
OffStates == {"WAIT_FOR_RESOURCES", "IDLE", "STARTING_SCAN", "STARTING_STOP_SCAN",
              "STOP_SCAN_IN_INITIAL_PROGRESS", "USB_IO_ERROR"}

\* What others may have made of app_state since the watcher saw it.
After(state) ==
    {state, "LIDAR_ERROR"}
    \cup (IF state \in {"IDLE", "LIDAR_ERROR"}
            THEN {"STARTING_SCAN", "STARTING_STOP_SCAN"} ELSE {})
    \cup (IF state \in {"SCANNING", "LIDAR_ERROR"} THEN {"STOPPING"} ELSE {})

\* Between the watcher's operations the state tells whether the clients record.
SettledInv ==
    /\ wpc \notin Busy => /\ app_state \in OnStates => On
                          /\ app_state \in OffStates => Off
    /\ wpc \in {"unborn", "stopDir", "contDir"} => Off
    /\ wpc = "case" => /\ seen \in OnStates => On
                       /\ seen \in OffStates => Off
    /\ wpc \in Busy \cup {"case"} => app_state \in After(seen)

\* A decided request still fits what the clients do when it is written.
PendingInv ==
    \A t \in Threads :
        /\ pending[t] \in {"STARTING_SCAN", "STARTING_STOP_SCAN"} =>
             /\ app_state \in {"IDLE", "LIDAR_ERROR"} /\ wpc \notin Busy /\ Off
             /\ wpc = "case" => seen \in {"IDLE", "LIDAR_ERROR"}
        /\ pending[t] = "STOPPING" =>
             /\ app_state \in {"SCANNING", "LIDAR_ERROR"} /\ wpc # "startLog" /\ On
             /\ wpc \in Busy \cup {"case"} => seen \in {"SCANNING", "LIDAR_ERROR"}

\* How far the watcher has come: no client is dumped or stopped that does not record, except
\* the cameras that came later.
ProgressInv ==
    /\ wpc = "startLog" => \A c \in Clients : logging[c] => c < i
    /\ wpc \in {"dump", "stopLog"} => \A c \in Recorders : c <= last
    /\ wpc = "dump" => On
    /\ wpc = "stopLog" =>
         /\ 1..EarlyClients \subseteq dumped
         /\ \A c \in Recorders : c >= i => logging[c]
    /\ wpc = "save" => 1..EarlyClients \subseteq dumped
    /\ wpc \in {"save", "return"} /\ seen = "SCANNING" => On

RecordInv == SettledInv /\ PendingInv /\ ProgressInv /\ crash # "dump"

\* Every action keeps to it, as long as there is one requester: a request that is decided
\* is the only one, and app_state still allows it when it is written.
LEMMA RecordStep == ASSUME OneRequester, IInv, ClientsInv, RecordInv, Next PROVE RecordInv'
<1> USE EarlyAssumption, RecorderTypes
    DEF RecordInv, SettledInv, PendingInv, ProgressInv, ClientsInv, ShownInv, LoopsInv, RegisteredInv, On, Off, OnStates,
        OffStates, Busy, After, ScanStates, Clients, Camera, At, Alive, Case, notWatchers,
        flags, mains, clients, loop, IInv, TypeOK, SharedTypes, WatcherTypes,
        RecordingTypes, LoopInv, SeenInv
<1>1. CASE CreateDirectoryForStopScans
  <2>1. /\ wpc = "stopDir" /\ wpc' = "contDir"
        /\ app_state' \in {app_state, "USB_IO_ERROR"}
        /\ app_state \in {"WAIT_FOR_RESOURCES", "LIDAR_ERROR"}
        /\ UNCHANGED <<registered, mpc, pending, logging, dumped, i, last, seen, crash>>
    BY <1>1 DEF CreateDirectoryForStopScans, StateAfter, IInv, DirectoriesInv
  <2>2. SettledInv'
    BY <2>1
  <2>3. PendingInv'
    <3>1. \A t \in Threads : pending[t] = "none"
      BY <1>1 DEF CreateDirectoryForStopScans, IInv, DirectoriesInv, BothDirectories
    <3>2. QED
      BY <2>1, <3>1
  <2>4. ProgressInv'
    BY <2>1
  <2>5. crash' # "dump"
    BY <2>1
  <2>6. QED
    BY <2>2, <2>3, <2>4, <2>5 DEF RecordInv
<1>2. CASE CreateDirectoryForContinousScanning
  <2>1. /\ wpc = "contDir" /\ wpc' = "test"
        /\ app_state' \in {app_state, "USB_IO_ERROR"}
        /\ app_state \in {"WAIT_FOR_RESOURCES", "LIDAR_ERROR", "USB_IO_ERROR"}
        /\ UNCHANGED <<registered, mpc, pending, logging, dumped, i, last, seen, crash>>
    BY <1>2 DEF CreateDirectoryForContinousScanning, StateAfter, IInv, DirectoriesInv
  <2>2. SettledInv'
    BY <2>1
  <2>3. PendingInv'
    <3>1. \A t \in Threads : pending[t] = "none"
      BY <1>2 DEF CreateDirectoryForContinousScanning, IInv, DirectoriesInv, BothDirectories
    <3>2. QED
      BY <2>1, <3>1
  <2>4. ProgressInv'
    BY <2>1
  <2>5. crash' # "dump"
    BY <2>1
  <2>6. QED
    BY <2>2, <2>3, <2>4, <2>5 DEF RecordInv
<1>3. CASE TestRunning
  <2>1. /\ wpc = "test" /\ wpc' \in {"switch", "done"}
        /\ UNCHANGED <<app_state, registered, mpc, pending, logging, dumped, i, last, seen, crash>>
    BY <1>3 DEF TestRunning
  <2>2. SettledInv'
    BY <2>1
  <2>3. PendingInv'
    BY <2>1
  <2>4. ProgressInv'
    BY <2>1
  <2>5. crash' # "dump"
    BY <2>1
  <2>6. QED
    BY <2>2, <2>3, <2>4, <2>5 DEF RecordInv
<1>4. CASE Switch
  <2>1. /\ wpc = "switch" /\ wpc' = "case" /\ seen' = app_state
        /\ UNCHANGED <<app_state, registered, mpc, pending, logging, dumped, i, last, crash>>
    BY <1>4 DEF Switch
  <2>2. SettledInv'
    BY <2>1
  <2>3. PendingInv'
    BY <2>1
  <2>4. ProgressInv'
    BY <2>1
  <2>5. crash' # "dump"
    BY <2>1
  <2>6. QED
    BY <2>2, <2>3, <2>4, <2>5 DEF RecordInv
<1>5. CASE OnlyLeds
  <2>1. /\ wpc = "case" /\ wpc' = "test"
        /\ UNCHANGED <<app_state, registered, mpc, pending, logging, dumped, i, last, seen, crash>>
    BY <1>5 DEF OnlyLeds
  <2>2. SettledInv'
    BY <2>1
  <2>3. PendingInv'
    BY <2>1
  <2>4. ProgressInv'
    BY <2>1
  <2>5. crash' # "dump"
    BY <2>1
  <2>6. QED
    BY <2>2, <2>3, <2>4, <2>5 DEF RecordInv
<1>6. CASE WaitForResources
  <2>1. /\ wpc = "case" /\ wpc' = "test" /\ seen = "WAIT_FOR_RESOURCES"
        /\ app_state' \in {app_state, "IDLE"}
        /\ UNCHANGED <<registered, mpc, pending, logging, dumped, i, last, seen, crash>>
    BY <1>6 DEF WaitForResources
  <2>2. SettledInv'
    BY <2>1
  <2>3. PendingInv'
    BY <2>1
  <2>4. ProgressInv'
    BY <2>1
  <2>5. crash' # "dump"
    BY <2>1
  <2>6. QED
    BY <2>2, <2>3, <2>4, <2>5 DEF RecordInv
<1>7. CASE StartingStopScan
  <2>1. /\ wpc = "case" /\ wpc' = "test" /\ seen = "STARTING_STOP_SCAN"
        /\ app_state' = "STOP_SCAN_IN_INITIAL_PROGRESS"
        /\ UNCHANGED <<registered, mpc, pending, logging, dumped, i, last, seen, crash>>
    BY <1>7 DEF StartingStopScan
  <2>2. SettledInv'
    BY <2>1
  <2>3. PendingInv'
    BY <2>1
  <2>4. ProgressInv'
    BY <2>1
  <2>5. crash' # "dump"
    BY <2>1
  <2>6. QED
    BY <2>2, <2>3, <2>4, <2>5 DEF RecordInv
<1>8. CASE StopScanInProgress
  <2>1. /\ wpc = "case" /\ wpc' = "test" /\ seen = "STOP_SCAN_IN_PROGRESS"
        /\ app_state' = "STOPPING_STOP_SCAN"
        /\ UNCHANGED <<registered, mpc, pending, logging, dumped, i, last, seen, crash>>
    BY <1>8 DEF StopScanInProgress
  <2>2. SettledInv'
    BY <2>1
  <2>3. PendingInv'
    BY <2>1
  <2>4. ProgressInv'
    BY <2>1
  <2>5. crash' # "dump"
    BY <2>1
  <2>6. QED
    BY <2>2, <2>3, <2>4, <2>5 DEF RecordInv
<1>9. CASE StartAllLogs
  <2>1. /\ wpc = "case" /\ wpc' = "startLog" /\ i' = 1 /\ last' = registered
        /\ seen \in {"STARTING_SCAN", "STOP_SCAN_IN_INITIAL_PROGRESS"}
        /\ UNCHANGED <<app_state, registered, mpc, pending, logging, dumped, seen, crash>>
    BY <1>9 DEF StartAllLogs, OverClients
  <2>2. SettledInv'
    BY <2>1
  <2>3. PendingInv'
    BY <2>1
  <2>4. ProgressInv'
    BY <2>1
  <2>5. crash' # "dump"
    BY <2>1
  <2>6. QED
    BY <2>2, <2>3, <2>4, <2>5 DEF RecordInv
<1>10. CASE StartLog
  <2>1. /\ wpc = "startLog" /\ wpc' = wpc /\ i <= last /\ i' = i + 1
        /\ logging' = [logging EXCEPT ![i] = TRUE]
        /\ UNCHANGED <<app_state, registered, mpc, pending, dumped, last, seen, crash>>
    BY <1>10 DEF StartLog, ClientsLeft
  <2>2. SettledInv'
    BY <2>1
  <2>3. PendingInv'
    BY <2>1
  <2>4. ProgressInv'
    BY <2>1
  <2>5. crash' # "dump"
    BY <2>1
  <2>6. QED
    BY <2>2, <2>3, <2>4, <2>5 DEF RecordInv
<1>11. CASE AllLogsStarted
  <2>1. /\ wpc = "startLog" /\ wpc' = "test" /\ ~(i <= last)
        /\ app_state' \in {"SCANNING", "STOP_SCAN_IN_PROGRESS"}
        /\ UNCHANGED <<registered, mpc, pending, logging, dumped, i, last, seen, crash>>
    BY <1>11 DEF AllLogsStarted, ClientsLeft, StopScanStarted
  <2>2. SettledInv'
    BY <2>1
  <2>3. PendingInv'
    BY <2>1
  <2>4. ProgressInv'
    BY <2>1
  <2>5. crash' # "dump"
    BY <2>1
  <2>6. QED
    BY <2>2, <2>3, <2>4, <2>5 DEF RecordInv
<1>12. CASE SaveChunkToDisk
  <2>1. /\ wpc = "case" /\ wpc' = "dump" /\ i' = 1 /\ last' = registered
        /\ seen \in {"SCANNING", "STOPPING", "STOPPING_STOP_SCAN"}
        /\ UNCHANGED <<app_state, registered, mpc, pending, logging, dumped, seen, crash>>
    BY <1>12 DEF SaveChunkToDisk, OverClients, IInv, SeenInv,
                 Watching, ReadyStates, ScanStates, BothDirectories
  <2>2. SettledInv'
    BY <2>1
  <2>3. PendingInv'
    BY <2>1
  <2>4. ProgressInv'
    BY <2>1
  <2>5. crash' # "dump"
    BY <2>1
  <2>6. QED
    BY <2>2, <2>3, <2>4, <2>5 DEF RecordInv
<1>13. CASE DumpChunkInternally
  <2>1. /\ wpc = "dump" /\ wpc' = wpc /\ i <= last /\ i' = i + 1
        /\ dumped' = dumped \cup {i}
        /\ UNCHANGED <<app_state, registered, mpc, pending, logging, last, seen, crash>>
    <3>1. wpc = "dump" /\ i <= last /\ i \in 1..Camera
      BY <1>13 DEF DumpChunkInternally, ClientsLeft
    <3>2. i \in LivoxClients => logging[i]
      BY <3>1, LivoxAssumption
    <3>3. QED
      BY <1>13, <3>1, <3>2 DEF DumpChunkInternally
  <2>2. SettledInv'
    BY <2>1
  <2>3. PendingInv'
    BY <2>1
  <2>4. ProgressInv'
    BY <2>1
  <2>5. crash' # "dump"
    BY <2>1
  <2>6. QED
    BY <2>2, <2>3, <2>4, <2>5 DEF RecordInv
<1>14. CASE AllDumped
  <2>1. /\ wpc = "dump" /\ ~(i <= last)
        /\ \/ seen # "SCANNING" /\ wpc' = "stopLog" /\ i' = 1 /\ last' = registered
           \/ seen = "SCANNING" /\ wpc' = "save" /\ UNCHANGED <<i, last>>
        /\ UNCHANGED <<app_state, registered, mpc, pending, logging, dumped, seen, crash>>
    BY <1>14 DEF AllDumped, OverClients, ClientsLeft, StopsLogging
  <2>2. SettledInv'
    BY <2>1
  <2>3. PendingInv'
    BY <2>1
  <2>4. ProgressInv'
    BY <2>1
  <2>5. crash' # "dump"
    BY <2>1
  <2>6. QED
    BY <2>2, <2>3, <2>4, <2>5 DEF RecordInv
<1>15. CASE StopLog
  <2>1. /\ wpc = "stopLog" /\ wpc' = wpc /\ i <= last /\ i' = i + 1
        /\ logging' = [logging EXCEPT ![i] = FALSE]
        /\ UNCHANGED <<app_state, registered, mpc, pending, dumped, last, seen, crash>>
    BY <1>15 DEF StopLog, ClientsLeft
  <2>2. SettledInv'
    BY <2>1
  <2>3. PendingInv'
    BY <2>1
  <2>4. ProgressInv'
    BY <2>1
  <2>5. crash' # "dump"
    BY <2>1
  <2>6. QED
    BY <2>2, <2>3, <2>4, <2>5 DEF RecordInv
<1>16. CASE AllLogsStopped
  <2>1. /\ wpc = "stopLog" /\ wpc' = "save" /\ ~(i <= last)
        /\ UNCHANGED <<app_state, registered, mpc, pending, logging, dumped, i, last, seen, crash>>
    BY <1>16 DEF AllLogsStopped, ClientsLeft
  <2>2. SettledInv'
    BY <2>1
  <2>3. PendingInv'
    BY <2>1
  <2>4. ProgressInv'
    BY <2>1
  <2>5. crash' # "dump"
    BY <2>1
  <2>6. QED
    BY <2>2, <2>3, <2>4, <2>5 DEF RecordInv
<1>17. CASE SaveDumpedChunkToDirectory
  <2>1. /\ wpc = "save"
        /\ \/ wpc' = "return" /\ dumped' = {} /\ crash' = crash
           \/ wpc' = wpc /\ dumped' = dumped /\ crash' = "cameras"
        /\ UNCHANGED <<app_state, registered, mpc, pending, logging, i, last, seen>>
    BY <1>17 DEF SaveDumpedChunkToDirectory
  <2>2. SettledInv'
    BY <2>1
  <2>3. PendingInv'
    BY <2>1
  <2>4. ProgressInv'
    BY <2>1
  <2>5. crash' # "dump"
    BY <2>1
  <2>6. QED
    BY <2>2, <2>3, <2>4, <2>5 DEF RecordInv
<1>18. CASE SavingDone
  <2>1. /\ wpc = "return" /\ wpc' = "test"
        /\ app_state' = IF seen = "SCANNING" THEN app_state ELSE "IDLE"
        /\ seen \in {"SCANNING", "STOPPING", "STOPPING_STOP_SCAN"}
        /\ UNCHANGED <<registered, mpc, pending, logging, dumped, i, last, seen, crash>>
    BY <1>18 DEF SavingDone, StateAfterSave, IInv, SeenInv
  <2>2. SettledInv'
    BY <2>1
  <2>3. PendingInv'
    BY <2>1
  <2>4. ProgressInv'
    BY <2>1
  <2>5. crash' # "dump"
    BY <2>1
  <2>6. QED
    BY <2>2, <2>3, <2>4, <2>5 DEF RecordInv
<1>19. CASE InitializeStateMachineThread
  <2>1. /\ mpc = "watcher" /\ mpc' = "gpio" /\ wpc = "unborn" /\ wpc' = "stopDir"
        /\ UNCHANGED <<app_state, registered, pending, logging, dumped, i, last, seen, crash>>
    BY <1>19 DEF InitializeStateMachineThread, MainAt, IInv, StartupInv
  <2>2. SettledInv'
    BY <2>1
  <2>3. PendingInv'
    BY <2>1
  <2>4. ProgressInv'
    BY <2>1
  <2>5. crash' # "dump"
    BY <2>1
  <2>6. QED
    BY <2>2, <2>3, <2>4, <2>5 DEF RecordInv
<1>20. CASE InitializeCameraClientThread
  <2>1. /\ mpc = "cameras"
        /\ \/ mpc' = "body" /\ registered' = Camera /\ crash' \in {crash, "vector"}
           \/ UNCHANGED <<mpc, registered>> /\ crash' = "cameras"
        /\ UNCHANGED <<app_state, wpc, pending, logging, dumped, i, last, seen>>
    BY <1>20 DEF InitializeCameraClientThread, MainAt
  <2>2. SettledInv'
    BY <2>1
  <2>3. PendingInv'
    BY <2>1
  <2>4. ProgressInv'
    BY <2>1
  <2>5. crash' # "dump"
    BY <2>1
  <2>6. QED
    BY <2>2, <2>3, <2>4, <2>5 DEF RecordInv
<1>21. CASE MainBody
  <2>1. /\ mpc = "body" /\ mpc' = "test" /\ app_state' \in {app_state, "LIDAR_ERROR"}
        /\ UNCHANGED <<registered, wpc, pending, logging, dumped, i, last, seen, crash>>
    BY <1>21 DEF MainBody, MainAt, LidarGuardClause
  <2>2. SettledInv'
    BY <2>1
  <2>3. PendingInv'
    BY <2>1
  <2>4. ProgressInv'
    BY <2>1
  <2>5. crash' # "dump"
    BY <2>1
  <2>6. QED
    BY <2>2, <2>3, <2>4, <2>5 DEF RecordInv
<1>22. CASE InitializeGpioClientThread
  <2>1. /\ mpc = "gpio" /\ mpc' = "cameras"
        /\ UNCHANGED <<app_state, registered, wpc, pending, logging, dumped, i, last, seen, crash>>
    BY <1>22 DEF InitializeGpioClientThread, MainAt
  <2>2. SettledInv'
    BY <2>1
  <2>3. PendingInv'
    BY <2>1
  <2>4. ProgressInv'
    BY <2>1
  <2>5. crash' # "dump"
    BY <2>1
  <2>6. QED
    BY <2>2, <2>3, <2>4, <2>5 DEF RecordInv
<1>23. CASE MainTest
  <2>1. /\ mpc = "test" /\ mpc' \in {"body", "join"}
        /\ UNCHANGED <<app_state, registered, wpc, pending, logging, dumped, i, last, seen, crash>>
    BY <1>23 DEF MainTest, MainAt
  <2>2. SettledInv'
    BY <2>1
  <2>3. PendingInv'
    BY <2>1
  <2>4. ProgressInv'
    BY <2>1
  <2>5. crash' # "dump"
    BY <2>1
  <2>6. QED
    BY <2>2, <2>3, <2>4, <2>5 DEF RecordInv
<1>24. CASE JoinThreads
  <2>1. /\ mpc = "join" /\ mpc' = "exited"
        /\ UNCHANGED <<app_state, registered, wpc, pending, logging, dumped, i, last, seen, crash>>
    BY <1>24 DEF JoinThreads, MainAt
  <2>2. SettledInv'
    BY <2>1
  <2>3. PendingInv'
    BY <2>1
  <2>4. ProgressInv'
    BY <2>1
  <2>5. crash' # "dump"
    BY <2>1
  <2>6. QED
    BY <2>2, <2>3, <2>4, <2>5 DEF RecordInv
<1>25. ASSUME NEW t \in Threads, Request(t) PROVE RecordInv'
  <2>1. /\ \/ app_state = "IDLE" /\ \E to \in {"STARTING_SCAN", "STARTING_STOP_SCAN"} :
                                      pending' = [pending EXCEPT ![t] = to]
           \/ app_state = "SCANNING" /\ pending' = [pending EXCEPT ![t] = "STOPPING"]
        /\ Patient => mpc \in {"body", "test"}
        /\ UNCHANGED <<app_state, registered, mpc, wpc, logging, dumped, i, last, seen, crash>>
    BY <1>25 DEF Request, StartScan, StopScan, TriggerStopScan, TriggerContinousScanning, Decide,
                 MayRequest
  <2>2. app_state = "IDLE" => wpc \notin Busy /\ Off
    OBVIOUS
  <2>3. app_state = "SCANNING" => wpc # "startLog" /\ On
    OBVIOUS
  <2>4. SettledInv'
    BY <2>1
  <2>5. PendingInv'
    BY <2>1, <2>2, <2>3
  <2>6. ProgressInv'
    BY <2>1
  <2>7. QED
    BY <2>1, <2>4, <2>5, <2>6 DEF RecordInv
<1>26. ASSUME NEW t \in Threads, CommitRequest(t) PROVE RecordInv'
  <2>1. /\ pending[t] \in Requested /\ app_state' = pending[t]
        /\ pending' = [pending EXCEPT ![t] = "none"]
        /\ UNCHANGED <<registered, mpc, wpc, logging, dumped, i, last, seen, crash>>
    BY <1>26 DEF CommitRequest
  <2>2. \A u \in Threads : pending'[u] = "none"
    BY <1>26, <2>1 DEF OneRequester
  <2>3. SettledInv'
    BY <2>1 DEF Requested
  <2>4. PendingInv'
    BY <2>1, <2>2
  <2>5. ProgressInv'
    BY <2>1
  <2>6. QED
    BY <2>1, <2>3, <2>4, <2>5 DEF RecordInv
<1>27. ASSUME UNCHANGED <<app_state, registered, mpc, pending, logging, dumped, wpc, seen, i, last>>,
              crash' # "dump"
       PROVE  RecordInv'
  BY <1>27
<1>28. CASE \/ NullGpioClient \/ ImwriteThrows \/ LedDance \/ StopApplication
            \/ ChunkIntervalElapses \/ DeadlineElapses \/ MediaRemoved \/ Ended
  <2>1. /\ UNCHANGED <<app_state, registered, mpc, pending, logging, dumped, wpc, seen, i, last>>
        /\ crash' # "dump"
    BY <1>28 DEF NullGpioClient, ImwriteThrows, LedDance, StopApplication,
                 ChunkIntervalElapses, DeadlineElapses, MediaRemoved, Ended, vars
  <2>2. QED
    BY <1>27, <2>1
<1>29. QED
  BY <1>1, <1>2, <1>3, <1>4, <1>5, <1>6, <1>7, <1>8, <1>9, <1>10, <1>11, <1>12, <1>13, <1>14,
     <1>15, <1>16, <1>17, <1>18, <1>19, <1>20, <1>21, <1>22, <1>23, <1>24, <1>25, <1>26, <1>28
     DEF Next, Watcher, Main

\* A stuttering step changes nothing the invariant speaks of.
LEMMA RecordStuttering == RecordInv /\ UNCHANGED vars => RecordInv'
BY DEF vars, flags, mains, notWatchers, clients, loop, RecordInv, SettledInv, PendingInv,
       ProgressInv, On, Off

LEMMA RecordInitially == Init => RecordInv
<1> SUFFICES ASSUME Init PROVE RecordInv
  OBVIOUS
<1>1. Off
  BY DEF Init, Off
<1>2. SettledInv /\ ProgressInv
  BY <1>1 DEF Init, SettledInv, ProgressInv, Busy, OnStates, OffStates
<1>3. PendingInv
  BY DEF Init, PendingInv
<1>4. QED
  BY <1>2, <1>3 DEF Init, RecordInv

THEOREM RecordInvariance == ASSUME OneRequester PROVE Spec => []RecordInv
<1>1. Init => RecordInv
  BY RecordInitially
<1>2. IInv /\ ClientsInv /\ RecordInv /\ [Next]_vars => RecordInv'
  BY RecordStep, RecordStuttering
<1>3. QED
  BY <1>1, <1>2, Invariance, ClientsInvariance, PTL DEF Spec

\* With one requester no client's buffers are dumped that do not exist: the null pointers
\* of the lidar client (LivoxClient::dumpChunkInternally) are never read.
THEOREM BuffersExist == ASSUME OneRequester PROVE Spec => [](crash # "dump")
<1>1. RecordInv => crash # "dump"
  BY DEF RecordInv
<1>2. QED
  BY <1>1, RecordInvariance, PTL

\* With one requester no request gets lost: one that the watcher has not seen yet is not
\* overwritten, except by main's lidar error.
THEOREM RequestsReachTheWatcher ==
    ASSUME OneRequester
    PROVE  Spec => [][(app_state \in Requested) =>
                        \/ app_state' \in {app_state, "LIDAR_ERROR"}
                        \/ seen = app_state]_vars
<1> DEFINE Seen == (app_state \in Requested) =>
                     \/ app_state' \in {app_state, "LIDAR_ERROR"}
                     \/ seen = app_state
<1>1. ASSUME IInv, ClientsInv, RecordInv, [Next]_vars, app_state \in Requested PROVE Seen
  <2> USE <1>1 DEF Requested
  <2>1. /\ wpc \notin {"unborn", "stopDir", "contDir"}
        /\ \A t \in Threads : pending[t] = "none"
    BY DEF IInv, TypeOK, SharedTypes, DirectoriesInv, RecordInv, PendingInv
  <2>2. wpc \in Busy \cup {"case"} => app_state \in After(seen)
    BY DEF RecordInv, SettledInv
  <2>3. CASE WaitForResources \/ StopScanInProgress \/ StartingStopScan
    BY <2>2, <2>3 DEF WaitForResources, StopScanInProgress, StartingStopScan, Case, At, After
  <2>4. CASE AllLogsStarted
    BY <2>2, <2>4 DEF AllLogsStarted, At, After, Busy
  <2>5. CASE SaveChunkToDisk
    <3>1. BothDirectories /\ OutDirectory \in {"stop", "cont"}
      BY <2>5 DEF SaveChunkToDisk, Case, At, IInv, SeenInv, Watching, ReadyStates, ScanStates,
                  OutDirectory
    <3>2. QED
      BY <2>5, <3>1 DEF SaveChunkToDisk, BothDirectories
  <2>6. CASE SavingDone
    <3>1. wpc = "return" /\ seen \in {"SCANNING", "STOPPING", "STOPPING_STOP_SCAN"}
      BY <2>6 DEF SavingDone, At, IInv, SeenInv
    <3>2. CASE seen = "SCANNING"
      BY <2>6, <3>2 DEF SavingDone, StateAfterSave
    <3>3. CASE seen # "SCANNING"
      BY <2>2, <3>1, <3>3 DEF After, Busy
    <3>4. QED
      BY <3>2, <3>3
  <2>7. CASE MainBody
    BY <2>7 DEF MainBody
  <2>8. CASE app_state' = app_state
    BY <2>8
  <2>9. QED
    BY <2>1, <2>3, <2>4, <2>5, <2>6, <2>7, <2>8
       DEF Next, Watcher, Main, CreateDirectoryForStopScans,
           CreateDirectoryForContinousScanning, At, TestRunning, Switch, NullGpioClient,
           ImwriteThrows, OnlyLeds, StartAllLogs, StartLog, DumpChunkInternally, AllDumped, StopLog,
           AllLogsStopped, SaveDumpedChunkToDirectory, InitializeStateMachineThread,
           InitializeGpioClientThread, InitializeCameraClientThread, MainTest, JoinThreads,
           LedDance, StopApplication, ChunkIntervalElapses, DeadlineElapses, MediaRemoved,
           Request, StartScan, StopScan, TriggerStopScan, TriggerContinousScanning, Decide,
           CommitRequest, Ended, vars
<1>2. ASSUME IInv, ClientsInv, RecordInv, [Next]_vars PROVE Seen
  BY <1>1, <1>2
<1>3. QED
  BY <1>2, Invariance, ClientsInvariance, RecordInvariance, PTL DEF Spec

\* With one patient requester an exception of the cameras client is all that can end the
\* process, whatever the lidar, the drive and the threads do, unless it started without one
\* of its directories.
THEOREM ProcessSurvives ==
    ASSUME OneRequester, Patient
    PROVE  Spec => [](stopScanDirectory /\ continousScanDirectory => crash \in {"none", "cameras"})
<1>1. IInv /\ CrashInv /\ RecordInv =>
        (stopScanDirectory /\ continousScanDirectory => crash \in {"none", "cameras"})
  BY DEF IInv, TypeOK, RecordingTypes, LatchProtectsGpio, CrashInv, RecordInv
<1>2. QED
  BY <1>1, Invariance, CrashInvariance, RecordInvariance, PTL

-----------------------------------------------------------------------------
(* The controller implements ScanSession.                                  *)

LEMMA SessionInitially == Init => Session!Init
<1> SUFFICES ASSUME Init PROVE Session!Init
  OBVIOUS
<1>1. \A c \in 1..EarlyClients : ~logging[c]
  BY EarlyAssumption DEF Init, Clients, Camera
<1>2. dumped = {} /\ Len(saves) = 0
  BY EmptySeq DEF Init
<1>3. QED
  BY <1>1, <1>2 DEF Session!Init

\* Every step is a call that the session allows, or none.
LEMMA SessionStep ==
    ASSUME IInv, ClientsInv, RecordInv, [Next]_vars
    PROVE  [Session!Next]_(Session!vars)
<1> DEFINE Client == 1..EarlyClients
           Switched == {c \in Client : logging[c]}
           Held == dumped \cap Client
<1>1. /\ logging \in [Clients -> BOOLEAN] /\ dumped \subseteq Clients /\ i \in Nat
      /\ saves \in Seq(Chunk) /\ \A c \in Client : c \in Clients
  BY EarlyAssumption DEF IInv, TypeOK, RecordingTypes, WatcherTypes, Clients, Camera
<1>2. ASSUME UNCHANGED <<logging, dumped, saves>> PROVE UNCHANGED Session!vars
  BY <1>2 DEF Session!vars
<1>3. CASE StartLog
  <2>1. /\ wpc = "startLog" /\ logging' = [logging EXCEPT ![i] = TRUE]
        /\ UNCHANGED <<dumped, saves>>
    BY <1>3 DEF StartLog, At, outputs
  <2>2. dumped = {} /\ \A c \in Clients : logging[c] => c < i
    BY <2>1 DEF ClientsInv, LoopsInv, RecordInv, ProgressInv
  <2>3. CASE i \in Client
    <3>1. PICK c \in Client : c = i
      BY <2>3
    <3>2. c \notin Switched /\ c \notin Held /\ Switched' = Switched \cup {c} /\ Held' = Held
      BY <1>1, <2>1, <2>2, <2>3, <3>1
    <3>3. Session!Start(c)
      BY <2>1, <3>2 DEF Session!Start
    <3>4. QED
      BY <3>3 DEF Session!Next
  <2>4. CASE i \notin Client
    <3>1. Switched' = Switched /\ Held' = Held
      BY <1>1, <2>1, <2>4
    <3>2. QED
      BY <2>1, <3>1 DEF Session!vars
  <2>5. QED
    BY <2>3, <2>4
<1>4. CASE DumpChunkInternally
  <2>1. /\ wpc = "dump" /\ UNCHANGED <<logging, saves>>
        /\ dumped' = dumped \/ dumped' = dumped \cup {i}
    BY <1>4 DEF DumpChunkInternally, At, outputs
  <2>2. dumped = 1..(i - 1) /\ \A c \in Client : logging[c]
    BY <2>1, RecorderTypes DEF ClientsInv, LoopsInv, RecordInv, ProgressInv, On
  <2>3. CASE i \in Client /\ dumped' = dumped \cup {i}
    <3>1. PICK c \in Client : c = i
      BY <2>3
    <3>2. c \in Switched /\ c \notin Held /\ Switched' = Switched /\ Held' = Held \cup {c}
      BY <1>1, <2>1, <2>2, <2>3, <3>1
    <3>3. Session!Dump(c)
      BY <2>1, <3>2 DEF Session!Dump
    <3>4. QED
      BY <3>3 DEF Session!Next
  <2>4. CASE i \notin Client \/ dumped' = dumped
    <3>1. Switched' = Switched /\ Held' = Held
      BY <2>1, <2>4
    <3>2. QED
      BY <2>1, <3>1 DEF Session!vars
  <2>5. QED
    BY <2>1, <2>3, <2>4
<1>5. CASE StopLog
  <2>1. /\ wpc = "stopLog" /\ logging' = [logging EXCEPT ![i] = FALSE]
        /\ UNCHANGED <<dumped, saves>>
    BY <1>5 DEF StopLog, At, outputs
  <2>2. Client \subseteq dumped /\ \A c \in Client : c >= i => logging[c]
    BY <2>1, RecorderTypes DEF RecordInv, ProgressInv
  <2>3. CASE i \in Client
    <3>1. PICK c \in Client : c = i
      BY <2>3
    <3>2. c \in Switched /\ c \in Held /\ Switched' = Switched \ {c} /\ Held' = Held
      BY <1>1, <2>1, <2>2, <2>3, <3>1
    <3>3. Session!Stop(c)
      BY <2>1, <3>2 DEF Session!Stop
    <3>4. QED
      BY <3>3 DEF Session!Next
  <2>4. CASE i \notin Client
    <3>1. Switched' = Switched /\ Held' = Held
      BY <1>1, <2>1, <2>4
    <3>2. QED
      BY <2>1, <3>1 DEF Session!vars
  <2>5. QED
    BY <2>3, <2>4
<1>6. CASE SaveDumpedChunkToDirectory
  <2>1. /\ wpc = "save" /\ UNCHANGED logging
        /\ \/ UNCHANGED <<dumped, saves>>
           \/ /\ dumped' = {}
              /\ saves' = Append(saves, [dir |-> OutDirectory, chunk |-> ChunkNumber, ok |-> media])
    BY <1>6 DEF SaveDumpedChunkToDirectory, At
  <2>2. CASE UNCHANGED <<dumped, saves>>
    BY <1>2, <2>1, <2>2
  <2>3. CASE /\ dumped' = {}
             /\ saves' = Append(saves, [dir |-> OutDirectory, chunk |-> ChunkNumber, ok |-> media])
    <3>1. Client \subseteq dumped
      BY <2>1 DEF ClientsInv, LoopsInv, RecordInv, ProgressInv
    <3>2. Held = Client /\ Held' = {} /\ Switched' = Switched
      BY <2>1, <2>3, <3>1
    <3>3. Len(saves') = Len(saves) + 1
      BY <1>1, <2>3
    <3>4. Session!Write
      BY <3>2, <3>3 DEF Session!Write
    <3>5. QED
      BY <3>4 DEF Session!Next
  <2>4. QED
    BY <2>1, <2>2, <2>3
<1>7. CASE UNCHANGED <<logging, dumped, saves>>
  BY <1>2, <1>7
<1>8. QED
  BY <1>3, <1>4, <1>5, <1>6, <1>7, ClientsEffects

\* With one thread that requests scans, the controller calls its clients only in the order
\* in which none of them loses recorded data, whatever the drive, the lidar's error and the
\* start-up do in between.
THEOREM ImplementsSession == ASSUME OneRequester PROVE Spec => RefinesSession
<1>1. Init => Session!Init
  BY SessionInitially
<1>2. IInv /\ ClientsInv /\ RecordInv /\ [Next]_vars => [Session!Next]_(Session!vars)
  BY SessionStep
<1>3. QED
  BY <1>1, <1>2, Invariance, ClientsInvariance, RecordInvariance, PTL DEF Spec, RefinesSession, Session!Spec
=============================================================================
