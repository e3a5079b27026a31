-------------------------- MODULE StateManagement --------------------------
(***************************************************************************)
(* The controller of the scanner: the application state machine that       *)
(* stateWatcher() runs in its own thread (src/src/state_management.cpp),    *)
(* the request functions that HTTP workers, the GPIO callback thread and   *)
(* the command line call on the same plain variable app_state, and the     *)
(* start-up and shut-down sequence of main() (src/src/main.cpp).            *)
(*                                                                         *)
(* The initial state is the call of initializeStateMachineThread: the file *)
(* system, lidar and GNSS clients have been made and registered, the HTTP  *)
(* server is running, the watcher, the GPIO client and the cameras client  *)
(* are still to come.                                                      *)
(***************************************************************************)
EXTENDS Integers, Sequences, FiniteSets

CONSTANTS
    WebWorkers,     \* threads of the HTTP server (main.cpp:122 starts two)
    ButtonThreads,  \* the thread on which pigpio runs the button callbacks
    Consoles,       \* the command line, read by the main thread
    EarlyClients,   \* number of clients registered before the watcher starts
    LivoxClients,   \* those of them whose buffers exist only while logging
    DirOutcomes,    \* outcomes of creating a scan directory at start-up
    LidarErrors,    \* values of main's lidar_error
    MediaRemovable, \* can the USB drive disappear while the program runs?
    Patient,        \* do operators wait until the start-up is complete?
    MaxChunks       \* BOUND: no scan is requested or cut after this many chunks

Threads == WebWorkers \cup ButtonThreads \cup Consoles
Camera  == EarlyClients + 1   \* main.cpp:149 registers one client more
Clients == 1..Camera

ASSUME EarlyAssumption   == EarlyClients \in Nat
ASSUME LivoxAssumption   == LivoxClients \subseteq 1..EarlyClients
ASSUME BooleanAssumption ==
    /\ DirOutcomes \subseteq BOOLEAN
    /\ LidarErrors \subseteq BOOLEAN
    /\ MediaRemovable \in BOOLEAN
    /\ Patient \in BOOLEAN
ASSUME MaxAssumption     == MaxChunks \in Nat

States == {"WAIT_FOR_RESOURCES", "IDLE", "STARTING_SCAN", "SCANNING", "STOPPING",
           "STARTING_STOP_SCAN", "STOP_SCAN_IN_INITIAL_PROGRESS",
           "STOP_SCAN_IN_PROGRESS", "STOPPING_STOP_SCAN",
           "LIDAR_ERROR", "USB_IO_ERROR"}

\* The states only a scan passes through.
ScanStates == {"STARTING_SCAN", "SCANNING", "STOPPING", "STARTING_STOP_SCAN",
               "STOP_SCAN_IN_INITIAL_PROGRESS", "STOP_SCAN_IN_PROGRESS",
               "STOPPING_STOP_SCAN"}

\* The states a request may be about to write.
Requested == {"STARTING_SCAN", "STOPPING", "STARTING_STOP_SCAN"}

VARIABLES
    app_state,            \* the shared state, neither atomic nor locked
    isRunning,
    initializationLatch,  \* start-up steps the watcher still waits for
    gpioClientPtr,        \* TRUE once the GPIO client exists
    mpc,                  \* where main() is
    dance,                \* the thread that blinks the LEDs and opens the latch
    lidar_error,
    registered,           \* clients in saveableClients and loggerClients
    pending,              \* per thread: the state it has decided to write
    logging,              \* per client: between startLog() and stopLog()
    dumped,               \* clients that hold a dump not yet written to disk
    wpc,                  \* where the watcher is
    seen,                 \* the value of app_state the switch branched on
    i, last,              \* position and end of the loop over the clients
    stopScanDirectory, continousScanDirectory,      \* TRUE when not empty
    chunksInExperimentCS, chunksInExperimentSS,
    chunkDue,             \* more than 10 s since chunkStart
    deadlines,            \* stop scan deadlines passed: 0, the initial one, both
    media,                \* the USB drive is mounted
    saves,                \* history: the chunks written, in order
    crash                 \* "none", or what ended the process

flags   == <<isRunning, initializationLatch, gpioClientPtr>>
mains   == <<mpc, dance, lidar_error, registered>>
notWatchers == <<flags, mains, pending>>    \* what the watcher never writes
clients == <<logging, dumped>>
loop    == <<seen, i, last>>
dirs    == <<stopScanDirectory, continousScanDirectory>>
counts  == <<chunksInExperimentCS, chunksInExperimentSS>>
clocks  == <<chunkDue, deadlines>>
outputs == <<media, saves>>
vars    == <<app_state, notWatchers, clients, wpc, loop, dirs, counts, clocks, outputs, crash>>

Watching == {"test", "switch", "case", "startLog", "dump", "stopLog", "save", "return"}

\* One chunk on the drive: its directory, its number, whether it was written.
Chunk == [dir : {"cont", "stop"}, chunk : Nat, ok : BOOLEAN]

\* What the variables may hold; a negative latch would never open again.
SharedTypes ==
    /\ app_state \in States
    /\ isRunning \in BOOLEAN
    /\ initializationLatch \in 0..1
    /\ gpioClientPtr \in BOOLEAN
    /\ mpc \in {"watcher", "gpio", "cameras", "body", "test", "join", "exited"}
    /\ dance \in {"unborn", "blinking", "done"}
    /\ lidar_error \in BOOLEAN
    /\ registered \in EarlyClients..Camera
    /\ pending \in [Threads -> Requested \cup {"none"}]

WatcherTypes ==
    /\ wpc \in Watching \cup {"unborn", "stopDir", "contDir", "done"}
    /\ seen \in States
    /\ i \in 1..Camera + 1
    /\ last \in 0..Camera
    /\ stopScanDirectory \in BOOLEAN /\ continousScanDirectory \in BOOLEAN
    /\ chunkDue \in BOOLEAN
    /\ deadlines \in 0..2

RecordingTypes ==
    /\ logging \in [Clients -> BOOLEAN]
    /\ dumped \subseteq Clients
    /\ chunksInExperimentCS \in Nat /\ chunksInExperimentSS \in Nat
    /\ media \in BOOLEAN
    /\ saves \in Seq(Chunk)
    /\ crash \in {"none", "gpio", "dump", "vector", "cameras"}

TypeOK == SharedTypes /\ WatcherTypes /\ RecordingTypes

Init ==
    /\ app_state = "WAIT_FOR_RESOURCES"
    /\ isRunning = TRUE
    /\ initializationLatch = 1
    /\ gpioClientPtr = FALSE
    /\ mpc = "watcher"
    /\ dance = "unborn"
    /\ lidar_error \in LidarErrors
    /\ registered = EarlyClients
    /\ pending = [t \in Threads |-> "none"]
    /\ logging = [c \in Clients |-> FALSE]
    /\ dumped = {}
    /\ wpc = "unborn"
    /\ seen = "IDLE"
    /\ i = 1 /\ last = 0
    /\ stopScanDirectory = FALSE /\ continousScanDirectory = FALSE
    /\ chunksInExperimentCS = 0 /\ chunksInExperimentSS = 0
    /\ chunkDue = TRUE    \* chunkStart and the deadlines start at the epoch
    /\ deadlines = 2
    /\ media = TRUE
    /\ saves = << >>
    /\ crash = "none"

-----------------------------------------------------------------------------
(* Nothing happens after the process has crashed or exited.                *)

Alive == crash = "none" /\ mpc # "exited"
At(pc) == Alive /\ wpc = pc
MainAt(pc) == Alive /\ mpc = pc

-----------------------------------------------------------------------------
(* The request functions. Each reads app_state and, in a step of its own,  *)
(* writes it: other threads may run in between.                            *)

ChunkNumber == chunksInExperimentCS + chunksInExperimentSS

\* A thread that may now call a request function: HTTP workers from the start until
\* the server is shut down, the buttons once GpioClient is made, the command line
\* inside main's loop.
MayRequest(t) ==
    /\ Alive
    /\ pending[t] = "none"
    /\ ChunkNumber < MaxChunks
    /\ Patient => mpc \in {"body", "test"}
    /\ \/ t \in WebWorkers /\ mpc # "join"
       \/ t \in ButtonThreads /\ gpioClientPtr
       \/ t \in Consoles /\ mpc = "body" /\ ~lidar_error

Decide(t, from, to) ==
    /\ MayRequest(t)
    /\ app_state = from
    /\ pending' = [pending EXCEPT ![t] = to]
    /\ UNCHANGED <<app_state, flags, mains, clients, wpc, loop, dirs, counts, clocks,
                   outputs, crash>>

StartScan(t) == t \notin ButtonThreads /\ Decide(t, "IDLE", "STARTING_SCAN")

StopScan(t) == t \notin ButtonThreads /\ Decide(t, "SCANNING", "STOPPING")

TriggerStopScan(t) == t \notin Consoles /\ Decide(t, "IDLE", "STARTING_STOP_SCAN")

TriggerContinousScanning(t) ==
    /\ t \in ButtonThreads
    /\ \/ Decide(t, "IDLE", "STARTING_SCAN")
       \/ Decide(t, "SCANNING", "STOPPING")

\* The assignment to app_state after the test has succeeded.
CommitRequest(t) ==
    /\ Alive /\ pending[t] # "none"
    /\ app_state' = pending[t]
    /\ pending' = [pending EXCEPT ![t] = "none"]
    /\ UNCHANGED <<flags, mains, clients, wpc, loop, dirs, counts, clocks, outputs, crash>>

Request(t) ==
    \/ StartScan(t)
    \/ StopScan(t)
    \/ TriggerStopScan(t)
    \/ TriggerContinousScanning(t)

-----------------------------------------------------------------------------
(* The watcher thread before its loop: the two scan directories.           *)

\* Mutant of StateAfter: a failure is not noticed.
FailureIgnored(made) == app_state
StateAfter(made) == IF made THEN app_state ELSE "USB_IO_ERROR"

CreateDirectoryForStopScans ==
    /\ At("stopDir")
    /\ wpc' = "contDir"
    /\ \E made \in DirOutcomes :
         /\ stopScanDirectory' = made
         /\ app_state' = StateAfter(made)
    /\ UNCHANGED <<notWatchers, clients, loop, continousScanDirectory, counts, clocks,
                   outputs, crash>>

CreateDirectoryForContinousScanning ==
    /\ At("contDir")
    /\ wpc' = "test"
    /\ \E made \in DirOutcomes :
         /\ continousScanDirectory' = made
         /\ app_state' = StateAfter(made)
    /\ UNCHANGED <<notWatchers, clients, loop, stopScanDirectory, counts, clocks, outputs,
                   crash>>

-----------------------------------------------------------------------------
(* One round of the watcher's loop: the test of isRunning, the read of      *)
(* app_state, and the case it selects.                                     *)

\* Mutant of LoopContinues: while (true).
LoopForever == TRUE
LoopContinues == isRunning

TestRunning ==
    /\ At("test")
    /\ wpc' = IF LoopContinues THEN "switch" ELSE "done"
    /\ UNCHANGED <<app_state, notWatchers, clients, loop, dirs, counts, clocks, outputs,
                   crash>>

Switch ==
    /\ At("switch")
    /\ wpc' = "case"
    /\ seen' = app_state
    /\ UNCHANGED <<app_state, notWatchers, clients, i, last, dirs, counts, clocks, outputs,
                   crash>>

\* Every case except these drives an LED through gpioClientPtr.
WithoutLeds == {"WAIT_FOR_RESOURCES", "STOP_SCAN_IN_PROGRESS"}

Case(state) == At("case") /\ seen = state /\ (state \notin WithoutLeds => gpioClientPtr)

\* The LED of a client that does not exist yet: a null pointer is dereferenced.
NullGpioClient ==
    /\ At("case") /\ seen \notin WithoutLeds /\ ~gpioClientPtr
    /\ crash' = "gpio"
    /\ UNCHANGED <<app_state, notWatchers, clients, wpc, loop, dirs, counts, clocks,
                   outputs>>

\* The case only blinks or sleeps.
OnlyLeds ==
    /\ \/ \E state \in {"LIDAR_ERROR", "USB_IO_ERROR", "IDLE"} : Case(state)
       \/ Case("SCANNING") /\ ~chunkDue
       \/ Case("STOP_SCAN_IN_INITIAL_PROGRESS") /\ deadlines = 0
       \/ Case("STOP_SCAN_IN_PROGRESS") /\ deadlines < 2
    /\ wpc' = "test"
    /\ UNCHANGED <<app_state, notWatchers, clients, loop, dirs, counts, clocks, outputs,
                   crash>>

\* Mutant of ResourcesReady: nothing is waited for.
NothingToWaitFor == TRUE
\* Mutant of ResourcesReady: the server is waited for too, but nobody counts it down.
OneStepTooMany == initializationLatch = -1
ResourcesReady == initializationLatch = 0

WaitForResources ==
    /\ Case("WAIT_FOR_RESOURCES")
    /\ app_state' = IF ResourcesReady THEN "IDLE" ELSE app_state
    /\ wpc' = "test"
    /\ UNCHANGED <<notWatchers, clients, loop, dirs, counts, clocks, outputs, crash>>

\* Mutant of OverClients: the client registered last is left out.
OverFirstClients(pc) == wpc' = pc /\ i' = 1 /\ last' = registered - 1
\* Mutant of OverClients: the dump leaves the last client out.
NotAllDumped(pc) ==
    /\ wpc' = pc /\ i' = 1
    /\ last' = IF pc = "dump" THEN registered - 1 ELSE registered
\* for (auto& client : ...) evaluates begin() and end() once.
OverClients(pc) == wpc' = pc /\ i' = 1 /\ last' = registered

\* Mutant of ClientsLeft: the loop ends one client too early.
FewerClientsLeft == i < last
ClientsLeft == i <= last

StartAllLogs ==
    /\ \/ Case("STARTING_SCAN")
       \/ Case("STOP_SCAN_IN_INITIAL_PROGRESS") /\ deadlines > 0
    /\ OverClients("startLog")
    /\ UNCHANGED <<app_state, notWatchers, clients, seen, dirs, counts, clocks, outputs,
                   crash>>

StartLog ==
    /\ At("startLog") /\ ClientsLeft
    /\ logging' = [logging EXCEPT ![i] = TRUE]
    /\ i' = i + 1
    /\ UNCHANGED <<app_state, notWatchers, dumped, wpc, seen, last, dirs, counts, clocks,
                   outputs, crash>>

\* Mutant of StopScanStarted: a stop scan goes on as a continuous scan.
ContinousScanStarted == "SCANNING"
StopScanStarted == "STOP_SCAN_IN_PROGRESS"

AllLogsStarted ==
    /\ At("startLog") /\ ~ClientsLeft
    /\ wpc' = "test"
    /\ \/ /\ seen = "STARTING_SCAN"
          /\ app_state' = "SCANNING"
          /\ chunkDue' = FALSE
       \/ /\ seen = "STOP_SCAN_IN_INITIAL_PROGRESS"
          /\ app_state' = StopScanStarted
          /\ UNCHANGED chunkDue
    /\ UNCHANGED <<notWatchers, clients, loop, dirs, counts, deadlines, outputs, crash>>

StartingStopScan ==
    /\ Case("STARTING_STOP_SCAN")
    /\ deadlines' = 0
    /\ app_state' = "STOP_SCAN_IN_INITIAL_PROGRESS"
    /\ wpc' = "test"
    /\ UNCHANGED <<notWatchers, clients, loop, dirs, counts, chunkDue, outputs, crash>>

StopScanInProgress ==
    /\ Case("STOP_SCAN_IN_PROGRESS") /\ deadlines = 2
    /\ app_state' = "STOPPING_STOP_SCAN"
    /\ wpc' = "test"
    /\ UNCHANGED <<notWatchers, clients, loop, dirs, counts, clocks, outputs, crash>>

-----------------------------------------------------------------------------
(* saveChunkToDisk, called by three cases. The chunk's directory, number   *)
(* and stopScan argument follow from the case.                             *)

OutDirectory == IF seen = "STOPPING_STOP_SCAN" THEN "stop" ELSE "cont"
\* Mutant of StopsLogging: the argument is forgotten in the stop scan's case.
StopsContinousOnly == seen = "STOPPING"
StopsLogging == seen # "SCANNING"

SaveChunkToDisk ==
    /\ \/ Case("SCANNING") /\ chunkDue
       \/ Case("STOPPING")
       \/ Case("STOPPING_STOP_SCAN")
    /\ chunkDue' = IF seen = "SCANNING" THEN FALSE ELSE chunkDue
    /\ IF (IF OutDirectory = "stop" THEN stopScanDirectory ELSE continousScanDirectory)
         THEN OverClients("dump") /\ UNCHANGED app_state
         ELSE app_state' = "USB_IO_ERROR" /\ wpc' = "test" /\ UNCHANGED <<i, last>>
    /\ UNCHANGED <<notWatchers, clients, seen, dirs, counts, deadlines, outputs, crash>>

\* A Livox client that is not logging has no buffers: its dump reads a null pointer.
DumpChunkInternally ==
    /\ At("dump") /\ ClientsLeft
    /\ IF i \in LivoxClients /\ ~logging[i]
         THEN crash' = "dump" /\ UNCHANGED <<i, dumped>>
         ELSE i' = i + 1 /\ dumped' = dumped \cup {i} /\ UNCHANGED crash
    /\ UNCHANGED <<app_state, notWatchers, logging, wpc, seen, last, dirs, counts, clocks,
                   outputs>>

AllDumped ==
    /\ At("dump") /\ ~ClientsLeft
    /\ IF StopsLogging THEN OverClients("stopLog") ELSE wpc' = "save" /\ UNCHANGED <<i, last>>
    /\ UNCHANGED <<app_state, notWatchers, clients, seen, dirs, counts, clocks, outputs,
                   crash>>

StopLog ==
    /\ At("stopLog") /\ ClientsLeft
    /\ logging' = [logging EXCEPT ![i] = FALSE]
    /\ i' = i + 1
    /\ UNCHANGED <<app_state, notWatchers, dumped, wpc, seen, last, dirs, counts, clocks,
                   outputs, crash>>

AllLogsStopped ==
    /\ At("stopLog") /\ ~ClientsLeft
    /\ wpc' = "save"
    /\ UNCHANGED <<app_state, notWatchers, clients, loop, dirs, counts, clocks, outputs,
                   crash>>

\* The clients write their files in parallel. Without the drive each of them fails and
\* only says so on stderr, except the cameras client, which may throw in the parallel
\* for_each: its directory cannot be made, or an image that it has put aside for the chunk
\* never became a file (a full drive, an empty image) and cannot be renamed.
SaveDumpedChunkToDirectory ==
    /\ At("save")
    /\ \/ /\ wpc' = "return"
          /\ saves' = Append(saves, [dir |-> OutDirectory, chunk |-> ChunkNumber, ok |-> media])
          /\ dumped' = {}
          /\ UNCHANGED crash
       \/ /\ registered = Camera
          /\ ~media \/ Camera \in dumped
          /\ crash' = "cameras"
          /\ UNCHANGED <<wpc, saves, dumped>>
    /\ UNCHANGED <<app_state, notWatchers, logging, loop, dirs, counts, clocks, media>>

\* Mutant of StateAfterSave: a periodic save goes back to scanning.
PeriodicSaveResumes == IF seen = "SCANNING" THEN "SCANNING" ELSE "IDLE"
StateAfterSave == IF seen = "SCANNING" THEN app_state ELSE "IDLE"

\* Mutant of CountChunk: a chunk of a stop scan is not counted.
StopScansNotCounted ==
    /\ chunksInExperimentCS' = chunksInExperimentCS + (IF OutDirectory = "cont" THEN 1 ELSE 0)
    /\ UNCHANGED chunksInExperimentSS
CountChunk ==
    /\ chunksInExperimentCS' = chunksInExperimentCS + (IF OutDirectory = "cont" THEN 1 ELSE 0)
    /\ chunksInExperimentSS' = chunksInExperimentSS + (IF OutDirectory = "stop" THEN 1 ELSE 0)

\* saveChunkToDisk has returned true, whatever became of the files.
SavingDone ==
    /\ At("return")
    /\ wpc' = "test"
    /\ CountChunk
    /\ app_state' = StateAfterSave
    /\ UNCHANGED <<notWatchers, clients, loop, dirs, clocks, outputs, crash>>

\* imwrite throws in the cameras client's thread, which handles no exceptions: while images
\* are taken, or later, while those of earlier chunks still wait to be written.
ImwriteThrows ==
    /\ Alive /\ registered = Camera
    /\ logging[Camera] \/ Camera \in dumped \/ saves # << >>
    /\ crash' = "cameras"
    /\ UNCHANGED <<app_state, notWatchers, clients, wpc, loop, dirs, counts, clocks, outputs>>

Watcher ==
    \/ CreateDirectoryForStopScans \/ CreateDirectoryForContinousScanning
    \/ TestRunning \/ Switch \/ NullGpioClient \/ OnlyLeds \/ WaitForResources
    \/ StartAllLogs \/ StartLog \/ AllLogsStarted
    \/ StartingStopScan \/ StopScanInProgress
    \/ SaveChunkToDisk \/ DumpChunkInternally \/ AllDumped
    \/ StopLog \/ AllLogsStopped \/ SaveDumpedChunkToDirectory \/ SavingDone

-----------------------------------------------------------------------------
(* main(): start the threads, run the command line, stop and join.         *)

InitializeStateMachineThread ==
    /\ MainAt("watcher")
    /\ mpc' = "gpio"
    /\ wpc' = "stopDir"
    /\ UNCHANGED <<app_state, flags, dance, lidar_error, registered, pending, clients, loop,
                   dirs, counts, clocks, outputs, crash>>

InitializeGpioClientThread ==
    /\ MainAt("gpio")
    /\ mpc' = "cameras"
    /\ gpioClientPtr' = TRUE
    /\ dance' = "blinking"
    /\ UNCHANGED <<app_state, isRunning, initializationLatch, lidar_error, registered,
                   pending, clients, wpc, loop, dirs, counts, clocks, outputs, crash>>

\* Mutant of DanceEnds: the thread starts over.
DanceRepeats == UNCHANGED dance
DanceEnds == dance' = "done"

\* The LED dance is over: the latch opens.
LedDance ==
    /\ Alive /\ dance = "blinking"
    /\ DanceEnds
    /\ initializationLatch' = initializationLatch - 1
    /\ UNCHANGED <<app_state, isRunning, gpioClientPtr, mpc, lidar_error, registered,
                   pending, clients, wpc, loop, dirs, counts, clocks, outputs, crash>>

\* push_back on the two vectors. The watcher does not take clientsMutex: a loop it is
\* in continues over freed memory, which may or may not end the process. The constructor
\* throws if the directory for its images cannot be made, and asserts a resolution.
InitializeCameraClientThread ==
    /\ MainAt("cameras")
    /\ \/ /\ mpc' = "body"
          /\ registered' = Camera
          /\ \/ UNCHANGED crash
             \/ wpc \in {"startLog", "dump", "stopLog", "save"} /\ crash' = "vector"
       \/ crash' = "cameras" /\ UNCHANGED <<mpc, registered>>
    /\ UNCHANGED <<app_state, flags, dance, lidar_error, pending, clients, wpc, loop, dirs,
                   counts, clocks, outputs>>

\* Mutant of LidarGuardClause: the error is reported only during the start-up.
LidarErrorOnce == lidar_error /\ app_state = "WAIT_FOR_RESOURCES"
LidarGuardClause == lidar_error

MainBody ==
    /\ MainAt("body")
    /\ \A t \in Consoles : pending[t] = "none"
    /\ mpc' = "test"
    /\ app_state' = IF LidarGuardClause THEN "LIDAR_ERROR" ELSE app_state
    /\ UNCHANGED <<flags, dance, lidar_error, registered, pending, clients, wpc, loop, dirs,
                   counts, clocks, outputs, crash>>

MainTest ==
    /\ MainAt("test")
    /\ mpc' = IF isRunning THEN "body" ELSE "join"
    /\ UNCHANGED <<app_state, flags, dance, lidar_error, registered, pending, clients, wpc,
                   loop, dirs, counts, clocks, outputs, crash>>

\* SIGINT, or 'q' on the command line.
StopApplication ==
    /\ Alive /\ mpc \in {"body", "test"}
    /\ isRunning
    /\ isRunning' = FALSE
    /\ UNCHANGED <<app_state, initializationLatch, gpioClientPtr, mains, pending, clients,
                   wpc, loop, dirs, counts, clocks, outputs, crash>>

\* server->shutdown(), then join() of every thread in the map.
JoinThreads ==
    /\ MainAt("join")
    /\ wpc = "done" /\ dance = "done"
    /\ \A t \in WebWorkers : pending[t] = "none"
    /\ mpc' = "exited"
    /\ UNCHANGED <<app_state, flags, dance, lidar_error, registered, pending, clients, wpc,
                   loop, dirs, counts, clocks, outputs, crash>>

Main ==
    \/ InitializeStateMachineThread \/ InitializeGpioClientThread
    \/ InitializeCameraClientThread \/ MainBody \/ MainTest \/ JoinThreads

-----------------------------------------------------------------------------
(* Time and the drive.                                                     *)

ChunkIntervalElapses ==
    /\ Alive /\ app_state = "SCANNING" /\ ~chunkDue
    /\ ChunkNumber < MaxChunks
    /\ chunkDue' = TRUE
    /\ UNCHANGED <<app_state, notWatchers, clients, wpc, loop, dirs, counts, deadlines,
                   outputs, crash>>

DeadlineElapses ==
    /\ Alive /\ deadlines < 2
    /\ deadlines' = deadlines + 1
    /\ UNCHANGED <<app_state, notWatchers, clients, wpc, loop, dirs, counts, chunkDue,
                   outputs, crash>>

MediaRemoved ==
    /\ Alive /\ MediaRemovable /\ media
    /\ media' = FALSE
    /\ UNCHANGED <<app_state, notWatchers, clients, wpc, loop, dirs, counts, clocks, saves,
                   crash>>

\* The process has exited or was killed.
Ended == ~Alive /\ UNCHANGED vars

Next ==
    \/ Watcher
    \/ Main
    \/ ImwriteThrows
    \/ LedDance
    \/ StopApplication
    \/ ChunkIntervalElapses
    \/ DeadlineElapses
    \/ MediaRemoved
    \/ \E t \in Threads : Request(t) \/ CommitRequest(t)
    \/ Ended

Spec == Init /\ [][Next]_vars

\* Every thread is scheduled, time passes; nobody has to ask for a scan or for the end.
Fairness ==
    /\ WF_vars(Watcher)
    /\ WF_vars(Main)
    /\ WF_vars(LedDance)
    /\ WF_vars(DeadlineElapses)
    /\ \A t \in Threads : WF_vars(CommitRequest(t))

FairSpec == Spec /\ Fairness

-----------------------------------------------------------------------------
(* Properties that hold however many threads request scans.                *)

\* Chunk files are named by directory and chunk number: two saves with the same
\* directory and number would overwrite each other. The number that saveChunkToDisk
\* gets, the sum of the two counters, grows from each save to the next.
ChunksNeverOverwritten ==
    \A m, n \in 1..Len(saves) : m < n => saves[m].chunk < saves[n].chunk

\* Each counter is the number of chunks in its own directory, less the one whose save
\* has returned but is not counted yet.
CountersMatchSaves ==
    /\ Len(saves) = ChunkNumber + (IF wpc = "return" THEN 1 ELSE 0)
    /\ \A n \in 1..Len(saves) : saves[n].chunk = n - 1

\* The controller scans only if both scan directories could be made at start-up: the
\* branch of saveChunkToDisk for an empty directory is never taken.
ScanOnlyWithDirectories ==
    app_state \in ScanStates => stopScanDirectory /\ continousScanDirectory

\* The latch keeps the watcher from gpioClientPtr until the client exists, unless a
\* directory could not be made.
LatchProtectsGpio ==
    crash = "gpio" => ~(stopScanDirectory /\ continousScanDirectory)

\* Back in the ready state nothing is recording, however late the requests were
\* written: the buffers do not grow.
IdleRecordsNothing ==
    app_state = "IDLE" => \A c \in Clients : ~logging[c]

\* While the device indicates a running scan, every client records; this needs operators
\* who wait for the cameras.
AllClientsRecord ==
    app_state \in {"SCANNING", "STOP_SCAN_IN_PROGRESS"} => \A c \in Clients : logging[c]

\* saveChunkToDisk dumps before it stops, and writes what it has dumped: no client is
\* stopped without a dump, no dump is given up without a chunk.
NothingDumpedIsLost ==
    [][\A c \in Clients :
         /\ logging[c] /\ ~logging'[c] => c \in dumped
         /\ c \in dumped /\ c \notin dumped' => Len(saves') = Len(saves) + 1]_vars

-----------------------------------------------------------------------------
(* A property that needs requests to come from one thread.                 *)

\* The controller keeps to the order of calls that loses no recorded data.
Session == INSTANCE ScanSession WITH
    Client  <- 1..EarlyClients,
    on      <- {c \in 1..EarlyClients : logging[c]},
    dumped  <- dumped \cap 1..EarlyClients,
    written <- Len(saves)

RefinesSession == Session!Spec

-----------------------------------------------------------------------------
(* Liveness.                                                               *)

\* What excuses every thread: the process was asked to end, or the cameras client threw.
Ending == ~isRunning \/ crash = "cameras"

\* The device becomes ready.
BecomesReady == (app_state = "WAIT_FOR_RESOURCES") ~> (app_state = "IDLE" \/ Ending)

\* A continuous scan that is being stopped ends in the ready state.
StoppingReachesReady == (app_state = "STOPPING") ~> (app_state = "IDLE" \/ Ending)

\* A stop scan ends by itself in the ready state.
StopScanReachesReady == (app_state = "STARTING_STOP_SCAN") ~> (app_state = "IDLE" \/ Ending)

\* Once asked to stop, main joins every thread and exits.
ShutdownCompletes == ~isRunning ~> (mpc = "exited" \/ crash = "cameras")

\* Whatever the watcher writes, a lidar error is shown again and again.
LidarErrorReasserted ==
    lidar_error => []<>(app_state = "LIDAR_ERROR" \/ ~isRunning \/ crash # "none")
=============================================================================
