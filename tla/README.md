# Verification of the MANDEYE DEV controller

TLA+ models, TLC configurations and TLAPS proofs for `mandeye_controller`, the program
that runs on the Raspberry Pi of a MANDEYE DEV hand-held scanner: it records Livox lidar
points, IMU samples, GNSS sentences and camera images in chunks on a USB drive, is
operated by two buttons, a web page and a command line, and shows its state on LEDs.
Paths below are relative to the repository.

## 1. The system

The process is a set of threads around a few global variables
(`src/state_management.cpp:18-27`):

| thread | started at | code |
|---|---|---|
| main | – | `src/main.cpp`: start-up, command line, shutdown |
| state watcher | `main.cpp:42` | `stateWatcher()`: the application state machine |
| 2 HTTP workers | `main.cpp:122` | `include/web/ServerHandler.h` |
| button alerts | pigpio | `GpioClient::btnCallback` |
| LED dance | `main.cpp:99` | blinks, then opens `initializationLatch` |
| lidar callbacks, lidar watch | Livox SDK, `LivoxClient.cpp:78` | point, IMU and info callbacks, `testThread` |
| GNSS | serial library | `GnssClient::worker` |
| images grabber, images writer | `CamerasClient.cpp:33-34` | a producer and a consumer around `BlockingQueue` |

### Components, their state, operations and correctness

**State machine** (`src/state_management.cpp`, `include/state_management.h`). State:
`app_state` (a plain variable written by four kinds of threads), the latch,
`isRunning`, the client vectors, two directory names, two chunk counters, clocks.
Operations: `StartScan`, `StopScan`, `TriggerStopScan`, `TriggerContinousScanning`, the
cases of `stateWatcher`, `saveChunkToDisk`. Hard: no lock protects `app_state`, so every
request is a read followed by a write; `clientsMutex` exists but the watcher does not
take it; the GPIO and cameras clients appear while the watcher runs. Correct when: no
chunk overwrites another, counters agree with the drive, clients are told to start, dump,
stop and write in an order that loses no data, every accepted scan ends in the ready
state, errors are shown, the shutdown completes.

**main** (`src/main.cpp`). State: `threads` (an unordered map from name to thread), the
client pointers, `lidar_error`. Operations: start each client, the command line, the
one-second loop that reasserts a lidar error, `stopApplication`, join. Hard: order of
start-up against threads already running; joins in arbitrary order.

**File system client** (`src/clients/concrete/FileSystemClient.cpp`). State: three files
on the drive (`manifest.txt`, `versionfile`, the scan directories). Operations: read and
bump the run number, create the two directories of a run. Hard: the service restarts the
program (`service/mandeye_controllel.service`, `Restart=always`) and the power can go
between any two writes. Correct when every run gets directories of its own.

**Cameras client and blocking queue** (`CamerasClient.cpp`, `utils/BlockingQueue.h`).
State: `isLogging`, `writeBuffer`, `savedImagesBuffer`, `dumpBuffer`, temporary files.
Operations: grab, enqueue, drop, write, dump, rename, start, stop. Hard: three threads,
a bounded queue, files moved while others are written. Correct when every image is
written once, to the chunk it was taken in, never to two chunks.

**Livox client** (`LivoxClient.cpp`). State: point and IMU buffers (null unless logging),
serial-to-id table, time stamp and the delay between clocks. Operations: callbacks,
`startLog`, `stopLog`, `retrieveData`, `dumpChunkInternally`, `saveDumpedChunkToDirectory`.
Hard: callbacks race with start, stop and dump; the id table grows while a chunk is
being put aside. Correct when no sample is lost or written twice between dumps, an id in
a file names one lidar, stamps agree with the time, and sleeping lidars are woken
(`testThread`, whose queries and commands may get lost).

**GNSS client** (`GnssClient.cpp`). State: one buffer of lines, `m_isLogging`. Hard: the
worker stamps a line before it takes the mutex, and `stopLog` keeps the buffer. Correct
when every line is saved once, in order, and its stamp fits the lidar's.

**IterableToFileSaver, save_laz** (`include/clients/IterableToFileSaver.h`,
`src/utils/save_laz.cpp`): write a dumped buffer to a file; nothing is reported upwards
when that fails. `save_laz` thins very large clouds. Correct when the file's header
names the points in it.

**GPIO client** (`GpioClient.cpp`): LEDs and two debounced buttons, with a 32-bit
microsecond tick. Hard: the tick wraps, contacts bounce, and pigpio calls back while
callbacks are being registered. Correct when a press makes exactly one request.

**Web server and page** (`include/web/ServerHandler.h`, `html/index.htm`): maps GET
requests to the request functions and to a JSON status.

**Time stamps** (`TimeStampReceiver.cpp`, `SystemTimeStampProvider.*`,
`LivoxClient::setTimestamp`): the lidar's clock, or the system's if the lidar cannot be
initialized and that is ignored; cameras and GNSS take their time from it.

Interactions: HTTP, button and console threads -> `app_state` -> watcher -> `startLog`,
`dumpChunkInternally`, `stopLog`, `saveDumpedChunkToDirectory` of every client in the two
vectors; `produceReport` reads every client for the status page under `clientsMutex`.

The hazards of this code, each at its line, are in `PROJECT.json` together with the
properties that would catch them.

## 2. Modules

| module | models | state and actions |
|---|---|---|
| `ScanSession` | what the controller owes its clients (`LoggerClient.h`, `SaveChunkToDirClient.h`) | which clients record, which hold a dump, chunks written; `Start`, `Dump`, `Stop`, `Write` |
| `StateManagement` | `state_management.cpp`, the threads of `main.cpp`, the requests of `ServerHandler.h` and the buttons | below |
| `StateManagement_proofs` | – | invariant and refinement proofs about it |
| `FileSystemClient` | `FileSystemClient.cpp` over several runs of the program | below |
| `FileSystemClient_proofs` | – | invariant proofs about it |
| `BlockingQueue` | `BlockingQueue.h` as its callers see it: atomic operations | the queue, `running`, the value last returned |
| `BlockingQueueThreads` | `BlockingQueue.h` with its condition variable | adds who is in `pop()` and who sleeps |
| `BlockingQueueThreads_proofs` | – | invariant and refinement proofs about it |
| `CamerasClient` | `CamerasClient.cpp`; instantiates `BlockingQueue` | below |
| `CamerasClient_proofs` | – | invariant proofs about it |
| `SaveLaz` | the thinning and the header of `save_laz.cpp`, as functions of the buffer's size | no state |
| `LivoxClient` | the buffers, ids and files of `LivoxClient.cpp`; extends `SaveLaz` | below |
| `LivoxClient_proofs` | – | theorems about `SaveLaz`, and invariant proofs about `LivoxClient` that use them |
| `LivoxWatch` | `testThread` and the callbacks it works with | below |
| `LivoxWatch_proofs` | – | invariant and action proofs about it |
| `LidarClock` | `setTimestamp` and the stamps of points and IMU samples | below |
| `GnssClient` | `GnssClient.cpp`, `TimeStampReceiver.cpp`, `IterableToFileSaver.h`; extends `LidarClock` | below |
| `GnssClient_proofs` | – | invariant proofs about the clock, the stamps and the lines |
| `GpioClient` | the buttons of `GpioClient.cpp` | below |
| `GpioClient_proofs` | – | invariant and action proofs about it |

`StateManagement` implements `ScanSession` (property `RefinesSession`) and
`BlockingQueueThreads` implements `BlockingQueue` (`IsBlockingQueue`). `CamerasClient`
uses the abstract queue. The client modules take the calls of the state machine in the
order `StateManagement` makes them; the lidar and the cameras are otherwise independent.

### StateManagement

The initial state is the call at `main.cpp:147`: the HTTP server, the file system, lidar
and GNSS clients exist; the watcher, the GPIO client and the cameras client do not. The
threads are the watcher (`wpc`), main (`mpc`), the LED dance (`dance`) and the requesting
threads, each with the value it is about to write (`pending`).

* A request is two steps, as in the code: `Decide` (through `StartScan`, `StopScan`,
  `TriggerStopScan`, `TriggerContinousScanning`) reads `app_state`, `CommitRequest`
  writes it. `main.cpp` and `ServerHandler.h` decide which thread may call which function.
* The watcher first makes the two directories, then repeats `TestRunning`, `Switch` (the
  one read of `app_state` that selects the case) and the case. The loops over the client
  vectors take one step per client, because the cameras client is pushed into those
  vectors by main without the watcher's knowledge.
* `saveChunkToDisk` is `SaveChunkToDisk`, `DumpChunkInternally`, `AllDumped`, `StopLog`,
  `AllLogsStopped`, `SaveDumpedChunkToDirectory`, `SavingDone`. The history `saves` holds
  directory, chunk number and whether the drive was there.
* Undefined behaviour: a null `gpioClientPtr` or a null Livox buffer ends the process
  (`crash = "gpio"`, `"dump"`); a vector that grows while the watcher iterates over it may
  end it or not (`"vector"`). The data race on `app_state` is modelled as interleaved single
  reads and writes.
* The cameras client ends the process by an exception nobody catches (`crash = "cameras"`):
  at start-up, in `rename()` or the making of its directory without the drive, in `rename()`
  with the drive when an image was never written (`SaveDumpedChunkToDirectory`), and in
  `imwrite` (`ImwriteThrows`). `CamerasClient` has the details.
* Simplifications: which LED is lit is not modelled; the two client vectors are one, as
  main fills both together; the parallel writing of the clients is one step; SIGINT and
  the `q` command are one action; time is two facts, "the chunk's ten seconds are over"
  (`chunkDue`) and how many of the two deadlines of a stop scan have passed.

### FileSystemClient

Runs of the program on one drive: `TurnOn`, the constructor's read of the manifest,
`GetNextIdFromManifest` in two steps (opening the file empties it, `WriteManifest` fills
it), the two directories, `SaveChunk` and `SyncDisk` (`saveChunkToDisk`). `ProgramEnds` in
any state (`Restart=always` starts it again) keeps what the kernel has; `PowerFails`
loses any part of what was written since the last sync. Every file operation may fail. An
existing directory is accepted as in the code. The history `mishaps` holds what has
happened to the manifest, an error of the drive or an end while it was empty; the
properties say which mishaps they exclude.

### BlockingQueueThreads

One step per critical section. `Wait` puts a consumer to sleep, `push()` wakes one,
`stop()` all, `SpuriousWakeup` any; a woken consumer tests the predicate again. `DropN`
and `KeepN` are included although nothing in `src/` calls `dropN`.

### CamerasClient

The producer `receiveImages` (`Receiver`), the consumer `writeImages` (`Writer`), the
grabber, and the state machine's calls. The size test and `keepN` are two steps, so the
producer may push in between; the temporary file and its entry in `savedImagesBuffer` are
two steps, so a chunk may be cut in between; `stopLog` stores its flag before it takes the
mutex. The queue keeps its images when a scan stops; `before` remembers the last image
written when each scan started and `stoppedAt` the last one pushed when it stopped, so that
`ChunksHoldTheirScan` can name the ones that may come late. `imwrite` writes a file, fails
(its result is ignored), or throws, which ends the process; `failed` collects the files it
did not write. `OldFiles` are temporary files that an earlier run left on the drive under the
same names. `rename()` throws at the first image whose file is not there. An image is its
position in the order of pushing and the scan it was received in.

### LivoxClient

The callbacks of points and of IMU samples each find the lidar's id (`PacketArrives`) and
later take the buffer's mutex (`PushSample`). The state machine starts, cuts
(`RetrieveData`, under both mutexes), reads the id table (under `m_lidarInfoMutex`, after
the buffers are swapped), saves and stops. `LidarIds` holds what the unlocked read of the
table may return while `LidarInfoChangeCallback` inserts a lidar. Each of a chunk's three
files may be missing or cut short at any place (`CutShort`). The point cloud is thinned as
`SaveLaz` says; `saveLaz` writes the header before the points, so a file it did not finish
has the header of the whole (`PointClouds`). `discarded` collects the numbers of the samples
that reached no file, and `among` remembers the lidars a sample's id was counted among, in
the samples as well as in the table.

### LivoxWatch

The watch thread holds `m_lidarInfoMutex` for a round over the lidars it knows (`todo`).
A query is on its way, answered, or failed; the callbacks wait for the mutex. An answer may
also come without a work mode in it and change nothing (`AnsweredWithoutMode`). Lidars fall
asleep, and queries, answers and commands get lost, until `CalmBegins`. A second query or
command to a lidar is merged with the first.

### LidarClock and GnssClient

The system's clock and each lidar's advance together; a lidar's starts when it is powered
on (`Restart`). A packet arrives at any time after it was sent, those of one kind of one
lidar in order; a lost one is like one that was never sent. `PointCloudCallback` fixes the
delay with the first packet, `ImuDataCallback` only uses it. `samples` records every stamp
whether or not the client logs, which is `LivoxClient`'s part. The GNSS worker reads and
stamps a line (`ReadLine`) and takes the mutex later (`PushLine`); the state machine's
calls come in their order. A line remembers the scan during which it was stamped
(`stampedIn`) and the one during which it was put down. `m_lastLine` and `lastGGA`, which only
the status shows, are left out. A file that cannot be opened leaves the client's state as it is.

### GpioClient

The constructor wires each button, then resets its `m_buttonState` (`ButtonInitialized`, when
edges may already have come in), and registers a callback that only prints; main adds those
that request scans. An edge updates `m_buttonLastPressTime` and `m_buttonState` and
calls the callbacks in a second step, because they are registered by another thread.
pigpio reports one edge at a time. A press or a release is a first edge and a train of
further ones for less than `DEBOUNCE_TIME`; the person's next move comes later.

## 3. Runs

| run | question | bounds | result |
|---|---|---|---|
| `MCManyRequesters` | what holds for any interleaving of requests, down to the clients | 2 HTTP workers, the buttons; 2 clients; 2 chunks; each directory may fail | pass, 3.2 M states |
| `MCOneRequester` | the order of calls to the clients; a lidar error wins | buttons only; 3 clients; 3 chunks; the drive may vanish | pass, 660 k states |
| `MCPatient` | does everything that must happen happen | one operator who waits for main's loop; 2 chunks | pass, 8 k states |
| `MCTwoStops` | the same with a second requester | a worker and the buttons; 1 chunk | violation |
| `MCDrive` | a run's directories belong together; synced chunks survive restarts and power failures | 3 runs, every operation may fail | pass, 187 k states |
| `MCTornManifest` | new directories for every start, if only the drive makes no errors | 3 runs | violation |
| `MCBlockingQueue` | no lost wake-up, stop releases, atomicity | 3 consumers, length 3 | pass, 885 states |
| `MCCameras` | order, uniqueness, the right scan, rename, end of the threads | 2 cameras, queue of 1, 4 images of which imwrite may fail on two, 2 scans, 2 chunks, an old file | pass, 1.0 M states |
| `MCLivox` | chunks cut at one instant, no sample lost, ids and headers | 2 lidars of which one joins, 3 samples, 2 chunks, files cut short anywhere, thinning from 3 points on | pass, 4.3 M states |
| `MCWatch` | do sleeping lidars wake, and does the program come to know | 2 lidars | pass, 102 k states |
| `MCStamps` | stamps, and the way of the GNSS lines | 2 lidars (symmetric), 2 packets, 2 lines, 3 chunks, 2 scans | pass, 4.1 M states |
| `MCGpio` | one press, one request | 2 buttons, ticks modulo 6, debouncing for 2 | pass, 1.6 M states |

Why these bounds suffice for what they ask: the hazards need two requesters (a stale
request and the one that overtook it), one client before and one after the client
whose call fails, a periodic, a final and a stop-scan chunk (three numbers), a drive with
a run before and a run after the crash, three consumers (one asleep, one woken, one
faster), more images than the queue holds (4 against 1) and a scan after a scan, a lidar
that joins between a sample and the table, packets that overtake each other (one point
and one IMU packet suffice), a line before and a line after a cut, and a clock that wraps
while a button rests. The
numbers that are cut off – chunks, runs, images, samples, packets, lines – appear only in guards of
actions that begin something: every chunk or image begun is finished. `FailingFiles` are the last
two of the four temporary files: one has a namesake from an earlier run, the other has not. In `LivoxClient` packets stop after the last cut
and in `GnssClient` everything but the calls stops after the last line has been put down
(`Running`): nothing that comes later can reach a chunk. The lidars' time stands still after
the last packet (`TimeTells`): nothing more is stamped with it.
In `MaxChunks` a request decided before the bound is reached is still served, so
`chunksInExperiment*` may pass it by a few.

What the passing runs show:

* `ChunksNeverOverwritten`: the sum of the two counters names every chunk once, for
  continuous and stop scans in any mixture.
* `ScanOnlyWithDirectories`: after a failed directory no scan state is reached, so the
  branch of `saveChunkToDisk` for an empty directory is never taken.
* `LatchProtectsGpio`: the latch protects the GPIO client, unless a directory failed.
* `IdleRecordsNothing`, `NothingDumpedIsLost`: although requests overtake and overwrite each
  other, the ready state means that no client records, no client is stopped before its dump
  and no dump is dropped. Buffers that a late start replaces before they are dumped are not
  seen by these two. The requests write only `STARTING_SCAN`, `STOPPING` and
  `STARTING_STOP_SCAN`; the states that promise something are written by the watcher alone.
* `RefinesSession`: with a single requesting thread the clients see start, dump, stop and
  write in the only order that loses nothing. With a second requester the refinement fails:
  a late request starts a client that records already, or dumps one that does not.
* `AllClientsRecord`, `BecomesReady`, `StoppingReachesReady`, `StopScanReachesReady`,
  `ShutdownCompletes`, `LidarErrorReasserted`: see the comments in the module. They leave
  two ways out (`Ending`): `~isRunning`, as the watcher ends in whatever state a scan is in, and
  an exception of the cameras client.
* `SyncedChunksSurvive`, `DirectoriesArePaired`; `NoLostWakeup`, `StopReleasesEveryone`,
  `IsBlockingQueue`; `ImagesInOrder`, `RenameFindsFile`, `ThreadsEnd`;
  `ChunksAreCutTogether`, `NoSampleIsLost`: see the modules.
* `ChunksHoldTheirScan`, `IdsNameOneLidar`, `LinesOfTheirScan`, `HeadersCountPoints`: exact
  statements of what the code guarantees and where it stops, see section 4.
* `RenameFindsFile`: files and buffers agree whatever `imwrite` does, and only an image it did
  not write can end the process in `rename()`.
* `StampsTellTheTime`: a stamp is the time since the start of the sample's lidar plus one
  constant, the start of the lidar whose point packet came first and that packet's latency.
  So stamps of one start keep their distances; those of lidars started at different times are
  off by the whole difference of the starts.
* `LinesFollowTheLaser`: GNSS lines fit between the point packets around them – with one
  lidar that is not restarted. With two, the newest packet need not be the latest one.
* `OnePressOneRequest`, `OnlyLongRestsAreIgnored`: debouncing works across the wrap of the
  tick, except for a move that comes one whole period of the tick after the last one.
* `SleepersWake`, `SettlesWhenCalm`: no loss of queries or answers keeps a lidar asleep, and
  a stale answer is corrected.

### Fairness

`StateManagement`: weak fairness of the watcher, main and the dance (threads of the
operating system that never wait for a lock another holds forever), of the deadlines
(time passes; the watcher polls it) and of `CommitRequest` (a thread between a test and
an assignment is scheduled). Nobody is obliged to ask for a scan or to stop, and the
chunk interval need not elapse: no property needs it.
`BlockingQueueThreads`: a consumer that is awake gets the mutex. `CamerasClient`:
receiver and writer are scheduled; `imwrite` returns. `LivoxWatch`: the watch thread runs
(weak); the SDK calls back for every query, and a callback gets the mutex, which is free
for a second between two rounds (strong, as rounds take it again and again); not every
command that is sent once a second is lost (strong). The fair calls are those that change a
record: the SDK does not answer for ever with success but no work mode. Nothing else is
assumed of the answers.
Pushes, stops and the state
machine's calls are not fair.

## 4. Disagreements

Two runs show that the code breaks what a document says; the quotations are in
`PROJECT.json`.

* `MCTwoStops`: two threads see `SCANNING`, both write `STOPPING`, the second after the
  first stop is over. The watcher dumps a lidar without buffers: null dereference.
* `MCTornManifest`: the manifest is rewritten in place. If the program ends or the power
  goes between the opening and the write, the next run reads 0 and saves into the
  directories of the first run.

Five promises hold only with an exception; the property of the passing run contains it:

* `ChunksHoldTheirScan`: images still in the queue, or in the writer's hands, when a scan
  starts are saved with that scan although an earlier one took them
  (`CamerasClient.cpp:166` clears one of the two buffers). At most one round of images is
  pushed after `stopLog`, because `receiveImages` tests the flag between rounds.
* `IdsNameOneLidar`: ids are positions in a set that grows ("id is zero for lidar with
  smallest Serial number", `LivoxClient.h:85`); if lidars are announced between a sample and
  the table saved with it, the id is too small by at most their number.
* `LinesOfTheirScan`: GNSS lines that come between the last cut and `stopLog` are saved with
  the first chunk of the next scan, while the lidar's samples of that time are dropped; and
  the first line of a scan may carry a time from before it, as the worker stamps it first and
  takes the mutex then.
* `HeadersCountPoints`: the header of a thinned cloud may miss one point
  (`save_laz.cpp:58` rounds down, the loop of line 109 rounds up), and the header of a file
  that `saveLaz` did not finish, on a full drive, names points that are not there (it is
  written at line 87, before the points, and the result of `saveLaz` is ignored).
* `StampsTellTheTime`: IMU samples before the first point packet carry the lidar's own time.

Three more have no run of their own. They follow from the guards of the model:

* Without a drive at start-up the watcher reaches the case `USB_IO_ERROR` and its LED
  before `gpioClientPtr` is assigned (`NullGpioClient`; it is the exception in
  `LatchProtectsGpio`): main starts the watcher first.
* The latch counts one step, the GPIO client. A scan requested before the cameras client
  is registered (`main.cpp:149`) runs without it; with `Patient = FALSE`,
  `AllClientsRecord` is violated, while the clients registered before the watcher always
  record (`ScansRecordEarlyClients`).
* `saveChunkToDisk` returns true whatever became of the files: `saves` gets a chunk with
  `ok = FALSE`, the counters advance, and `USB_IO_ERROR` is never reached this way.

And one limit of the queue is soft: while one image is being written nothing trims it.

## 5. Proofs

`StateManagement_proofs`, for any sets of threads, any number of clients and any bound,
from the assumptions on the constants alone: `Spec => []IInv` (`Invariance`), and from it
`TypeCorrect`, `CountersCorrect`, `NoChunkOverwritten`, `ScansHaveDirectories` and
`LatchCorrect`.

The properties are not inductive. `IInv` adds: `StartupInv` (latch, dance and GPIO
client move with main's start-up, and the watcher exists once main has left its first
step); `LoopInv` (the loops stay within the registered clients, needed for the types);
`DirectoriesInv` (what the shared state, the watcher's position and every request under
way say about the directories – a request decided earlier must not bring a scan state
back to a controller without directories); `SeenInv` (the same for the value the switch
read, which is older than `app_state`). `CountersMatchSaves` is itself inductive with the
types and gives `ChunksNeverOverwritten`. The step is one case per action.

What the clients do, still for any number of requesting threads, is `ClientsInv`
(`ClientsInvariance`). The argument: a request writes one of three states, and only those;
every state that says something of the clients is written by the watcher, when it has gone
through all of them. `ShownInv` therefore holds whoever writes in between: `IDLE` and
`WAIT_FOR_RESOURCES` mean that no client records, `SCANNING` and `STOP_SCAN_IN_PROGRESS`
that all do which every scan starts, and while the watcher is busy `app_state` is what it
saw, `LIDAR_ERROR`, or a request. `LoopsInv` says how far the loops over the clients have
come; it allows for clients that are started twice or stopped without a start, which late
requests can bring about, but not for one that is stopped before its dump. `RegisteredInv`:
the cameras come last. It gives `IdleIsIdle`, `ScansRecordEarlyClients` and `DumpsAreSaved`
(the action property `NothingDumpedIsLost`). Cameras that are registered during a scan do
not record, so `ScansRecordEverything` (`AllClientsRecord`) assumes `Patient`, operators
who wait for the end of the start-up.

How the process may end is `CrashInv`, which adds that the clients record until the watcher
itself stops them (`RecordingInv`). `OnlyLateStopsCrash`: a null buffer is read only in the
case `STOPPING`, so the counterexample of `MCTwoStops` is of the only kind there is.
`VectorsStandStill`: with patient operators the unlocked `push_back` is harmless.
`ExitLosesNoDump`: the shutdown does not interrupt a save.

Four theorems need one requesting thread (`OneRequester`, a hypothesis of the theorems, not
of the model: `MCTwoStops` shows that two break them): `BuffersExist` (the lidar's null
buffers are never dumped), `RequestsReachTheWatcher` (nothing but a lidar error overwrites
a request the watcher has not seen), `ProcessSurvives` (with a patient requester and both
directories only an exception of the cameras client can end the process) and
`ImplementsSession`, that
the controller refines `ScanSession` for the clients that exist when the watcher starts.
`RecordInv` adds three parts. `SettledInv`: while the watcher is not working on
its clients every state, or inside `Switch` the value it read, says whether they record;
`After` lists what the requester and main may have made of that value since. `PendingInv`:
a request under way still fits what the clients do when it is written, as only its own
thread could have changed that. `ProgressInv`: no client is dumped or stopped that does not
record, except cameras that came later. In the refinement `StartLog`,
`DumpChunkInternally`, `StopLog` and `SaveDumpedChunkToDirectory` are the steps of the
session and every other action is a stutter.

`FileSystemClient_proofs`, for any number of runs and without assumptions on the drive:
`TypeCorrect`, `DirectoriesPaired` (`RunInv`: directories are made after the run has taken
its number, and chunks go only there), and `ChunksSurvive`. The argument for the last one is
`NumberingInv`, which holds as long as `mishaps` is empty: the number in the manifest, on
the drive as well as in the kernel's view, is above the number of every synced chunk,
except while it is being rewritten; then the run holds that number. `MishapsStay` lets an
induction step assume that there were none before. Both mishaps are needed:
`MCTornManifest` shows one, and with a manifest that cannot be opened or written the next
run gets the same number.

`GnssClient_proofs`, for any number of lidars, restarts, packets, lines, chunks and scans.
`StampsCorrect`: `StampsTellTheTime` always holds. The constant is the same for all lidars,
starts and packets; what it is added to is the time since the start of the sample's own lidar,
so the theorem does not make the stamps of different starts comparable. The invariant adds
that the time is
the sentinel exactly until the first point packet has arrived (`DelayInv`: otherwise the
delay would be measured again) and that packets are neither older than their lidar's start
nor of the future (`WorldInv`: hence the delay and every sum with it fit into the word). The
assumption it rests on is `ClockAssumption`: twice the uptime is less than 2^64
nanoseconds, so the computed time cannot be the sentinel by wrapping. `ClockInv` and
`LinesInv` (the place of the state machine's calls among the chunks) give `TypeCorrect`.
`LinesSaved`: the lines pushed are cut into consecutive stretches, one for each chunk, then
those put aside, then those still in the buffer; each action moves one boundary.
`ChunkLinesOfTheirScan` follows from `ScanInv`, which says of each call whose lines the
buffer may hold, and from `HeldInv`: a line in the worker's hand that was stamped before the
scan began will be that scan's first. `LaserFollowed` follows from `LaserInv`: while only one start of one lidar
has been heard, the time is that of its newest point packet, hence never runs back, and
every line stamped so far – the one the worker holds included – lies between the packets
before it and after it.

`BlockingQueueThreads_proofs`, for any sets of producers, consumers and values and any
length: `NoWakeupLost` and `ImplementsQueue`, that the queue with its condition variable
implements `BlockingQueue`. `NoLostWakeup` needs, beyond the types, that nobody sleeps on a
stopped queue and that the callers of `pop()` are finitely many (`SleepersInv`): then every
push that leaves somebody asleep wakes one more consumer than there were, and every return
takes one value and one consumer. `StopWakesEveryone` is the half of `StopReleasesEveryone`
that needs no fairness: after `stop()` the next step of every caller of `pop()` is to return.
The refinement maps calls, sleeping and waking to
stuttering, and a `drop_n` or `keep_n` beyond the length to one of the length.

`CamerasClient_proofs`, for any number of cameras, images, chunks and scans, any length
of the queue, any failures of `imwrite` and any files of earlier runs: `TypeCorrect`,
`ImagesKeepTheirOrder`, `ChunksOfTheirScan` and `RenamesFindFiles`. `OrderInv`: the latest image written divides the
way; what has left the queue is not later, what is in it is later, and the one in the
writer's hands is between the two. `ScanInv`: what the client holds for the running scan
was written after it had started. `StopInv`: an image on its way after the `stopLog` of its
scan was pushed before it or belongs to the round being pushed then, which has at most
`Cameras` images. `FilesInv`: every image that is not in a chunk yet has a file name of its
own, older than the counter, also the one written but not yet entered, and a file under it
unless `imwrite` did not write it; so `rename()` can miss only a file in `failed`.

`LivoxClient_proofs`, for any number of samples, chunks and scans, any failures of the
files and at most 255 lidars (the value `handleToLidarId` keeps for a lidar it does not
know): `TypeCorrect`, `ChunksCutTogether`, `SamplesKept`, `HeadersCorrect`, `IdsCorrect`.
Samples are numbered as they arrive. `CutInv`: samples in the buffers are later than the
last cut, those put aside lie between the last two. `OnceInv`: every sample received is in
exactly one of the buffers, the part put aside, the files and `discarded`. `IdsInv`: an id
that was not counted among the lidars given (the read raced with an insertion) was counted
before the latest lidar was entered, so the table saved with it lists others; and it was
counted among a set between those given and those of the table, so it is too small by at most
the difference (positions in a larger set are larger, by at most the elements added).
`HeadersInv` counts what a file holds where `saveLaz` was cut short.
It begins with `SaveLaz`, for every size and both limits: the loop visits exactly
`PointsWritten` positions (`PositionsCounted`, by a bijection with the quotients), the
header names that number or one less (`HeaderIsClose`), small clouds are written whole, and
thinned ones fit (`LargeCloudsAreThinned`). `HeadersCorrect` uses `HeaderIsClose`, and
`SetsInv` for the sizes.

`LivoxWatch_proofs`, for any set of lidars: `TypeCorrect`, and `RecoveredForGood`, the half of
`SettlesWhenCalm` that needs no fairness: once nothing is lost any more, a lidar that is
awake, is recorded so and has no answer from its sleep on its way stays so, whatever
queries, announcements and answers of others come in between.

`GpioClient_proofs`, for any set of buttons, any debounce time and any period of the tick:
`TypeCorrect`, `PressesCounted` and the action property `IgnoredOnlyAfterWrap`. `WiringInv`:
a button has main's callback only when all are wired and reset, and a press or release counts as
accepted only if the button had it. `AgeInv`: the unsigned difference of the ticks is the age of the
accepted edge as long as that is less than a period. `HandlingInv`: between the update of a
button and its callbacks the button is pressed and main's callback has not been called.
`ButtonsAssumption` says that `NoButton` is none.

Only model-checked: liveness (`BecomesReady`, `StoppingReachesReady`, `StopScanReachesReady`,
`ShutdownCompletes`, `LidarErrorReasserted`, `StopReleasesEveryone`, `ThreadsEnd`,
`SleepersWake`, `SettlesWhenCalm`), which is out of the prover's reach. Every other property
of a passing run is proved, and so are the refinements. Induction over data and
operators declared RECURSIVE are out of the prover's reach as well; no module needs them,
and `LinesSavedOnce` names boundaries where a concatenation of all chunks would need one.

## 6. Not modelled, and why

* Third-party code (`3rd/json/json.hpp`, 24640 of the repository's lines, jQuery, the
  SDKs), demos, build files, web page: no logic of this program.
* LED patterns, status reports (`produceReport`, every `produceStatus`, the counters and
  the last GNSS line they show) and the version file: output only. That status requests
  read several containers without the right mutex is listed with the hazards.
* Opening devices: cameras, the serial port, the SDK and its configuration file. They
  succeed or fail once, before the initial states of the modules.
* Names of image files (camera and stamp) and the padding of numbers in names: formatting.
  Two hazards about them are listed without a property, with the reason.
* A full queue is a soft limit: while one image is being written nothing trims it, and how
  long a write takes is not in the code.
* The destructors at exit, where threads that were never joined end the process
  (`LivoxClient.cpp:196`), are beyond the return of `main`, where the model ends.
* Steps of the system's clock (NTP) and a clock of the lidar that drifts or is
  synchronized: `LidarClock` has clocks that run at one rate.

## 7. Plan

Done: the controller, its proofs, the drive, queue and cameras, the lidar's buffers,
files, clock and watch thread, GNSS, buttons; every safety property the passing runs check
is proved. The liveness properties stay with TLC.

Left: the names of image files (their padding, and two images with one stamp), which are
listed with the hazards.
