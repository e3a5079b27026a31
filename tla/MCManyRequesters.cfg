SPECIFICATION Spec
CONSTANTS
    WebWorkers = {w1, w2}
    ButtonThreads = {b}
    Consoles = {}
    EarlyClients = 1
    LivoxClients = {1}
    DirOutcomes = {TRUE, FALSE}
    LidarErrors = {FALSE}
    MediaRemovable = FALSE
    Patient = FALSE
    MaxChunks = 2
INVARIANTS
    TypeOK
    ChunksNeverOverwritten
    ScanOnlyWithDirectories
    LatchProtectsGpio
    IdleRecordsNothing
PROPERTIES
    NothingDumpedIsLost
