SPECIFICATION FairSpec
CONSTANTS
    WebWorkers = {}
    ButtonThreads = {b}
    Consoles = {}
    EarlyClients = 1
    LivoxClients = {1}
    DirOutcomes = {TRUE}
    LidarErrors = {FALSE}
    MediaRemovable = FALSE
    Patient = TRUE
    MaxChunks = 2
INVARIANTS
    AllClientsRecord
PROPERTIES
    BecomesReady
    StoppingReachesReady
    StopScanReachesReady
    ShutdownCompletes
