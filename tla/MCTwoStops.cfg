SPECIFICATION FairSpec
CONSTANTS
    WebWorkers = {w}
    ButtonThreads = {b}
    Consoles = {}
    EarlyClients = 1
    LivoxClients = {1}
    DirOutcomes = {TRUE}
    LidarErrors = {FALSE}
    MediaRemovable = FALSE
    Patient = TRUE
    MaxChunks = 1
PROPERTIES
    StoppingReachesReady
