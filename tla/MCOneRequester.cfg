SPECIFICATION FairSpec
CONSTANTS
    WebWorkers = {}
    ButtonThreads = {b}
    Consoles = {}
    EarlyClients = 2
    LivoxClients = {1}
    DirOutcomes = {TRUE}
    LidarErrors = {TRUE, FALSE}
    MediaRemovable = TRUE
    Patient = FALSE
    MaxChunks = 3
PROPERTIES
    RefinesSession
    LidarErrorReasserted
