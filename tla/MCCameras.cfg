SPECIFICATION FairSpec
CONSTANTS
    Cameras = 2
    MAX_IMAGES_BUFFER_SIZE = 1
    SAFE_IMAGES_BUFFER_SIZE = 1
    ImwriteOutcomes = {"written", "failed", "thrown"}
    OldFiles = {3}
    DirOutcomes = {TRUE, FALSE}
    MaxImages = 4
    MaxScans = 2
    MaxChunks = 2
    FailingFiles = {2, 3}
INVARIANTS
    TypeOK
    ImagesInOrder
    
    ChunksHoldTheirScan
PROPERTIES
    ThreadsEnd
