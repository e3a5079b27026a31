SPECIFICATION Spec
CONSTANTS
    Lidars = {1, 2}
    Known = {2}
    MaxSamples = 3
    MaxChunks = 2
    MostPoints = 2
    ThinTo = 2
INVARIANTS
    TypeOK
    ChunksAreCutTogether
    NoSampleIsLost
    HeadersCountPoints
    IdsNameOneLidar
