SPECIFICATION Spec
CONSTANT MaxRuns = 3
INVARIANTS
    TypeOK
    SyncedChunksSurvive
    DirectoriesArePaired
