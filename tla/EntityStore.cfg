\* Four entities, batches of two, line numbers of three bits.
SPECIFICATION Spec
CONSTANTS
    Ids <- MCIds
    WriteBatch = 2
    ReadBatch = 2
    LineModulus = 8
    Files <- MCFiles
    OldItems <- MCOldItems
    Asked <- MCAsked
    Coverable = {"one", "two", "four"}
    Coverage <- MCCoverage
INVARIANTS
    StoreTypeOK
    EndedMigrationIsWhole
    
    FailuresAtTheBottom
