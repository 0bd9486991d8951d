SPECIFICATION FairSpec
CONSTANTS
    a = a
    b = b
    c = c
    d = d
    Account = {w}
    NoAccount = none
    Wallet = w
    None = None
    Chunk <- MCChunk
    Size <- MCSize
    Folders <- AllFolders
    LocalSize = 1
    MaxBatchBytes = 3
    GasLimit = 100000
    ManifestName = 2
    IncludeFilenames = TRUE
    IsV2 = FALSE
    MaxFaults = 2
    MaxEdits = 1
    MaxTxs = 12
INVARIANTS
    RecordedOnChain
    ManifestFaithful
    FaultCostsOneBatch
    IndexPointsAtManifest
PROPERTIES
    CompleteUnlessTwins
    Publishes
