SPECIFICATION FairSpec
CONSTANTS
    a = a
    b = b
    c = c
    d = d
    Account = {w}
    NoAccount = none
    Wallet = w
    None = None
    Chunk <- MCChunk
    Size <- MCSize
    Folders <- TwinFolders
    LocalSize = 1
    MaxBatchBytes = 3
    GasLimit = 100000
    ManifestName = 2
    IncludeFilenames = TRUE
    IsV2 = FALSE
    MaxFaults = 0
    MaxEdits = 0
    MaxTxs = 12
PROPERTY
    EventuallyComplete
