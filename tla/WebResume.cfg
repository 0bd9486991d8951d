SPECIFICATION Spec
CONSTANTS
    a = a
    b = b
    c = c
    d = d
    Account = {w}
    NoAccount = none
    Wallet = w
    None = None
    Chunk <- MCChunk
    Size <- MCSize
    Selections <- Versions
    MaxBatchBytes = 2
    GasLimit = 100000
    Retries = 2
    MaxBatches = 2
    DeploySite = {FALSE}
    MaxReselections = 1
    MaxFaults = 1
    MaxUploads = 2
    Label = {l}
    FirstLabel = first
    MaxChanges = 0
INVARIANT
    EveryChunkInOrder
CHECK_DEADLOCK FALSE
