SPECIFICATION FairSpec
CONSTANTS
    a = a
    b = b
    c = c
    d = d
    Account = {w}
    NoAccount = none
    Wallet = w
    None = None
    Chunk <- MCChunk
    Size <- MCSize
    Selections <- MCSelections
    MaxBatchBytes = 3
    GasLimit = 100000
    Retries = 2
    MaxBatches = 2
    DeploySite = {TRUE}
    MaxReselections = 1
    MaxFaults = 2
    MaxUploads = 3
    Label = {l}
    FirstLabel = first
    MaxChanges = 2
INVARIANTS
    ConfirmedOnChain
    ManifestFaithful
    NonceNeverAhead
    ResumeIsCheap
    HistoryFaithful
    HistoryKept
PROPERTIES
    EventuallyStored
    Publishes
CHECK_DEADLOCK FALSE
