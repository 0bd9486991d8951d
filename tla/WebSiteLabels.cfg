SPECIFICATION Spec
CONSTANTS
    a = a
    b = b
    c = c
    d = d
    Account = {w}
    NoAccount = none
    Wallet = w
    None = None
    Chunk <- MCChunk
    Size <- MCSize
    Selections <- NestedSelections
    MaxBatchBytes = 3
    GasLimit = 100000
    Retries = 2
    MaxBatches = 2
    DeploySite = {TRUE}
    MaxReselections = 0
    MaxFaults = 0
    MaxUploads = 1
    Label = {l}
    FirstLabel = first
    MaxChanges = 0
INVARIANT
    LabelsMatch
CHECK_DEADLOCK FALSE
