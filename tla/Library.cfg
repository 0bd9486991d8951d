SPECIFICATION FairSpec
CONSTANTS
    mf = mf
    ha = ha
    hb = hb
    hc = hc
    hd = hd
    he = he
    None = None
    Entries <- MCEntries
    Manifest = mf
    Chains <- MCChains
    Digits <- MCDigits
    Call <- MCCall
    Concurrency = 2
    MaxBlockRange = 2
    IsV2 = TRUE
    HasIndex = TRUE
    V2Blocks = {0, 1}
    IndexBlocks = {0, 2}
    FirstHeight = 4
    MaxHeight = 5
    MaxFaults = 1
INVARIANTS
    EachEntryOnce
    FetchedWhole
    FailsOnlyIfLost
PROPERTY
    CallEnds
CHECK_DEADLOCK FALSE
