SPECIFICATION Spec
CONSTANTS
    NContracts = 2
    NRpcs = 2
    MaxBlockRange = 2
    WindowCap = 2
    HasIndex = TRUE
    Hints <- MCHints
    FirstHeight = 5
    MaxHeight = 6
    MaxLag = 1
    MaxStores = 2
INVARIANTS
    OneHealthyNodeSuffices
    CallBudget
CHECK_DEADLOCK FALSE
