SPECIFICATION Spec
CONSTANTS
    alice = alice
    bob = bob
    Account = {alice, bob}
    NoAccount = none
    Name = {n1, bad}
    ValidName = {n1}
    Fee = 1
    Deployer = alice
    FirstRecipient = alice
    Refusing = {bob}
    Manifest = {m1, m2}
    Block = {1}
    Program <- Mixed
    MaxRuns = 3
    MaxStores = 2
    MaxMoves = 2
INVARIANTS
    TypeOK
    SitesArePublished
    MintedOnce
    NamesArePaid
    CLITellsTruth
PROPERTY
    NameKept
SYMMETRY Manifests
CHECK_DEADLOCK FALSE
