SPECIFICATION Spec
CONSTANTS
    Account = {alice, bob}
    NoAccount = none
    None = None
    Name = {n1}
    Check = {c1, c2}
    Search = {s1}
INVARIANT
    OwnsWhatIsShown
    LookupTellsTruth
CHECK_DEADLOCK FALSE
