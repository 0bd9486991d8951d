SPECIFICATION FairSpec
CONSTANTS
    ha = ha
    hb = hb
    hc = hc
    hx = hx
    site = site
    list = list
    noName = ""
    NoName = ""
    None = None
    Index = "index.html"
    Request = {r1, r2}
    Client = {c}
    Rate = 1
    Burst = 1
    Idle = 1
    Target <- MCTarget
    Hash = {ha, hb, hc, hx}
    Manifest <- MCManifest
    Missing = {hx}
    Site = list
    Path <- MCPath
    Ext <- MCExt
    Stem <- MCStem
    Number <- MCNumber
    Rewritten = {ha}
    Limit = 1
    MaxFaults = 1
    MaxTime = 2
INVARIANTS
    TypeOK
    WithinRate
    ServedWhole
    DiskWhole
    PathsLead
PROPERTY
    EveryRequestAnswered
CHECK_DEADLOCK FALSE
