SPECIFICATION FairSpec
CONSTANTS
    CPU = {c1, c2}
    Levels = 3
    Index = {0, 1}
    Page <- TwoPages
    Table = {root, t1, t2, t3}
    Root = root
    Accesses <- MixedAccesses
    NoPage = nopage
    Junk = junk
    TlbSize = 1
INVARIANTS
    TypeOK
    WalksSound
    Identity
    NoMisconfiguration
PROPERTIES
    StaysMapped
    ImplementsFairMemory
