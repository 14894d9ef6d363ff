SPECIFICATION FairSpec
CONSTANTS
    CPU = {c1, c2}
    TicketMod = 5
    DisableInterrupts = TRUE
    BootIF = {TRUE, FALSE}
    MaxInterrupts = 1
INVARIANTS
    TypeOK
    MutualExclusion
    HolderUninterrupted
PROPERTIES
    ImplementsFifo
    WaitEndsUnlessInterrupted
