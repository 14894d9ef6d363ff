SPECIFICATION Spec
CONSTANTS
    CPU = {c1, c2}
    TicketMod = 5
    DisableInterrupts = TRUE
    BootIF = {TRUE, FALSE}
    MaxInterrupts = 0
INVARIANT InterruptsRestored
SYMMETRY Symmetry
