SPECIFICATION FairSpec
CONSTANTS
    Processors <- MCProcessors
    MaxEntries = 4
CHECK_DEADLOCK FALSE
INVARIANTS
    TypeOK
    ControlsValid
    GuestConfined
    NoLateFault
    TablesRestored
    OnlyHandledResumed
PROPERTIES
    ExitsAnswered
