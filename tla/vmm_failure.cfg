SPECIFICATION Spec
CONSTANTS
    Processors <- MCProcessors
    MaxEntries = 4
CHECK_DEADLOCK FALSE
INVARIANTS
    FailureStops
