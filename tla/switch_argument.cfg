SPECIFICATION Spec
CONSTANT MaxEntries = 4
CHECK_DEADLOCK FALSE
INVARIANTS
    HandlerGetsState
