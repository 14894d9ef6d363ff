SPECIFICATION Spec
CONSTANT MaxEntries = 4
CHECK_DEADLOCK FALSE
INVARIANTS
    TypeOK
    HostPreserved
    GuestPreserved
    AreaOnStack
