SPECIFICATION FairSpec
CONSTANTS
    CPU = {c1, c2}
    IntBits = 4
    LongBits = 8
    Kilo = 3
    NumBuf = 9
    Lines <- MCLines
    Strings <- MCStrings
    Beyond <- MCBeyond
    MaxLines = 2
    MaxStrings = 1
CHECK_DEADLOCK FALSE
INVARIANTS
    NumberDenoted
    WithinBuffers
PROPERTIES
    LinesWhole
    DumpReported
