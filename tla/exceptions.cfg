SPECIFICATION Spec
CONSTANTS
    Raised = {3, 13}
    Interrupts = {64}
    HookVectors = {32}
    MaxHooks = 2
    MaxDepth = 2
    MaxExceptions = 3
CHECK_DEADLOCK FALSE
INVARIANTS
    ContextIntact
    WalkMeetsHooks
PROPERTY ResumesInterrupted
