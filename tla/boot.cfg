SPECIFICATION BootSpec
CONSTANTS
    CPU = {c1, c2, c3}
    VirtdbgEnds <- MCVirtdbgEnds
    PageSize = 4
    Requests <- SmallRequests
    Memory <- ObservedMemory
    MaxBlocks = 3
    Fan = 16
    Levels = 3
    IdentityPages = 16
    PhysOffset = 2048
    KernelOffset = 4032
    StackSize = 8
    StateSize = 3
    Reserve = 16
    Machines <- MCMachines
CHECK_DEADLOCK FALSE
SYMMETRY Symmetry
INVARIANTS
    TypeOK
    ContentIntact
    BlockAligned
    AddressSpace
    ArgsDescribe
    LoaderIntact
PROPERTIES
    ImplementsAllocator
