SPECIFICATION MCSpec
CONSTANTS
    MAX_ORDER = 3
    Size <- MCSize
    Usable <- MCUsable
    Counts = {1, 2, 3, 8, 9}
    Fanout = 3
    Architectures = {"x86_64", "sv48", "sv39"}
    Areas <- MCAreas
    HalFlags <- MCHalFlags
    MaxCalls = 3
    UserPages = {1, 2, 4}
    StackBase = 5
    SlotPages = 3
    StackPages = 2
    SlotBits = 3
    KernelSpan = 8
    KernelPages = 12
    ObjectSizes = {0, 2}
    MaxObjects = 2
    MaxSpaces = 2
    MaxTasks = 3
    MaxSystemCalls = 5
    Fdts <- MCFdts
    UefiMaps <- MCUefiMaps
    Kernels <- MCKernels
    UserImages <- MCUserImages
    PoolFrames = 10
    InfoPages = 1
    HeapPages = 1
    PHYSICAL_MAPPING_BASE = 27
    PHYSICAL_MAP_SIZE = 27
    KERNEL_IMAGE_BASE = 54
    LOADED_IMAGE_MAX_SEGMENTS = 3
INVARIANTS
    FailsOnlyWhenExhausted
    TranslateAgrees
    MappedObjectsVisible
    KernelSeenEverywhere
    StacksApart
    MemoryGivenOnce
    KernelImageMapped
PROPERTIES
    KeepsPromise
    CallsReturn
    TablesKeepPageMap
CHECK_DEADLOCK FALSE
