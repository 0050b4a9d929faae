SPECIFICATION MCSpec
CONSTANTS
    Manifests <- MCManifests
    Program <- MCProgram
    DeviceDrivers <- MCDeviceDrivers
    BusDrivers <- MCBusDrivers
    Filters <- MCFilters
    Supports <- MCSupports
    BusDevices <- MCBusDevices
    Before <- MCBefore
    MaxDevices = 4
    KernelDevices <- MCKernelDevices
    PciMachines <- MCPciMachines
    NumBuses = 2
    NumSlots = 2
    NumFunctions = 2
    NumPorts = 5
    Attached <- MCAttached
    Requests <- MCRequests
    QueueSize = 6
    IndexModulus = 12
    Slots = 3
    HidDevices <- MCHidDevices
    Futures = {1, 2, 3}
    KindOf <- MCKindOf
    MaxSignals = 2
    Width = 3
    Height = 2
    InputEvents <- MCInputEvents
    MaxInput = 4
    MaxPending = 1
    EventCapacity = 1
    Framebuffers = 2
    MouseStart <- MCMouseStart
    Letters <- MCLetters
    Scripts <- MCScripts
    Misfits <- MCMisfits
    Messages <- MCMessages
    BufferSizes = {3, 12, 21}
    CHANNEL_MAX_NUM_BYTES = 32
    BYTES_BUFFER_SIZE = 28
    CHANNEL_MAX_NUM_HANDLES = 4
    Configurations <- MCConfigurations
    Files <- MCFiles
    ReadRequests <- MCReadRequests
    DEFAULT_BLOCK_SIZE = 2
    BlockNumbers = 4
    MaxRepeats = 2
    MaxLosses = 1
INVARIANTS
    HandedOffOnce
    BarsUsable
    ScheduleSound
    TransfersReachTheirDevice
    ChainsIntact
    ReportsReadRight
    TypedLineShown
    DisplayUpToDate
    ProgramsMeanWhatTheySay
    MessagesSurvive
    ConfigReadBack
    FileIntact
PROPERTIES
    EveryRequestAnswered
    WantedDevicesClaimed
    CompletionsNoticed
    KeyEventsAreChanges
    EverySignalServed
CHECK_DEADLOCK FALSE
