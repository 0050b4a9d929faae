SPECIFICATION ConsoleSpec
CONSTANTS
    Width = 3
    Height = 2
    InputEvents <- MCInputEvents
    MaxInput = 5
    MaxPending = 1
    EventCapacity = 1
    Framebuffers = 2
    MouseStart <- MCMouseStart
INVARIANTS
    PointerOnScreen
CHECK_DEADLOCK FALSE
