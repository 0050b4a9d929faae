SPECIFICATION Spec
CONSTANTS
    HandleLimit = 16
    MaxTransfer = 2
    Sizes = {1}
    Creatable = {"AddressSpace"}
    MaxObjects = 7
    MaxHandles = 6
    MaxSpawn = 1
    MaxSent = 2
    MaxFailed = 1
INVARIANTS
    NeverDuplicated
    MessagesInOrder
PROPERTIES
    HandlesNeverReused
CHECK_DEADLOCK FALSE
