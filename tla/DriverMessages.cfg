SPECIFICATION FairSpec
CONSTANTS
    Tasks = {0, 1, 2}
    Bootstrap = 0
    NoTask = NoTask
    Space <- MCSpace
    Tasklets = {serial}
    NumDevices = 2
    Vector <- OwnVectors
    Msi = {2}
    Bits = {done}
    Early = {}
    Driver <- OwnTask
    Blocking = {}
INVARIANTS NoLostInterrupt
