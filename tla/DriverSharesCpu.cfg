SPECIFICATION FairSpec
CONSTANTS
    Tasks = {0, 1, 2}
    Bootstrap = 0
    NoTask = NoTask
    Space <- MCSpace
    Tasklets = {}
    NumDevices = 2
    Vector <- SharedLine
    Msi = {}
    Bits = {done}
    Early = {}
    Driver <- OwnTask
    Blocking = {}
PROPERTIES SharesCpu
