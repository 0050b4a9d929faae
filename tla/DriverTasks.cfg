SPECIFICATION FairSpec
CONSTANTS
    Tasks = {0, 1, 2, 3}
    Bootstrap = 0
    NoTask = NoTask
    Space <- MCSpace
    Tasklets = {serial}
    NumDevices = 3
    Vector <- SharedLine
    Msi = {3}
    Bits = {done}
    Early = {}
    Driver <- OwnTask
    Blocking = {3}
INVARIANTS SpaceFollowsTask NoLostInterrupt HandlersSafe
PROPERTIES NoOvertaking ProgressUnlessStorm
