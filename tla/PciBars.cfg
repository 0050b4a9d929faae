SPECIFICATION PciSpec
CONSTANTS
    PciMachines <- MCPciMachines
    NumBuses = 2
    NumSlots = 2
    NumFunctions = 2
INVARIANTS
    BarsApart
CHECK_DEADLOCK FALSE
