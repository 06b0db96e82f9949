CONSTANTS
    x = x
    y = y
    Pids <- MCPids
    ChildNames <- MCChildNames
    MaxQueue = 2

SPECIFICATION Spec

CHECK_DEADLOCK FALSE

INVARIANTS
    NoUseAfterFree
