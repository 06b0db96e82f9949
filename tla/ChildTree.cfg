CONSTANTS
    x = x
    y = y
    Pids <- MCPids
    ChildNames <- MCChildNames
    MaxQueue = 1

SPECIFICATION Spec

CHECK_DEADLOCK FALSE

INVARIANTS
    TypeOK

PROPERTIES
    ParentWaitEnds
    OrphansExit
