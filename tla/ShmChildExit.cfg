CONSTANTS
    s1 = s1
    s2 = s2
    Procs <- MCProcs
    ShmIds <- MCShmIds

SPECIFICATION Spec

CHECK_DEADLOCK FALSE

INVARIANTS
    ParentShmKept
