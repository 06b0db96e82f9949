\* Both builds, every task-level NUMA and cpu command.  A build stops for
\* good when memtoy dies of SIGSEGV, so a state where both have died has no
\* successor.
SPECIFICATION BuildsSpec
CHECK_DEADLOCK FALSE
INVARIANT BuildsTypeOK
PROPERTIES
    BuildsCachesFresh
    BuildsFailedKeepsTask
