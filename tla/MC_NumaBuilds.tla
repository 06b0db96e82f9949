--------------------------- MODULE MC_NumaBuilds ---------------------------
(***************************************************************************)
(* NumaTask under both builds of memtoy: linked with libnuma on a         *)
(* two-node, two-cpu machine, or with numa_stubs.c on the same machine.   *)
(* lib is fixed for a behaviour; the two instances share the variables.   *)
(* The command words are those of MC_NumaTask, with an unknown policy     *)
(* word added.                                                            *)
(***************************************************************************)
EXTENDS TLC

VARIABLES lib, tpol, mems_allowed, nodeids, wild, alive, result, affinity,
          cpus_allowed, read

taskvars == <<tpol, mems_allowed, nodeids, wild, alive, result, affinity,
              cpus_allowed, read>>

NodeListWords == ("0" :> {0}) @@ ("1" :> {1}) @@ ("0,1" :> {0, 1}) @@ ("2" :> {2})

Words == {"none", "*", "text", "0", "1", "0,1", "2"}

PolicyNames == {"none", "default", "preferred", "bind", "interleaved", "noop",
                "bogus"}

MemsMasks == ("0x0" :> {}) @@ ("0x1" :> {0}) @@ ("0x4" :> {2})

CpuListWords == ("0" :> {0}) @@ ("0,1" :> {0, 1}) @@ ("2" :> {2}) @@ ("1,129" :> {1, 129})

CpuMaskWords == ("0x0" :> {}) @@ ("0x2" :> {1})

Numa == INSTANCE NumaTask
          WITH Lib <- "libnuma", MachineMaxNode <- 1, NodeLists <- NodeListWords,
               NodeWords <- Words, PolicyWords <- PolicyNames,
               HexMasks <- MemsMasks, MachineCpus <- {0, 1},
               CpuLists <- CpuListWords, CpuMasks <- CpuMaskWords

Stub == INSTANCE NumaTask
          WITH Lib <- "stubs", MachineMaxNode <- 1, NodeLists <- NodeListWords,
               NodeWords <- Words, PolicyWords <- PolicyNames,
               HexMasks <- MemsMasks, MachineCpus <- {0, 1},
               CpuLists <- CpuListWords, CpuMasks <- CpuMaskWords

BuildsInit ==
    \/ lib = "libnuma" /\ Numa!Init
    \/ lib = "stubs" /\ Stub!Init

BuildsNext ==
    /\ UNCHANGED lib
    /\ \/ lib = "libnuma" /\ Numa!Next
       \/ lib = "stubs" /\ Stub!Next

BuildsSpec == BuildsInit /\ [][BuildsNext]_<<lib, taskvars>>

BuildsTypeOK ==
    /\ lib \in {"libnuma", "stubs"}
    /\ IF lib = "libnuma" THEN Numa!NumaTypeOK ELSE Stub!NumaTypeOK

(* In either build, every command that uses gcp->mems_allowed or          *)
(* gcp->cpus_allowed uses the task's current membind or affinity, as      *)
(* NumaTask's CachesFreshWhenRead states.                                  *)
BuildsCachesFresh ==
    [][IF lib = "libnuma" THEN Numa!ReadIsFresh ELSE Stub!ReadIsFresh]_<<lib, taskvars>>

(* In either build, a failed numa, migrate, mems, mpol or cpus command    *)
(* leaves the task policy and cpu affinity unchanged, as NumaTask's        *)
(* FailedCommandKeepsTask states.                                          *)
BuildsFailedKeepsTask ==
    [][IF lib = "libnuma" THEN Numa!FailureKeepsTask
       ELSE Stub!FailureKeepsTask]_<<lib, taskvars>>

=============================================================================
