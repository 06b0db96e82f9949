---------------------------- MODULE MC_NumaTask ----------------------------
(***************************************************************************)
(* NumaTask on a two-node machine (numa_max_node() = 1) under libnuma:    *)
(* every policy name and no word for mpol; node lists                     *)
(* "0", "1", "0,1" and "2" (beyond the machine), "*", other text and no   *)
(* word; mems masks 0x0 (refused), 0x1 and 0x4 (a node that does not      *)
(* exist); two online cpus, cpu lists "0", "0,1", "2" (offline) and       *)
(* "1,129" (129 is above MAX_CPUID), cpu masks 0x0 (empty) and 0x2.       *)
(***************************************************************************)
EXTENDS NumaTask, TLC

MCNodeLists == ("0" :> {0}) @@ ("1" :> {1}) @@ ("0,1" :> {0, 1}) @@ ("2" :> {2})

MCNodeWords == {"none", "*", "text", "0", "1", "0,1", "2"}

MCPolicyWords == {"none", "default", "preferred", "bind", "interleaved", "noop"}

MCHexMasks == ("0x0" :> {}) @@ ("0x1" :> {0}) @@ ("0x4" :> {2})

MCCpuLists == ("0" :> {0}) @@ ("0,1" :> {0, 1}) @@ ("2" :> {2}) @@ ("1,129" :> {1, 129})

MCCpuMasks == ("0x0" :> {}) @@ ("0x2" :> {1})

=============================================================================
