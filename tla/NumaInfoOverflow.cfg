\* numa on a two-node machine with both nodes allowed: get_current_nodeid_list()
\* writes two node ids into the one numa_info() callocs.
CONSTANTS
    Lib = "libnuma"
    MachineMaxNode = 1
    NodeLists <- MCNodeLists
    NodeWords <- MCNodeWords
    PolicyWords <- MCPolicyWords
    HexMasks <- MCHexMasks
    MachineCpus = {0, 1}
    CpuLists <- MCCpuLists
    CpuMasks <- MCCpuMasks
SPECIFICATION Spec
INVARIANT NumaMemorySafe
