------------------------------ MODULE NumaTask ------------------------------
(***************************************************************************)
(* The task-level NUMA commands of commands.c -- numa (numa_info()),      *)
(* migrate (migrate_process()), mems and mpol -- over the library memtoy  *)
(* is linked with: libnuma on a NUMA kernel, or numa_stubs.c.             *)
(*                                                                         *)
(* The kernel's task policy (set_mempolicy(2)) and memtoy's copy of the   *)
(* allowed nodes, gcp->mems_allowed, are state.  init_glctx() sets        *)
(* gcp->numa_max_node from numa_available() and numa_max_node();          *)
(* commands_init() fills gcp->mems_allowed, which bzero() left NULL, only *)
(* when numa_supported(), and gcp->cpus_allowed, the copy of the task's   *)
(* cpu affinity (cpus).  Page placement is not state: no command reads it *)
(* back.  The history variable wild records the first access outside the  *)
(* memory a command owns; read records what the last command took from    *)
(* one of the two copies.                                                  *)
(***************************************************************************)
EXTENDS NumaArgs, FiniteSets

CONSTANTS
    Lib,            \* "libnuma" or "stubs"
    MachineMaxNode, \* the machine's highest node id
    PolicyWords,    \* <policy> words of mpol: names, "none" (show) or others
    NodeWords,      \* node-list words: "none", "*", words of NodeLists, "text"
    HexMasks,       \* mems 0x<mask> words -> the node ids of the mask's bits
    MachineCpus,    \* the machine's online cpu ids
    CpuLists,       \* cpus <cpu-list> words -> the cpu ids they name
    CpuMasks        \* cpus 0x<mask>[,...] words -> the cpu ids of their bits

ASSUME /\ Lib \in {"libnuma", "stubs"}
       /\ MachineMaxNode \in Nat

VARIABLES
    tpol,           \* the kernel's task policy: [mode, nodes]
    mems_allowed,   \* gcp->mems_allowed: [null, ids]
    nodeids,        \* numa_info()'s last buffer: [size, written], 0 and 0 before
    wild,           \* history: "none", "heap_overflow", "null_deref", "uninit_read"
    alive,          \* "alive", or the signal that killed memtoy
    result,         \* outcome of the last command
    affinity,       \* the kernel's cpu affinity of the task
    cpus_allowed,   \* gcp->cpus_allowed
    read            \* history: [what, ids] the last command read from a copy

vars == <<tpol, mems_allowed, nodeids, wild, alive, result, affinity,
          cpus_allowed, read>>

NoRead == [what |-> "none", ids |-> {}]

-----------------------------------------------------------------------------
(* numa_stubs.c, or libnuma over the kernel *)
numa_available == IF Lib = "stubs" THEN -1 ELSE 0

numa_max_node == IF Lib = "stubs" THEN 1 ELSE MachineMaxNode

(* numa_all_nodes: the stub's mask is { 1 }, node 0 *)
numa_all_nodes == IF Lib = "stubs" THEN {0} ELSE 0 .. MachineMaxNode

(* init_glctx(): gcp->numa_max_node *)
MaxNode == IF numa_available >= 0 THEN numa_max_node ELSE -1

(* numa_get_membind(): the nodes of a bind policy, else every node *)
numa_get_membind(tp) ==
    IF Lib = "libnuma" /\ tp.mode = MPOL_BIND THEN tp.nodes
    ELSE numa_all_nodes

(***************************************************************************)
(* set_mempolicy(2): default and local take an empty mask; the others     *)
(* keep the mask's nodes that exist, and preferred with an empty mask     *)
(* means local allocation; bind and interleave left with no node, and a   *)
(* preferred mask naming none, are EINVAL.  This is the kernel's verdict  *)
(* on mpol()'s call, which decides whether the command fails.  The stub    *)
(* returns 0 and changes nothing.                                          *)
(***************************************************************************)
MempolicyValid(mode, ids) ==
    CASE mode \in {MPOL_DEFAULT, MPOL_NOOP} -> ids = {}
      [] mode = MPOL_PREFERRED /\ ids = {}  -> TRUE
      [] OTHER                -> ids \cap numa_all_nodes # {}

set_mempolicy(mode, ids) ==
    IF Lib = "stubs" THEN [ok |-> TRUE, pol |-> tpol]
    ELSE [ok  |-> MempolicyValid(mode, ids),
          pol |-> IF MempolicyValid(mode, ids)
                  THEN [mode |-> mode, nodes |-> ids \cap numa_all_nodes]
                  ELSE tpol]

(* migrate_pages(2) (or the migrate_pages.c wrapper of the syscall): the  *)
(* count of pages it could not move, or EINVAL when no node of the        *)
(* target mask exists                                                      *)
migrate_pages(to_ids) == to_ids \cap numa_all_nodes # {}

(* mutant: the mask is filled only when it is first calloc()ed *)
refresh_mems_allowed_first_only(ma, tp) ==
    IF numa_supported(MaxNode) /\ ma.null
    THEN [null |-> FALSE, ids |-> numa_get_membind(tp)]
    ELSE ma

(* refresh_mems_allowed(): numa_get_membind() into gcp->mems_allowed,     *)
(* calloc()ed on first use, only when numa_supported()                     *)
refresh_mems_allowed(ma, tp) ==
    IF numa_supported(MaxNode)
    THEN [null |-> FALSE, ids |-> numa_get_membind(tp)]
    ELSE ma

NULL == [null |-> TRUE, ids |-> {}]

(* the nodes of 0 .. numa_max_node set in the mask *)
AllowedIds(ma) == {n \in ma.ids : n <= MaxNode}

(***************************************************************************)
(* sched_setaffinity(2): the task may run on the online cpus of the mask; *)
(* a mask naming none of them is EINVAL and changes nothing.              *)
(* refresh_cpus_allowed() callocs gcp->cpus_allowed on first use and      *)
(* copies sched_getaffinity() into it.                                     *)
(***************************************************************************)
sched_setaffinity(ids) ==
    IF ids \cap MachineCpus = {} THEN affinity ELSE ids \cap MachineCpus

(* mutant: the calloc()ed mask is left empty, sched_getaffinity() unread *)
refresh_cpus_allowed_unread(aff) == {}

refresh_cpus_allowed(aff) == aff

MAX_CPUID == 128

(***************************************************************************)
(* The <cpu-list> of cpus: a 0x mask goes to get_cpuset_from_mask(), which *)
(* checks only the shape of the chunks (an all-zero mask is an empty      *)
(* set); any other word to get_cpuset_from_ids(), digits and commas with  *)
(* each id <= gcp->max_cpu_id.                                             *)
(***************************************************************************)
get_cpuset(w) ==
    CASE w \in DOMAIN CpuMasks -> [ok |-> TRUE, ids |-> CpuMasks[w]]
      [] w \in DOMAIN CpuLists ->
            [ok |-> \A c \in CpuLists[w] : c <= MAX_CPUID, ids |-> CpuLists[w]]
      [] OTHER -> [ok |-> FALSE, ids |-> {}]

-----------------------------------------------------------------------------
(* the command loop: one command at a time while memtoy lives *)
Command ==
    /\ alive = "alive"
    /\ UNCHANGED <<wild, affinity, cpus_allowed>>

Refused ==
    /\ result' = "cmd_error"
    /\ read' = NoRead
    /\ UNCHANGED <<tpol, mems_allowed, nodeids, alive>>

(* the command used the node mask it just refreshed *)
ReadMems(ma) == read' = [what |-> "mems", ids |-> ma.ids]

(***************************************************************************)
(* numa: numa_info() refuses without NUMA support, callocs numa_max_node  *)
(* node ids and lets get_current_nodeid_list() write one id for every     *)
(* node of 0 .. numa_max_node in the refreshed mems_allowed; then prints  *)
(* the size of each node, which libnuma's numa_node_size() reports.       *)
(***************************************************************************)
numa_info ==
    LET ma == refresh_mems_allowed(mems_allowed, tpol)
        n  == Cardinality(AllowedIds(ma))
    IN  /\ alive = "alive"
        /\ UNCHANGED <<affinity, cpus_allowed>>
        /\ \/ /\ ~numa_supported(MaxNode)
              /\ Refused
              /\ UNCHANGED wild
           \/ /\ numa_supported(MaxNode)
              /\ mems_allowed' = ma
              /\ nodeids' = [size |-> MaxNode, written |-> n]
              /\ wild' = IF n > MaxNode /\ wild = "none" THEN "heap_overflow"
                         ELSE wild
              /\ result' = "ok"
              /\ ReadMems(ma)
              /\ UNCHANGED <<tpol, alive>>

(***************************************************************************)
(* migrate <to-node-id[s]> [<from-node-id[s]>]: migrate_process() needs   *)
(* NUMA support and a valid to-list; a from-list must be valid, and       *)
(* without one get_current_nodemask() uses the refreshed mems_allowed,    *)
(* refusing an empty one.  Then migrate_pages().                          *)
(***************************************************************************)
migrate_process(to, from) ==
    LET ma == refresh_mems_allowed(mems_allowed, tpol)
    IN  /\ Command
        /\ \/ /\ \/ ~numa_supported(MaxNode)
                 \/ to = "none"
                 \/ ~get_nodemask(to, MaxNode).ok
                 \/ from # "none" /\ ~get_nodemask(from, MaxNode).ok
              /\ Refused
           \/ /\ numa_supported(MaxNode)
              /\ get_nodemask(to, MaxNode).ok
              /\ from = "none"
              /\ mems_allowed' = ma
              /\ result' = IF AllowedIds(ma) # {}
                                /\ migrate_pages(get_nodemask(to, MaxNode).ids)
                            THEN "ok" ELSE "cmd_error"
              /\ ReadMems(ma)
              /\ UNCHANGED <<tpol, nodeids, alive>>
           \/ /\ numa_supported(MaxNode)
              /\ get_nodemask(to, MaxNode).ok
              /\ from # "none" /\ get_nodemask(from, MaxNode).ok
              /\ result' = IF migrate_pages(get_nodemask(to, MaxNode).ids)
                            THEN "ok" ELSE "cmd_error"
              /\ read' = NoRead
              /\ UNCHANGED <<tpol, mems_allowed, nodeids, alive>>

(***************************************************************************)
(* mems [0x<mask>|<node-list>]: a mask (any non-zero bits, no node-id     *)
(* check) or a node list goes to numa_set_membind(), a bind policy that   *)
(* libnuma sets with set_mempolicy() (a refusal is only warned about) and *)
(* the stub ignores.  Then, and with no argument, refresh_mems_allowed()  *)
(* and print gcp->mems_allowed->n[0]: a NULL pointer without NUMA support. *)
(***************************************************************************)
MemsShow(tp) ==
    LET ma == refresh_mems_allowed(mems_allowed, tp)
    IN  /\ tpol' = tp
        /\ mems_allowed' = ma
        /\ UNCHANGED nodeids
        /\ \/ /\ ma.null
              /\ alive' = "SIGSEGV"
              /\ wild' = IF wild = "none" THEN "null_deref" ELSE wild
              /\ read' = NoRead
              /\ UNCHANGED result
           \/ /\ ~ma.null
              /\ result' = "ok"
              /\ ReadMems(ma)
              /\ UNCHANGED <<alive, wild>>

numa_set_membind(ids) == set_mempolicy(MPOL_BIND, ids).pol

mems(w) ==
    /\ alive = "alive"
    /\ UNCHANGED <<affinity, cpus_allowed>>
    /\ \/ /\ w = "none"
          /\ MemsShow(tpol)
       \/ /\ w \in DOMAIN HexMasks
          /\ HexMasks[w] = {}
          /\ Refused
          /\ UNCHANGED wild
       \/ /\ w \in DOMAIN HexMasks
          /\ HexMasks[w] # {}
          /\ MemsShow(numa_set_membind(HexMasks[w]))
       \/ /\ w \notin DOMAIN HexMasks \cup {"none"}
          /\ ~get_nodemask(w, MaxNode).ok
          /\ Refused
          /\ UNCHANGED wild
       \/ /\ w \notin DOMAIN HexMasks \cup {"none"}
          /\ get_nodemask(w, MaxNode).ok
          /\ MemsShow(numa_set_membind(get_nodemask(w, MaxNode).ids))

(***************************************************************************)
(* mpol with no argument: show_task_policy() prints policies[policy] for  *)
(* the policy get_mempolicy() returns.  The stub returns 0 without        *)
(* writing policy, so an uninitialized index selects the entry: any       *)
(* name, or a fault.                                                       *)
(***************************************************************************)
show_task_policy ==
    /\ read' = NoRead
    /\ UNCHANGED <<tpol, mems_allowed, nodeids>>
    /\ \/ /\ Lib = "libnuma"
          /\ result' = "ok"
          /\ UNCHANGED <<alive, wild>>
       \/ /\ Lib = "stubs"
          /\ wild' = IF wild = "none" THEN "uninit_read" ELSE wild
          /\ \/ result' = "ok" /\ UNCHANGED alive
             \/ alive' = "SIGSEGV" /\ UNCHANGED result

(***************************************************************************)
(* mpol <policy> [<node-list>]: no NUMA check.  An unknown policy is      *)
(* CMD_ERROR, 1, which mpol() does not refuse, and nextarg, which         *)
(* get_mbind_policy() then leaves unset, is an uninitialized local:       *)
(* parsing resumes at an arbitrary address -- a fault, an argument error  *)
(* or a node list for MPOL_PREFERRED.  Then get_arg_nodemask() and        *)
(* set_mempolicy().                                                        *)
(***************************************************************************)
SetTaskPolicy(policy, w) ==
    LET m  == get_arg_nodemask(w, policy, MaxNode)
        sp == set_mempolicy(policy, m.ids)
    IN  /\ read' = NoRead
        /\ UNCHANGED <<mems_allowed, nodeids, alive>>
        /\ \/ /\ ~m.ok
              /\ result' = "cmd_error"
              /\ UNCHANGED tpol
           \/ /\ m.ok
              /\ tpol' = sp.pol
              /\ result' = IF sp.ok THEN "ok" ELSE "cmd_error"

mpol(pname, w) ==
    /\ alive = "alive"
    /\ UNCHANGED <<affinity, cpus_allowed>>
    /\ \/ /\ pname = "none"
          /\ show_task_policy
       \/ /\ pname \in DOMAIN policies
          /\ SetTaskPolicy(policies[pname], w)
          /\ UNCHANGED wild
       \/ /\ pname \notin DOMAIN policies \cup {"none"}
          /\ wild' = IF wild = "none" THEN "uninit_read" ELSE wild
          /\ \/ /\ alive' = "SIGSEGV"
                /\ read' = NoRead
                /\ UNCHANGED <<tpol, mems_allowed, nodeids, result>>
             \/ \E v \in NodeWords : SetTaskPolicy(CMD_ERROR, v)

(***************************************************************************)
(* cpus [{0x<mask>|<cpu-list>}]: a list the parser refuses is CMD_ERROR;  *)
(* any other goes to sched_setaffinity(), whose result is ignored.  Then, *)
(* and with no argument, refresh_cpus_allowed() ("what the kernel         *)
(* thinks") and show_cpus() prints gcp->cpus_allowed.  Always success.    *)
(***************************************************************************)
CpusShow(aff) ==
    /\ affinity' = aff
    /\ cpus_allowed' = refresh_cpus_allowed(aff)
    /\ read' = [what |-> "cpus", ids |-> refresh_cpus_allowed(aff)]
    /\ result' = "ok"

(* mutant: the parse result is checked only after sched_setaffinity() *)
cpus_set_before_check(w) ==
    /\ alive = "alive"
    /\ UNCHANGED <<tpol, mems_allowed, nodeids, wild, alive>>
    /\ \/ /\ w = "none"
          /\ CpusShow(affinity)
       \/ /\ w # "none"
          /\ ~get_cpuset(w).ok
          /\ affinity' = sched_setaffinity(get_cpuset(w).ids)
          /\ result' = "cmd_error"
          /\ UNCHANGED cpus_allowed
          /\ read' = NoRead
       \/ /\ w # "none"
          /\ get_cpuset(w).ok
          /\ CpusShow(sched_setaffinity(get_cpuset(w).ids))

cpus(w) ==
    /\ alive = "alive"
    /\ UNCHANGED <<tpol, mems_allowed, nodeids, wild, alive>>
    /\ \/ /\ w = "none"
          /\ CpusShow(affinity)
       \/ /\ w # "none"
          /\ ~get_cpuset(w).ok
          /\ result' = "cmd_error"
          /\ UNCHANGED <<affinity, cpus_allowed>>
          /\ read' = NoRead
       \/ /\ w # "none"
          /\ get_cpuset(w).ok
          /\ CpusShow(sched_setaffinity(get_cpuset(w).ids))
-----------------------------------------------------------------------------
(* init_glctx() -> commands_init(): the task starts with the default     *)
(* policy it inherited                                                     *)
Init ==
    /\ tpol = [mode |-> MPOL_DEFAULT, nodes |-> {}]
    /\ mems_allowed = refresh_mems_allowed(NULL, tpol)
    /\ nodeids = [size |-> 0, written |-> 0]
    /\ wild = "none"
    /\ alive = "alive"
    /\ result = "ok"
    /\ affinity \in SUBSET MachineCpus \ {{}}   \* inherited, e.g. from taskset
    /\ cpus_allowed = refresh_cpus_allowed(affinity)
    /\ read = NoRead

Next ==
    \/ numa_info
    \/ \E to, from \in NodeWords : migrate_process(to, from)
    \/ \E w \in NodeWords \cup DOMAIN HexMasks : mems(w)
    \/ \E p \in PolicyWords, w \in NodeWords : mpol(p, w)
    \/ \E w \in {"none", "text"} \cup DOMAIN CpuLists \cup DOMAIN CpuMasks : cpus(w)

Spec == Init /\ [][Next]_vars

-----------------------------------------------------------------------------
NumaTypeOK ==
    /\ tpol \in [mode : 0 .. 4, nodes : SUBSET (0 .. MachineMaxNode)]
    /\ mems_allowed \in [null : BOOLEAN, ids : SUBSET (0 .. MachineMaxNode)]
    /\ nodeids \in [size : 0 .. MachineMaxNode, written : 0 .. MachineMaxNode + 1]
    /\ wild \in {"none", "heap_overflow", "null_deref", "uninit_read"}
    /\ alive \in {"alive", "SIGSEGV"}
    /\ affinity \in SUBSET MachineCpus \ {{}}
    /\ cpus_allowed \in SUBSET MachineCpus \ {{}}
    /\ read \in [what : {"none", "mems", "cpus"}, ids : SUBSET (MachineCpus \cup (0 .. MachineMaxNode))]

(***************************************************************************)
(* Spec, error classes: a validation error never escapes as a process     *)
(* fault.  The numa, mems and mpol commands touch only memory they own:   *)
(* numa_info() writes no node id past the numa_max_node entries it        *)
(* callocs, mems never prints through a NULL gcp->mems_allowed, and mpol  *)
(* reads no uninitialized policy or argument pointer.                      *)
(***************************************************************************)
NumaMemorySafe == wild = "none"

(***************************************************************************)
(* Spec, process context: the allowed masks are snapshots refreshed on    *)
(* demand.  gcp->mems_allowed and gcp->cpus_allowed are process-wide      *)
(* copies of kernel state that mpol, mems and cpus change; every command  *)
(* that uses one (numa, migrate without a from-list, mems, cpus) first    *)
(* refreshes it, so what it shows or migrates from is the task's current  *)
(* membind or affinity, whatever commands ran since the copy was taken.   *)
(***************************************************************************)
ReadIsFresh ==
    read' # NoRead =>
        read'.ids = IF read'.what = "mems" THEN numa_get_membind(tpol')
                    ELSE affinity'

CachesFreshWhenRead == [][ReadIsFresh]_vars

(***************************************************************************)
(* Spec, error classes: a command that fails -- an argument the parser    *)
(* refuses, or a policy or migration call the kernel refuses -- leaves    *)
(* the task's memory policy and cpu affinity as they were.                *)
(***************************************************************************)
FailureKeepsTask == result' = "cmd_error" => UNCHANGED <<tpol, affinity>>

FailedCommandKeepsTask == [][FailureKeepsTask]_vars

=============================================================================
