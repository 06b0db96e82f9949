--------------------------- MODULE MC_SegmentOps ---------------------------
(***************************************************************************)
(* The instance of MC_TouchHarness (3-bit size_t, 2-byte pages, the task's *)
(* heap from /proc/<pid>/maps and one more segment name) with the range,  *)
(* lock and policy commands added on a two-node machine.  The policy      *)
(* words are one that takes no node list, one that requires one, and '*', *)
(* which policies[] does not know; the node lists are none, '*' and node 0.*)
(***************************************************************************)
EXTENDS SegmentOps, MC_TouchHarness

MCPolicyNames == {"default", "bind", "*"}

MCNodeArgs == {"none", "*", "0"}

(* node 0 of a two-node machine *)
MCNodeLists == [w \in {"0"} |-> {0}]

(* the bind_policy run: the word '*' where the policy belongs, the last   *)
(* word of the line                                                        *)
MCUnknownPolicyNames == {"*"}

MCNoNodeArgs == {"none"}

(* result, lastOp and kcall are read by no action, only by action properties *)
OpsView == TouchView

=============================================================================
