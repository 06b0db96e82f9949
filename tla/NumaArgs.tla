------------------------------ MODULE NumaArgs ------------------------------
(***************************************************************************)
(* The policy and node-list arguments of commands.c, shared by mbind      *)
(* (SegmentOps) and mpol, mems and migrate (NumaTask).  A node-list       *)
(* argument is a word: "none" (nothing left on the line), "*", a word of   *)
(* NodeLists (digits and commas, naming the node ids NodeLists[w]), or    *)
(* any other text.  maxnode is gcp->numa_max_node: numa_max_node() when    *)
(* numa_available() >= 0, else -1.                                         *)
(***************************************************************************)
EXTENDS Integers

CONSTANT NodeLists      \* node-list words -> the node ids each one names

(* policies[] and the MPOL_* value each name stands for *)
policies == [default |-> 0, preferred |-> 1, bind |-> 2, interleaved |-> 3,
             noop |-> 4]

MPOL_DEFAULT == 0
MPOL_PREFERRED == 1
MPOL_BIND == 2
MPOL_INTERLEAVE == 3
MPOL_NOOP == 4

CMD_ERROR == 1

(* numa_supported(): a node id above 0 exists *)
numa_supported(maxnode) == maxnode > 0

(***************************************************************************)
(* get_mbind_policy(): the first policies[] entry the argument matches,   *)
(* else CMD_ERROR after "unrecognized policy" -- without advancing        *)
(* *nextarg past the word.                                                 *)
(***************************************************************************)
get_mbind_policy(pname) ==
    IF pname \in DOMAIN policies THEN policies[pname] ELSE CMD_ERROR

(***************************************************************************)
(* get_nodemask(): digits separated by commas, each id <= maxnode.  The   *)
(* result is a mask or an error.                                           *)
(***************************************************************************)
get_nodemask(w, maxnode) ==
    IF w \in DOMAIN NodeLists /\ \A i \in NodeLists[w] : i <= maxnode
    THEN [ok |-> TRUE, ids |-> NodeLists[w]]
    ELSE [ok |-> FALSE, ids |-> {}]

(***************************************************************************)
(* get_arg_nodemask(): default and noop take no node list and ignore the  *)
(* rest of the line; any other policy requires one; '*' alone is accepted  *)
(* for interleave and preferred, as a NULL mask; otherwise get_nodemask(). *)
(***************************************************************************)
get_arg_nodemask(w, policy, maxnode) ==
    CASE policy \in {MPOL_DEFAULT, MPOL_NOOP} -> [ok |-> TRUE, ids |-> {}]
      [] w = "none" -> [ok |-> FALSE, ids |-> {}]
      [] w = "*"    -> [ok |-> policy \in {MPOL_INTERLEAVE, MPOL_PREFERRED},
                        ids |-> {}]
      [] OTHER      -> get_nodemask(w, maxnode)

(***************************************************************************)
(* The node-list word a command goes on to parse after its policy word:   *)
(* the next word when the policy was recognised; the policy word itself   *)
(* when it was not (nextarg still points at it), followed by the rest of  *)
(* the line, which no node list can then contain.                          *)
(***************************************************************************)
NodeWordAfter(pname, nodes) ==
    CASE pname \in DOMAIN policies -> nodes
      [] nodes = "none"            -> pname
      [] OTHER                     -> "text"

=============================================================================
