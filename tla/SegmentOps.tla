----------------------------- MODULE SegmentOps -----------------------------
(***************************************************************************)
(* The commands that hand a range of a segment to the kernel: mbind       *)
(* (mbind_seg() and segment_mbind()), lock/unlock and slock/sunlock       *)
(* (lock_unlock() and segment_lock_unlock()) and where (where_seg() and   *)
(* segment_location()), over the touch harness and the segment table.    *)
(*                                                                         *)
(* Each of segment_mbind(), segment_lock_unlock() and segment_location()  *)
(* repeats the lookup, the "not mapped" test and its own copy of the      *)
(* offset clamp and length truncation before its system call.  The kernel *)
(* call they end in is recorded in the history variable kcall: which call, *)
(* on which slot, over which byte range of the mapping and, for mbind(),   *)
(* the policy value and the policy name the user typed.  A call the       *)
(* kernel may refuse (mbind(), mlock() under RLIMIT_MEMLOCK, SHM_LOCK      *)
(* without CAP_IPC_LOCK, get_mempolicy() of a page) succeeds or fails     *)
(* nondeterministically.  The page placement the calls change is not      *)
(* state here: no command reads it back except where, which only prints. *)
(***************************************************************************)
EXTENDS TouchHarness, NumaArgs

CONSTANTS
    PolicyNames,    \* <policy> arguments of the mbind command
    NodeArgs,       \* <node-list> words (see NumaArgs)
    NumaMaxNode,    \* gcp->numa_max_node
    NoCall          \* kcall when the step made no ranged kernel call

VARIABLE kcall

opsVars == <<allVars, kcall>>

(* DEFAULT_LENGTH: (size_t)-1, the where command given no range *)
DEFAULT_LENGTH == SizeMax

(* mutant: the length is replaced by the rest of the segment only when 0 *)
mbind_range_no_truncate(r, range) ==
    ResolveRange_no_truncate(r.length, r.pagesize, range.offset, range.length)

(* segment_mbind(): round the offset down, refuse it past the end, round  *)
(* the length up and truncate it to the end of the segment                *)
mbind_range(r, range) ==
    ResolveRange(r.length, r.pagesize, range.offset, range.length)

(* segment_lock_unlock(): the same resolution, its own copy *)
lock_range(r, range) ==
    ResolveRange(r.length, r.pagesize, range.offset, range.length)

(***************************************************************************)
(* segment_location(): the same resolution, except that where_seg() asks  *)
(* for DEFAULT_LENGTH when no range is given, which becomes 64 pages of    *)
(* the segment (in size_t) before the length is rounded and truncated.    *)
(***************************************************************************)
location_range(r, range) ==
    LET rlength == IF range.length = DEFAULT_LENGTH
                   THEN (64 * r.pagesize) % Word ELSE range.length
    IN  ResolveRange(r.length, r.pagesize, range.offset, rlength)

KCall(call, s, rr, pname, nodes, policy) ==
    [call |-> call, slot |-> s, offset |-> rr.offset, length |-> rr.length,
     pname |-> pname, nodes |-> nodes, policy |-> policy]

(* the command loop's reset_signal() before the line; no sweep is running *)
OpsCommandStart ==
    /\ tpc = "idle"
    /\ reset_signal
    /\ UNCHANGED <<tpc, tslot, trw, pp, memend, step, infocopy, fault, reported>>

(* what a command that gets as far as segment_get() does to the table *)
OpsLookup(op, name, range, g) ==
    /\ seg_avail' = g.avail
    /\ nslots' = g.nslots
    /\ lastOp' = [op |-> op, name |-> name, range |-> range]
    /\ UNCHANGED <<seg, kfds, kshm, fsize, geom>>

(* the lookup and the "not mapped" test all three functions open with *)
LookupFails(g) ==
    /\ \/ g.slot = NoSlot /\ result' = "no_such_segment"
       \/ g.slot # NoSlot /\ ~Mapped(seg[g.slot]) /\ result' = "not_mapped"
    /\ kcall' = NoCall
    /\ UNCHANGED alive

-----------------------------------------------------------------------------
(***************************************************************************)
(* segment_mbind(): lookup, "not mapped", "past end of segment", then     *)
(* mbind() of the resolved range with the policy value, which the kernel  *)
(* may refuse.                                                             *)
(***************************************************************************)
segment_mbind(name, range, pname, nodes, policy) ==
    LET g  == segment_get(seg, nslots, seg_avail, name)
        rr == mbind_range(seg[g.slot], range)
    IN  /\ OpsLookup("bind", name, range, g)
        /\ \/ LookupFails(g)
           \/ /\ g.slot # NoSlot /\ Mapped(seg[g.slot])
              /\ ~rr.ok
              /\ result' = "past_end"
              /\ kcall' = NoCall
              /\ UNCHANGED alive
           \/ /\ g.slot # NoSlot /\ Mapped(seg[g.slot])
              /\ rr.ok
              /\ kcall' = KCall("mbind", g.slot, rr, pname, nodes, policy)
              /\ result' \in {"ok", "mbind_failed"}
              /\ UNCHANGED alive

(***************************************************************************)
(* mbind <name> [<offset> <length>] <policy> <node-list>: mbind_seg()      *)
(* refuses the command without NUMA support, parses the policy (a         *)
(* negative value is refused, CMD_ERROR is not, and an unknown word is     *)
(* then parsed again as the node list) and the node list before           *)
(* segment_mbind() looks the segment up.  The node-list word recorded is  *)
(* the one parsed.                                                         *)
(***************************************************************************)
mbind_seg(name, range, pname, nodes) ==
    LET policy == get_mbind_policy(pname)
        word   == NodeWordAfter(pname, nodes)
    IN  /\ OpsCommandStart
        /\ \/ /\ \/ ~numa_supported(NumaMaxNode)
                 \/ policy < 0
                 \/ ~get_arg_nodemask(word, policy, NumaMaxNode).ok
              /\ result' = "bad_argument"
              /\ lastOp' = [op |-> "bind", name |-> name, range |-> range]
              /\ kcall' = NoCall
              /\ UNCHANGED <<seg, nslots, seg_avail, kfds, kshm, fsize, geom,
                             alive>>
           \/ /\ numa_supported(NumaMaxNode)
              /\ policy >= 0
              /\ get_arg_nodemask(word, policy, NumaMaxNode).ok
              /\ segment_mbind(name, range, pname, word, policy)

-----------------------------------------------------------------------------
(***************************************************************************)
(* segment_location(): lookup, "not mapped", "past end of segment", the   *)
(* range (64 pages by default), then pgid = offset / seg_pagesize -- an   *)
(* integer division that traps (SIGFPE, not handled: the process dies)    *)
(* for a segment from /proc/<pid>/maps, whose page size is 0 -- then the  *)
(* get_node() walk over the range: a page whose node cannot be read ends  *)
(* it with SEG_ERR; a recorded SIGINT/SIGQUIT ends it early with          *)
(* reset_signal() and SEG_OK, as does the end of the range.               *)
(***************************************************************************)
segment_location(name, range) ==
    LET g  == segment_get(seg, nslots, seg_avail, name)
        r  == seg[g.slot]
        rr == location_range(r, range)
    IN  /\ OpsLookup("where", name, range, g)
        /\ \/ LookupFails(g)
           \/ /\ g.slot # NoSlot /\ Mapped(r)
              /\ ~rr.ok
              /\ result' = "past_end"
              /\ kcall' = NoCall
              /\ UNCHANGED alive
           \/ /\ g.slot # NoSlot /\ Mapped(r)
              /\ rr.ok
              /\ r.pagesize = 0
              /\ alive' = "SIGFPE"
              /\ kcall' = NoCall
              /\ UNCHANGED result
           \/ /\ g.slot # NoSlot /\ Mapped(r)
              /\ rr.ok
              /\ r.pagesize # 0
              /\ kcall' = KCall("get_mempolicy", g.slot, rr, "none", "none", 0)
              /\ result' \in {"ok", "get_node_failed"}
              /\ UNCHANGED alive

(***************************************************************************)
(* where <name> [<offset> <length>]: where_seg() refuses the command      *)
(* without NUMA support; without a range the offset is 0 and the length   *)
(* DEFAULT_LENGTH.                                                          *)
(***************************************************************************)
where_seg(name, range) ==
    LET rg == IF range = NoRange
              THEN [offset |-> 0, length |-> DEFAULT_LENGTH] ELSE range
    IN  /\ OpsCommandStart
        /\ IF numa_supported(NumaMaxNode)
           THEN segment_location(name, rg)
           ELSE /\ result' = "bad_argument"
                /\ lastOp' = [op |-> "where", name |-> name, range |-> range]
                /\ kcall' = NoCall
                /\ UNCHANGED <<seg, nslots, seg_avail, kfds, kshm, fsize, geom,
                               alive>>

(***************************************************************************)
(* segment_lock_unlock(): lookup and "not mapped" first, for slock and    *)
(* sunlock too; then SHM_LOCK / SHM_UNLOCK of the shm id, refused for a   *)
(* segment of another type; or mlock() / munlock() of the resolved range. *)
(* The kernel may refuse SHM_LOCK and mlock() (RLIMIT_MEMLOCK, no         *)
(* CAP_IPC_LOCK); unlocking a mapped range always succeeds.                *)
(***************************************************************************)
segment_lock_unlock(name, range, lock, shm) ==
    LET g  == segment_get(seg, nslots, seg_avail, name)
        r  == seg[g.slot]
        rr == lock_range(r, range)
    IN  /\ OpsLookup(IF lock THEN "lock" ELSE "unlock", name, range, g)
        /\ UNCHANGED alive
        /\ \/ LookupFails(g)
           \/ /\ g.slot # NoSlot /\ Mapped(r)
              /\ shm
              /\ r.type # "SHM"
              /\ result' = "not_shm"
              /\ kcall' = NoCall
           \/ /\ g.slot # NoSlot /\ Mapped(r)
              /\ shm
              /\ r.type = "SHM"
              /\ kcall' = KCall(IF lock THEN "SHM_LOCK" ELSE "SHM_UNLOCK", g.slot,
                                [offset |-> 0, length |-> r.length],
                                "none", "none", 0)
              /\ result' \in IF lock THEN {"ok", "shmctl_failed"} ELSE {"ok"}
           \/ /\ g.slot # NoSlot /\ Mapped(r)
              /\ ~shm
              /\ ~rr.ok
              /\ result' = "past_end"
              /\ kcall' = NoCall
           \/ /\ g.slot # NoSlot /\ Mapped(r)
              /\ ~shm
              /\ rr.ok
              /\ kcall' = KCall(IF lock THEN "mlock" ELSE "munlock", g.slot, rr,
                                "none", "none", 0)
              /\ result' \in IF lock THEN {"ok", "mlock_failed"} ELSE {"ok"}

(* lock_unlock(): lock and unlock take a range; slock and sunlock do not *)
lock_unlock(lock, shm, name, range) ==
    OpsCommandStart /\ segment_lock_unlock(name, range, lock, shm)

-----------------------------------------------------------------------------
OpsInit == TouchInit /\ kcall = NoCall

OpsTouchStep == TouchStep /\ kcall' = NoCall

OpsNext ==
    \/ TouchNext /\ kcall' = NoCall
    \/ alive = "alive" /\ \E n \in Names, rg \in TouchRanges,
                             p \in PolicyNames, nd \in NodeArgs :
          mbind_seg(n, rg, p, nd)
    \/ alive = "alive" /\ \E n \in Names, rg \in TouchRanges \cup {NoRange} :
          where_seg(n, rg)
    \/ alive = "alive" /\ \E n \in Names, rg \in TouchRanges, lk \in BOOLEAN :
          lock_unlock(lk, FALSE, n, rg)
    \/ alive = "alive" /\ \E n \in Names, lk \in BOOLEAN :
          lock_unlock(lk, TRUE, n, [offset |-> 0, length |-> 0])

(* the same fairness as the touch harness: memtoy's own sweep steps *)
OpsSpec == OpsInit /\ [][OpsNext]_opsVars /\ WF_opsVars(OpsTouchStep)

-----------------------------------------------------------------------------
KCalls ==
    [call : {"mbind", "get_mempolicy", "mlock", "munlock", "SHM_LOCK",
             "SHM_UNLOCK"},
     slot : Slots, offset : Size, length : Size,
     pname : PolicyNames \cup {"none"},
     nodes : NodeArgs \cup PolicyNames \cup {"none"},
     policy : 0 .. 4]

OpsTypeOK ==
    /\ TouchTypeOK
    /\ kcall \in KCalls \cup {NoCall}

(***************************************************************************)
(* Spec 8: bind, lock and locate clamp a range to the segment's end.      *)
(* Every range segment_mbind(), segment_lock_unlock() and                  *)
(* segment_location() hand to mbind(), mlock(), munlock() or the          *)
(* get_node() walk lies inside the segment's mapping, whatever offset and *)
(* length the command was given, including where's 64-page default.      *)
(***************************************************************************)
KernelRangeInSegment ==
    [][kcall' # NoCall =>
         kcall'.offset + kcall'.length <= seg'[kcall'.slot].length]_opsVars

(***************************************************************************)
(* Spec 4.3 and 6: an unrecognized policy is a validation error, and '*'  *)
(* is a node list only for preferred and interleaved.  mbind() is called  *)
(* only with a policy named in policies[] and a node list the spec        *)
(* accepts for it: get_mbind_policy() signals an unknown name with        *)
(* CMD_ERROR, which is 1, and mbind_seg() tests only for a negative value.*)
(***************************************************************************)
BindPolicyValidated ==
    [][kcall' # NoCall /\ kcall'.call = "mbind" =>
         /\ kcall'.pname \in DOMAIN policies
         /\ kcall'.nodes = "*" => kcall'.pname \in {"preferred", "interleaved"}
      ]_opsVars

(***************************************************************************)
(* Spec, error classes: no command kills the process with an arithmetic    *)
(* trap.  segment_touch()'s report and segment_location()'s first page id *)
(* divide by seg_pagesize, which is 0 for a segment from /proc/<pid>/maps *)
(* and for one never mapped.                                               *)
(***************************************************************************)
NoArithmeticTrap == alive # "SIGFPE"

=============================================================================
