--------------------------- MODULE SegmentRegistry ---------------------------
(***************************************************************************)
(* What the segment table promises its commands, without slots: a         *)
(* collection of named segments, each of a type, mapped or not, and       *)
(* either registered by a command or observed in /proc/<pid>/maps at      *)
(* start-up.  A name names at most one segment.  A register command adds  *)
(* a segment under a new name while fewer than Capacity segments exist;   *)
(* it is refused as "exists" only when the name is taken and as "full"    *)
(* only when Capacity segments exist.  map, unmap and remove change one    *)
(* segment; a segment from maps is never unmapped or removed.  Any other  *)
(* command, and any command that fails, leaves the collection alone.      *)
(***************************************************************************)
EXTENDS Naturals, FiniteSets

CONSTANTS
    Names,      \* segment names
    Capacity,   \* how many segments the table can hold
    Absent      \* segs[n] when no segment is named n

Types == {"ANON", "FILE", "SHM"}

Segs == [type : Types, mapped : BOOLEAN, maps : BOOLEAN]

None == [why |-> "none", name |-> Absent]

VARIABLES
    segs,       \* Names -> Segs \cup {Absent}
    refusal     \* the refusal of the last command: why and which name

vars == <<segs, refusal>>

Present == {n \in Names : segs[n] # Absent}

(* the task's mappings found at start-up: mapped, from maps, within capacity *)
Init ==
    /\ segs \in [Names -> Segs \cup {Absent}]
    /\ \A n \in Present : segs[n].mapped /\ segs[n].maps
    /\ Cardinality(Present) <= Capacity
    /\ refusal = None

Register(n, t) ==
    /\ segs[n] = Absent
    /\ Cardinality(Present) < Capacity
    /\ segs' = [segs EXCEPT ![n] = [type |-> t, mapped |-> FALSE, maps |-> FALSE]]
    /\ refusal' = None

Refuse(n) ==
    /\ \/ segs[n] # Absent /\ refusal' = [why |-> "exists", name |-> n]
       \/ /\ segs[n] = Absent
          /\ Cardinality(Present) = Capacity
          /\ refusal' = [why |-> "full", name |-> n]
    /\ UNCHANGED segs

Map(n) ==
    /\ segs[n] # Absent
    /\ ~segs[n].mapped
    /\ segs' = [segs EXCEPT ![n].mapped = TRUE]
    /\ refusal' = None

Unmap(n) ==
    /\ segs[n] # Absent
    /\ ~segs[n].maps
    /\ segs[n].mapped
    /\ segs' = [segs EXCEPT ![n].mapped = FALSE]
    /\ refusal' = None

Remove(n) ==
    /\ segs[n] # Absent
    /\ ~segs[n].maps
    /\ segs' = [segs EXCEPT ![n] = Absent]
    /\ refusal' = None

(* a lookup, a show, a command that fails for any other reason *)
Other ==
    /\ refusal' = None
    /\ UNCHANGED segs

Next ==
    \/ Other
    \/ \E n \in Names : \/ \E t \in Types : Register(n, t)
                        \/ Refuse(n) \/ Map(n) \/ Unmap(n) \/ Remove(n)

Spec == Init /\ [][Next]_vars

=============================================================================
