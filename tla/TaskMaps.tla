------------------------------ MODULE TaskMaps ------------------------------
(***************************************************************************)
(* get_task_segments() and classify_segment() of segment.c: at start-up   *)
(* memtoy reads /proc/<pid>/maps line by line and turns every accessible  *)
(* mapping that has a path into a segment description, which              *)
(* segment_register() then records with SEGF_MAPS (SegmentTable's         *)
(* RegisterTaskSeg).                                                       *)
(*                                                                         *)
(* A line is kept as what sscanf() and the path scan take from it: the    *)
(* addresses, the permission letters, vm_pgoff, the inode and the path.   *)
(* A path is a string used as an atom; whether it starts with '[' is a   *)
(* field of the line.  The segment name -- the path with the brackets     *)
(* trimmed or with ":text" / ":data" appended by classify_segment(), then *)
(* cut to its basename() by segment_register() -- is MapsName of the path *)
(* and of that form.  Every line here fits the 128-byte buffer with room  *)
(* for the suffix; longer lines are discussed in the README.              *)
(***************************************************************************)
EXTENDS Naturals, Sequences

CONSTANTS
    MapsLines,  \* the lines of /proc/<pid>/maps, in file order
    MapsName    \* [<<path, form>> -> name], form "trim", ":text" or ":data"

NoPath == ""

MapsLine ==
    [start : Nat, end : Nat, perm : SUBSET {"r", "w", "x"}, pgoff : Nat,
     ino : Nat, path : STRING \cup {NoPath}, bracket : BOOLEAN]

ASSUME /\ MapsLines \in Seq(MapsLine)
       /\ \A i \in DOMAIN MapsLines : MapsLines[i].start <= MapsLines[i].end

MapsNames == {MapsName[k] : k \in DOMAIN MapsName}

(***************************************************************************)
(* classify_segment(perm, &path, ino): FILE unless the mapping has no     *)
(* inode or is writable; "[heap]" and "[stack]" lose their brackets, any  *)
(* other path gets ":text" (FILE) or ":data" (ANON) appended.             *)
(***************************************************************************)
classify_segment(l) ==
    LET type == IF l.ino = 0 \/ "w" \in l.perm THEN "ANON" ELSE "FILE"
        form == CASE l.bracket       -> "trim"
                  [] type = "FILE"   -> ":text"
                  [] OTHER           -> ":data"
    IN  [type |-> type, name |-> MapsName[<<l.path, form>>]]

(* mutant: the no-access ("---p") guard mappings are not skipped *)
Registered_keep_noaccess(l) == l.path # NoPath

(* the lines get_task_segments() passes on: not "---", and with a path *)
Registered(l) == l.perm # {} /\ l.path # NoPath

(***************************************************************************)
(* The segment description of a kept line: classify_segment()'s type and *)
(* name, length end - start, and vm_pgoff as offset unless it equals the  *)
(* start address (the code's test).                                        *)
(***************************************************************************)
TaskSegment(l) ==
    LET c == classify_segment(l)
    IN  [type   |-> c.type,
         name   |-> c.name,
         length |-> l.end - l.start,
         offset |-> IF l.pgoff # l.start THEN l.pgoff ELSE 0]

get_task_segments(lines) ==
    LET kept == SelectSeq(lines, Registered)
    IN  [i \in 1 .. Len(kept) |-> TaskSegment(kept[i])]

-----------------------------------------------------------------------------
(***************************************************************************)
(* Reference: the segment a name of maps stands for is the first mapping  *)
(* in the file that the process can access (not "---"), that has a path   *)
(* and that classify_segment() names so; later mappings of the same name  *)
(* are the duplicates segment_register() accepts and drops.                *)
(***************************************************************************)
NoLine == [start |-> 0, end |-> 0, perm |-> {}, pgoff |-> 0, ino |-> 0,
           path |-> NoPath, bracket |-> FALSE]

RECURSIVE FirstListedFrom(_, _)
FirstListedFrom(n, i) ==
    CASE i > Len(MapsLines) -> NoLine
      [] /\ MapsLines[i].perm # {}
         /\ MapsLines[i].path # NoPath
         /\ classify_segment(MapsLines[i]).name = n -> MapsLines[i]
      [] OTHER -> FirstListedFrom(n, i + 1)

FirstListed(n) == FirstListedFrom(n, 1)

ListedNames == {n \in MapsNames : FirstListed(n) # NoLine}

=============================================================================
