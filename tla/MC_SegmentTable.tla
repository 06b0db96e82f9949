-------------------------- MODULE MC_SegmentTable --------------------------
(***************************************************************************)
(* A small instance of the segment table: a 3-bit size_t, 2-byte pages and *)
(* 4-byte huge pages, three slots of which the task's heap takes one, two  *)
(* names for the commands and four files: a read-write and a write-only    *)
(* regular file named after segment b, a missing path and a directory     *)
(* named after segment a.                                                  *)
(***************************************************************************)
EXTENDS SegmentTable

CONSTANTS lib_text, heap, a, b, f_rw, f_wo, f_missing, f_dir

MCNames == {heap, a, b}

MCFiles == {f_rw, f_wo, f_missing, f_dir}

MCBasename == [f \in MCFiles |-> IF f \in {f_rw, f_wo} THEN b ELSE a]

MCFileKind ==
    [f \in MCFiles |-> CASE f = f_missing -> "missing"
                         [] f = f_dir     -> "other"
                         [] OTHER         -> "regular"]

MCFileAccess ==
    [f \in MCFiles |-> CASE f = f_rw -> {"r", "w"}
                         [] f = f_wo -> {"w"}
                         [] OTHER    -> {"r", "w"}]

(***************************************************************************)
(* /proc/<pid>/maps: the no-access guard page libc leaves between its     *)
(* mappings, an anonymous mapping without a path, and the [heap].  Only   *)
(* the heap becomes a segment (ANON, 4 bytes, offset 0).  *)
(***************************************************************************)
MCMapsLines ==
    << [start |-> 0, end |-> 1, perm |-> {}, pgoff |-> 2, ino |-> 5,
        path |-> "/lib/libc.so.6", bracket |-> FALSE],
       [start |-> 1, end |-> 2, perm |-> {"r", "w"}, pgoff |-> 0, ino |-> 0,
        path |-> NoPath, bracket |-> FALSE],
       [start |-> 2, end |-> 6, perm |-> {"r", "w"}, pgoff |-> 0, ino |-> 0,
        path |-> "[heap]", bracket |-> TRUE] >>

MCMapsName ==
    (<<"[heap]", "trim">> :> heap) @@ (<<"/lib/libc.so.6", ":text">> :> lib_text)

(* 3 rounds up to one page; 7 is SIZE_MAX, which size_kmgp() also returns *)
(* for a bad suffix, so anon refuses it as BOGUS_SIZE                       *)
MCAnonLengths == {3, 7}

(* 0, or an address for MAP_FIXED *)
MCAnonAddrs == {0}

(* 6 is three pages, or with huge pages rounds past SIZE_MAX and wraps   *)
(* to 0; 7 is BOGUS_SIZE                                                   *)
MCShmLengths == {6, 7}

(* "0 *": the whole file; "3 1": one byte at offset 3 (rounded to page  *)
(* 2); "3" alone: get_range() refuses an offset without a length         *)
MCFileRanges == {[offset |-> 0, length |-> LengthStar],
                 [offset |-> 3, length |-> 1],
                 [offset |-> 3, length |-> LengthMissing]}

(* a prefix of "shared", and a word that is neither shared nor private *)
MCShareWords == {"shared", "bogus"}

(* the read-write file is empty or two pages long *)
MCFileSizes == [f \in MCFiles |-> IF f = f_rw THEN {0, 4} ELSE {0}]

(***************************************************************************)
(* No action reads result or lastOp.  The action properties read them     *)
(* only primed, on the step that sets them, and the refinement mapping     *)
(* reads them through Refusal.  States that agree on the table, the        *)
(* kernel objects, the files and Refusal have the same successors and the *)
(* same abstract state, so TLC may identify them.                         *)
(***************************************************************************)
TableView == <<seg, nslots, seg_avail, kfds, kshm, fsize, geom, Refusal>>

=============================================================================
