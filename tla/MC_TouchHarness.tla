-------------------------- MODULE MC_TouchHarness --------------------------
(***************************************************************************)
(* A small instance of the touch harness: a 3-bit size_t, 2-byte pages, a *)
(* one-byte unsigned long (one word per byte, so every page offset can be  *)
(* touched), two slots of which the task's heap takes one, and one        *)
(* read-write regular file named after segment a that is empty or two     *)
(* pages long and may change size in the middle of a sweep.                *)
(***************************************************************************)
EXTENDS TouchHarness

CONSTANTS lib_text, heap, a, f_rw

MCNames == {heap, a}

MCFiles == {f_rw}

MCBasename == [f \in MCFiles |-> a]

MCFileKind == [f \in MCFiles |-> "regular"]

MCFileAccess == [f \in MCFiles |-> {"r", "w"}]

(***************************************************************************)
(* /proc/<pid>/maps: the no-access guard page libc leaves between its     *)
(* mappings, an anonymous mapping without a path, and the [heap].  Only   *)
(* the heap becomes a segment (ANON, 4 bytes, offset 0, seg_pagesize 0).  *)
(***************************************************************************)
MCMapsLines ==
    << [start |-> 0, end |-> 1, perm |-> {}, pgoff |-> 2, ino |-> 5,
        path |-> "/lib/libc.so.6", bracket |-> FALSE],
       [start |-> 1, end |-> 2, perm |-> {"r", "w"}, pgoff |-> 0, ino |-> 0,
        path |-> NoPath, bracket |-> FALSE],
       [start |-> 2, end |-> 6, perm |-> {"r", "w"}, pgoff |-> 0, ino |-> 0,
        path |-> "[heap]", bracket |-> TRUE] >>

MCMapsName ==
    (<<"[heap]", "trim">> :> heap) @@ (<<"/lib/libc.so.6", ":text">> :> lib_text)

MCAnonLengths == {3}

MCAnonAddrs == {0}

MCShmLengths == {1}

MCFileRanges == {[offset |-> 0, length |-> 0]}

MCShareWords == {"shared"}

MCFileSizes == [f \in MCFiles |-> {0, 4}]

(***************************************************************************)
(* touch arguments: the whole segment; offset 3 (page 2) with a length    *)
(* that rounds past the end and is truncated; offset 5 (page 4), past the *)
(* end of a two-page segment                                                *)
(***************************************************************************)
MCTouchRanges == {[offset |-> 0, length |-> 0], [offset |-> 3, length |-> 5],
                  [offset |-> 5, length |-> 1]}

(* result and lastOp are read by no action, only by action properties *)
TouchView == <<seg, nslots, seg_avail, kfds, kshm, fsize, geom, touchVars>>

=============================================================================
