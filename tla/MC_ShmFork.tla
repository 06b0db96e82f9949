----------------------------- MODULE MC_ShmFork -----------------------------
(***************************************************************************)
(* memtoy and one child, two shm ids: enough for a segment created before *)
(* the fork and one created after it, in either process.                  *)
(***************************************************************************)
EXTENDS ShmFork

CONSTANTS s1, s2

MCProcs == {0, 1}

MCShmIds == {s1, s2}

=============================================================================
