--------------------------- MODULE MC_ChildTree ---------------------------
(***************************************************************************)
(* Two child slots, two names, and pipes that hold up to two lines or OKs: *)
(* two children can die before one SIGCHLD is handled, a name can be      *)
(* spawned again after its child is reaped, and a line can wait behind    *)
(* another after an interrupted wait.                                      *)
(***************************************************************************)
EXTENDS ChildTree

CONSTANTS x, y

MCPids == {1, 2}

MCChildNames == {x, y}

=============================================================================
