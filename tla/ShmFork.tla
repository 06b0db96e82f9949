------------------------------ MODULE ShmFork ------------------------------
(***************************************************************************)
(* SysV shared memory segments across memtoy's processes.  A child made   *)
(* by child_spawn() is a fork() of its parent: it gets a copy of the      *)
(* segment table, with the parent's shm ids and attachments, and later    *)
(* exits through exit() and the atexit() handler cleanup(), whose         *)
(* segment_cleanup() runs free_seg_slot() -- and so IPC_RMID -- on every  *)
(* shm segment in its table.  A process killed by a signal runs no        *)
(* cleanup.                                                                *)
(*                                                                         *)
(* Only the shm part of each process's table is state here: the ids in    *)
(* the table (tab) and those attached (att).  The kernel keeps each id    *)
(* unused, live, marked (IPC_RMID'ed while still attached: it survives    *)
(* until the last detach, and Linux still lets it be attached) or gone.   *)
(* Ids are not reused.  Processes are the parent, 0, and its children.    *)
(***************************************************************************)
EXTENDS Naturals, FiniteSets

CONSTANTS
    Procs,      \* 0, the memtoy the user started, and child process slots
    ShmIds      \* the ids shmget() may return

ASSUME 0 \in Procs

Children == Procs \ {0}

VARIABLES
    pstate,     \* per process: "none" (not forked), "running", "exited", "killed"
    tab,        \* per process: shm ids of the SEGT_SHM segments in its table
    att,        \* per process: those of them attached (seg_start # MAP_FAILED)
    kseg,       \* per id: "unused", "live", "marked" or "gone"
    result      \* outcome of the last command

vars == <<pstate, tab, att, kseg, result>>

Running(p) == pstate[p] = "running"

(* the kernel's shm_nattch: attachments of processes still alive *)
nattch(i, a) == Cardinality({p \in Procs : Running(p) /\ i \in a[p]})

(***************************************************************************)
(* After the attachments a and the IPC_RMIDs of the set rm: a segment     *)
(* IPC_RMID'ed with no attachment is destroyed, one still attached is     *)
(* marked and destroyed at its last detach.                                *)
(***************************************************************************)
Settle(k, a, rm) ==
    [i \in ShmIds |->
        IF k[i] \in {"live", "marked"} /\ (i \in rm \/ k[i] = "marked")
        THEN IF nattch(i, a) = 0 THEN "gone" ELSE "marked"
        ELSE k[i]]

(* get_shm_segment(): shmget(IPC_PRIVATE) creates a new id *)
get_shm_segment(p) ==
    \E i \in ShmIds :
        /\ Running(p)
        /\ kseg[i] = "unused"
        /\ kseg' = [kseg EXCEPT ![i] = "live"]
        /\ tab' = [tab EXCEPT ![p] = @ \cup {i}]
        /\ result' = "ok"
        /\ UNCHANGED <<pstate, att>>

(* map_shm_segment(): shmat() of the id; EINVAL once it is gone *)
map_shm_segment(p, i) ==
    /\ Running(p)
    /\ i \in tab[p] \ att[p]
    /\ \/ /\ kseg[i] # "gone"
          /\ att' = [att EXCEPT ![p] = @ \cup {i}]
          /\ result' = "ok"
       \/ /\ kseg[i] = "gone"
          /\ result' = "shmat_failed"
          /\ UNCHANGED att
    /\ UNCHANGED <<pstate, tab, kseg>>

(* segment_unmap(): unmap_segment() shmdt()s an attached segment *)
segment_unmap(p, i) ==
    LET a == [att EXCEPT ![p] = @ \ {i}]
    IN  /\ Running(p)
        /\ i \in att[p]
        /\ att' = a
        /\ kseg' = Settle(kseg, a, {})
        /\ result' = "ok"
        /\ UNCHANGED <<pstate, tab>>

(***************************************************************************)
(* segment_remove(): unmap_segment(), then free_seg_slot(), which         *)
(* IPC_RMIDs the id (an id already gone gives EINVAL, which is ignored).  *)
(***************************************************************************)
segment_remove(p, i) ==
    LET a == [att EXCEPT ![p] = @ \ {i}]
    IN  /\ Running(p)
        /\ i \in tab[p]
        /\ att' = a
        /\ tab' = [tab EXCEPT ![p] = @ \ {i}]
        /\ kseg' = Settle(kseg, a, {i})
        /\ result' = "ok"
        /\ UNCHANGED pstate

(***************************************************************************)
(* child_spawn(): fork() copies the parent's table, attachments included  *)
(* (the child runs children_free(0) but keeps every segment).             *)
(***************************************************************************)
child_spawn(c) ==
    /\ Running(0)
    /\ pstate[c] = "none"
    /\ pstate' = [pstate EXCEPT ![c] = "running"]
    /\ tab' = [tab EXCEPT ![c] = tab[0]]
    /\ att' = [att EXCEPT ![c] = att[0]]
    /\ result' = "ok"
    /\ UNCHANGED kseg

(***************************************************************************)
(* exit() of a process -- quit, end of file on its input, SIGQUIT in      *)
(* batch mode, a failed command in batch mode -- runs cleanup():          *)
(* segment_cleanup() IPC_RMIDs every shm id in its table, without         *)
(* detaching; the exit then drops the process's attachments.              *)
(***************************************************************************)
cleanup(p) ==
    LET a == [att EXCEPT ![p] = {}]
    IN  /\ Running(p)
        /\ pstate' = [pstate EXCEPT ![p] = "exited"]
        /\ att' = a
        /\ kseg' = Settle(kseg, a, tab[p])
        /\ UNCHANGED <<tab, result>>

(* death by a signal (SIGKILL from kick, an unhandled SIGFPE or SIGPIPE):  *)
(* no atexit() handler runs                                                 *)
Killed(p) ==
    LET a == [att EXCEPT ![p] = {}]
    IN  /\ Running(p)
        /\ pstate' = [pstate EXCEPT ![p] = "killed"]
        /\ att' = a
        /\ kseg' = Settle(kseg, a, {})
        /\ UNCHANGED <<tab, result>>

Init ==
    /\ pstate = [p \in Procs |-> IF p = 0 THEN "running" ELSE "none"]
    /\ tab = [p \in Procs |-> {}]
    /\ att = [p \in Procs |-> {}]
    /\ kseg = [i \in ShmIds |-> "unused"]
    /\ result = "ok"

Next ==
    \/ \E p \in Procs :
          \/ get_shm_segment(p)
          \/ cleanup(p)
          \/ Killed(p)
          \/ \E i \in ShmIds : map_shm_segment(p, i) \/ segment_unmap(p, i)
                                \/ segment_remove(p, i)
    \/ \E c \in Children : child_spawn(c)

Spec == Init /\ [][Next]_vars

-----------------------------------------------------------------------------
TypeOK ==
    /\ pstate \in [Procs -> {"none", "running", "exited", "killed"}]
    /\ tab \in [Procs -> SUBSET ShmIds]
    /\ \A p \in Procs : att[p] \subseteq tab[p]
    /\ kseg \in [ShmIds -> {"unused", "live", "marked", "gone"}]

(***************************************************************************)
(* Spec 5: a child runs its own independent copy of the segment table and  *)
(* shares no memory with its parent.  A shm segment in the running        *)
(* parent's table is never removed by another process: only the parent's *)
(* own remove takes it out of the kernel.  A child's exit runs            *)
(* segment_cleanup() over the table it inherited.                         *)
(***************************************************************************)
ParentShmKept ==
    Running(0) => \A i \in tab[0] : kseg[i] = "live"

=============================================================================
