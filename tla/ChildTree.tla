----------------------------- MODULE ChildTree -----------------------------
(***************************************************************************)
(* The child process tree of commands.c: a memtoy parent spawns named     *)
(* children (child_spawn), forwards "/name cmd" lines down a command pipe  *)
(* (child_send) and blocks for the two-byte "OK" each child writes up the  *)
(* response pipe after every line (child_wait, child_respond); kick sends *)
(* a signal; SIGCHLD runs sigcld_handler(), which reaps one child with     *)
(* wait3(WNOHANG) and frees its record (child_reap).                        *)
(*                                                                         *)
(* Every process is single-threaded; the processes run in parallel and    *)
(* share nothing but the pipes.  A child is a slot of Pids; its command    *)
(* pipe is a sequence of lines and its response pipe a count of OKs.       *)
(* holders[p] is the set of processes (0 is the parent) that hold the     *)
(* parent's ends of p's pipes: the command write end and the response     *)
(* read end are opened, inherited and closed together, so p reads EOF     *)
(* when holders[p] is empty and p's OK raises SIGPIPE when it is.           *)
(*                                                                         *)
(* SIGCHLD is a standard signal: it is pending or not, so two children    *)
(* dying before the handler runs leave one signal.  A pending unblocked   *)
(* signal is delivered before the parent runs any further code, so every  *)
(* step of the parent waits for the handler.  No handler uses SA_RESTART: *)
(* a handled signal makes the blocking read of child_wait() fail (EINTR).  *)
(***************************************************************************)
EXTENDS Naturals, Sequences, FiniteSets

CONSTANTS
    Pids,           \* process slots for children
    ChildNames,     \* names a child can be spawned with
    MaxQueue        \* bound on the lines / OKs waiting in one pipe

ASSUME /\ 0 \notin Pids
       /\ MaxQueue \in Nat \ {0}

Lines == {"cmd", "quit"}        \* a command line, or the line "quit"

VARIABLES
    status,     \* per slot: "free", "busy" (running a line), "ready" (in fgets), "dead"
    cname,      \* per slot: the child's name
    cmdq,       \* per slot: lines in the command pipe
    resp,       \* per slot: OKs in the response pipe
    holders,    \* per slot: processes holding the parent ends of its pipes
    list,       \* gcp->children: slots of the parent's child records
    ppc,        \* parent: "idle", "wait_spawn", "wait_send", "sent", or how it ended
    target,     \* parent: the child child_wait() / child_send() is working on
    sigchld,    \* a SIGCHLD is pending for the parent
    uaf         \* history: child_send() wrote c_errs of a freed child record

vars == <<status, cname, cmdq, resp, holders, list, ppc, target, sigchld, uaf>>

Procs == Pids \cup {0}

ParentAlive == ppc \in {"idle", "wait_spawn", "wait_send", "sent"}

(* the parent runs only when no SIGCHLD waits to be delivered *)
ParentRuns == ParentAlive /\ ~sigchld

(* child_find_by_name() over the parent's list *)
FindByName(n) == {p \in list : cname[p] = n}

-----------------------------------------------------------------------------
(***************************************************************************)
(* A child process ends: exit() or a fatal signal closes every descriptor *)
(* it holds, and the kernel sends SIGCHLD to a living parent.  A child    *)
(* orphaned by the parent's exit is reaped by init.                         *)
(***************************************************************************)
ChildExit(p) ==
    /\ status' = [status EXCEPT ![p] = "dead"]
    /\ holders' = [q \in Pids |-> holders[q] \ {p}]
    /\ sigchld' = (sigchld \/ ParentAlive)

(***************************************************************************)
(* The child reads its next line with fgets().  Any line but "quit" runs.  *)
(* quit() calls child_respond() and then exit(0): the OK goes into the     *)
(* response pipe while the parent still holds it (a full pipe blocks the  *)
(* write), and with no reader the write's SIGPIPE kills the child instead. *)
(***************************************************************************)
ChildRecv(p) ==
    /\ status[p] = "ready"
    /\ cmdq[p] # << >>
    /\ cmdq' = [cmdq EXCEPT ![p] = Tail(@)]
    /\ \/ /\ Head(cmdq[p]) # "quit"
          /\ status' = [status EXCEPT ![p] = "busy"]
          /\ UNCHANGED <<holders, sigchld, resp>>
       \/ /\ Head(cmdq[p]) = "quit"
          /\ holders[p] # {}
          /\ resp[p] < MaxQueue
          /\ resp' = [resp EXCEPT ![p] = @ + 1]
          /\ ChildExit(p)
       \/ /\ Head(cmdq[p]) = "quit"
          /\ holders[p] = {}
          /\ ChildExit(p)
          /\ UNCHANGED resp
    /\ UNCHANGED <<cname, list, ppc, target, uaf>>

(***************************************************************************)
(* The end of one pass of the child's command loop: child_respond()       *)
(* writes "OK".  With no reader left the write raises SIGPIPE, which      *)
(* memtoy does not handle, and the child dies.  A full pipe blocks it.    *)
(***************************************************************************)
ChildRespond_silent(p) ==
    /\ status[p] = "busy"
    /\ \/ /\ holders[p] # {}
          /\ status' = [status EXCEPT ![p] = "ready"]
          /\ UNCHANGED <<holders, sigchld, resp>>
       \/ /\ holders[p] = {}
          /\ ChildExit(p)
          /\ UNCHANGED resp
    /\ UNCHANGED <<cname, cmdq, list, ppc, target, uaf>>

ChildRespond(p) ==
    /\ status[p] = "busy"
    /\ \/ /\ holders[p] # {}
          /\ resp[p] < MaxQueue
          /\ resp' = [resp EXCEPT ![p] = @ + 1]
          /\ status' = [status EXCEPT ![p] = "ready"]
          /\ UNCHANGED <<holders, sigchld>>
       \/ /\ holders[p] = {}
          /\ ChildExit(p)
          /\ UNCHANGED resp
    /\ UNCHANGED <<cname, cmdq, list, ppc, target, uaf>>

(* readline_ni(): fgets() at end of file; exit(0) *)
ChildEOF(p) ==
    /\ status[p] = "ready"
    /\ cmdq[p] = << >>
    /\ holders[p] = {}
    /\ ChildExit(p)
    /\ UNCHANGED <<cname, cmdq, resp, list, ppc, target, uaf>>

(* the line kills the child: exit(4) on a failed command in batch mode, *)
(* or a fatal signal such as the SIGFPE of touch                         *)
ChildCrash(p) ==
    /\ status[p] = "busy"
    /\ ChildExit(p)
    /\ UNCHANGED <<cname, cmdq, resp, list, ppc, target, uaf>>

-----------------------------------------------------------------------------
(***************************************************************************)
(* child <name>: the name must be new; pipe() or fork() may fail.  The    *)
(* child closes the ends it does not use and frees, without closing, the  *)
(* records it inherited (children_free(0)): it keeps the parent's ends of *)
(* every older sibling's pipes.  The parent adds the record with SIGCHLD  *)
(* blocked, then waits for the child's first OK.                           *)
(***************************************************************************)
child_spawn_keep_own_end(n) ==
    /\ ParentRuns
    /\ ppc = "idle"
    /\ \/ /\ FindByName(n) # {}
          /\ UNCHANGED vars
       \/ /\ FindByName(n) = {}
          /\ UNCHANGED vars                   \* pipe() or fork() failed
       \/ /\ FindByName(n) = {}
          /\ \E p \in Pids :
               /\ status[p] = "free"
               /\ status' = [status EXCEPT ![p] = "busy"]
               /\ cname' = [cname EXCEPT ![p] = n]
               /\ cmdq' = [cmdq EXCEPT ![p] = << >>]
               /\ resp' = [resp EXCEPT ![p] = 0]
               /\ holders' = [q \in Pids |-> IF q = p THEN {0, p}
                                            ELSE IF q \in list
                                                 THEN holders[q] \cup {p}
                                                 ELSE holders[q]]
               /\ list' = list \cup {p}
               /\ ppc' = "wait_spawn"
               /\ target' = p
               /\ UNCHANGED <<sigchld, uaf>>

child_spawn(n) ==
    /\ ParentRuns
    /\ ppc = "idle"
    /\ \/ /\ FindByName(n) # {}
          /\ UNCHANGED vars
       \/ /\ FindByName(n) = {}
          /\ UNCHANGED vars                   \* pipe() or fork() failed
       \/ /\ FindByName(n) = {}
          /\ \E p \in Pids :
               /\ status[p] = "free"
               /\ status' = [status EXCEPT ![p] = "busy"]
               /\ cname' = [cname EXCEPT ![p] = n]
               /\ cmdq' = [cmdq EXCEPT ![p] = << >>]
               /\ resp' = [resp EXCEPT ![p] = 0]
               /\ holders' = [q \in Pids |-> IF q = p THEN {0}
                                            ELSE IF q \in list
                                                 THEN holders[q] \cup {p}
                                                 ELSE holders[q]]
               /\ list' = list \cup {p}
               /\ ppc' = "wait_spawn"
               /\ target' = p
               /\ UNCHANGED <<sigchld, uaf>>

(***************************************************************************)
(* /<name> <line>: child_send() writes the line to the child's command    *)
(* pipe and waits for the OK.  A pipe nobody reads raises SIGPIPE, which   *)
(* kills the parent.  A full pipe blocks the write.                       *)
(***************************************************************************)
child_send(n, line) ==
    /\ ParentRuns
    /\ ppc = "idle"
    /\ \/ /\ FindByName(n) = {}
          /\ UNCHANGED vars
       \/ \E p \in FindByName(n) :
             \/ /\ status[p] # "dead"
                /\ Len(cmdq[p]) < MaxQueue
                /\ cmdq' = [cmdq EXCEPT ![p] = Append(@, line)]
                /\ ppc' = "wait_send"
                /\ target' = p
                /\ UNCHANGED <<status, cname, resp, holders, list, sigchld, uaf>>
             \/ /\ status[p] = "dead"
                /\ ppc' = "SIGPIPE"
                /\ UNCHANGED <<status, cname, cmdq, resp, holders, list, target,
                               sigchld, uaf>>

(***************************************************************************)
(* child_wait(): read() of the two-byte OK returns with an OK, or at end  *)
(* of file once the child is gone.  (A signal ends it too: see            *)
(* sigcld_handler and Interrupt.)  child_spawn() then returns;            *)
(* child_send() goes on to reset c_errs.                                   *)
(***************************************************************************)
AfterWait == IF ppc = "wait_spawn" THEN "idle" ELSE "sent"

child_wait ==
    /\ ParentRuns
    /\ ppc \in {"wait_spawn", "wait_send"}
    /\ \/ /\ resp[target] > 0
          /\ resp' = [resp EXCEPT ![target] = @ - 1]
       \/ /\ resp[target] = 0
          /\ status[target] = "dead"
          /\ UNCHANGED resp
    /\ ppc' = AfterWait
    /\ UNCHANGED <<status, cname, cmdq, holders, list, target, sigchld, uaf>>

(* child_send(): childp->c_errs = 0, through the pointer looked up before *)
(* the write                                                               *)
ResetErrs ==
    /\ ParentRuns
    /\ ppc = "sent"
    /\ uaf' = (uaf \/ target \notin list)
    /\ ppc' = "idle"
    /\ UNCHANGED <<status, cname, cmdq, resp, holders, list, target, sigchld>>

(***************************************************************************)
(* kick <name> [signal]: kill() the child.  SIGINT (the default) is only  *)
(* recorded by the child's handler; a signal it does not handle, such as  *)
(* SIGKILL, ends it.  A dead, unreaped child ignores both.                 *)
(***************************************************************************)
child_kick(n, sig) ==
    /\ ParentRuns
    /\ ppc = "idle"
    /\ \/ /\ FindByName(n) = {}
          /\ UNCHANGED vars
       \/ \E p \in FindByName(n) :
             \/ /\ sig = "INT" \/ status[p] = "dead"
                /\ UNCHANGED vars
             \/ /\ sig = "KILL"
                /\ status[p] # "dead"
                /\ ChildExit(p)
                /\ UNCHANGED <<cname, cmdq, resp, list, ppc, target, uaf>>

(***************************************************************************)
(* quit, end of input, or exit(4) on an error in batch mode: cleanup()    *)
(* sends SIGQUIT to every child, which only records it, and frees the     *)
(* list; exit() closes every descriptor of the parent.                     *)
(***************************************************************************)
ParentExit ==
    /\ ParentRuns
    /\ ppc = "idle"
    /\ ppc' = "exited"
    /\ list' = {}
    /\ holders' = [q \in Pids |-> holders[q] \ {0}]
    /\ UNCHANGED <<status, cname, cmdq, resp, target, sigchld, uaf>>

-----------------------------------------------------------------------------
(***************************************************************************)
(* sigcld_handler(): one wait3(WNOHANG) reaps one dead child and         *)
(* child_reap() unlinks its record, closes its descriptors and frees it.  *)
(* A blocked read in child_wait() then fails with EINTR.  (Every pending  *)
(* SIGCHLD has a dead child to reap: wait3() never comes back empty.)     *)
(***************************************************************************)
child_reap_keep_list(z) ==
    /\ status' = [status EXCEPT ![z] = "free"]
    /\ UNCHANGED list
    /\ holders' = [holders EXCEPT ![z] = @ \ {0}]

child_reap(z) ==
    /\ status' = [status EXCEPT ![z] = "free"]
    /\ list' = list \ {z}
    /\ holders' = [holders EXCEPT ![z] = @ \ {0}]

sigcld_handler ==
    /\ ParentAlive
    /\ sigchld
    /\ sigchld' = FALSE
    /\ \E z \in Pids : status[z] = "dead" /\ child_reap(z)
    /\ ppc' = IF ppc \in {"wait_spawn", "wait_send"} THEN AfterWait ELSE ppc
    /\ UNCHANGED <<cname, cmdq, resp, target, uaf>>

(* the user's SIGINT interrupts the parent's blocked read: EINTR *)
Interrupt ==
    /\ ParentRuns
    /\ ppc \in {"wait_spawn", "wait_send"}
    /\ ppc' = AfterWait
    /\ UNCHANGED <<status, cname, cmdq, resp, holders, list, target, sigchld, uaf>>

-----------------------------------------------------------------------------
Init ==
    /\ status = [p \in Pids |-> "free"]
    /\ cname = [p \in Pids |-> CHOOSE n \in ChildNames : TRUE]
    /\ cmdq = [p \in Pids |-> << >>]
    /\ resp = [p \in Pids |-> 0]
    /\ holders = [p \in Pids |-> {}]
    /\ list = {}
    /\ ppc = "idle"
    /\ target = CHOOSE p \in Pids : TRUE
    /\ sigchld = FALSE
    /\ uaf = FALSE

ParentStep ==
    \/ \E n \in ChildNames : child_spawn(n)
    \/ \E n \in ChildNames, l \in Lines : child_send(n, l)
    \/ \E n \in ChildNames, s \in {"INT", "KILL"} : child_kick(n, s)
    \/ ParentExit
    \/ Interrupt

ChildStep(p) == ChildRecv(p) \/ ChildRespond(p) \/ ChildEOF(p)

Next ==
    \/ ParentStep
    \/ child_wait
    \/ ResetErrs
    \/ sigcld_handler
    \/ \E p \in Pids : ChildStep(p) \/ ChildCrash(p)

(***************************************************************************)
(* Fairness: each process that can run its own code eventually does: the *)
(* parent's wait and c_errs steps, the delivery of a pending SIGCHLD, and *)
(* each child's read, respond and exit.  The user's commands, kicks,      *)
(* interrupts and the commands that crash a child get none.               *)
(***************************************************************************)
Fairness ==
    /\ WF_vars(child_wait)
    /\ WF_vars(ResetErrs)
    /\ WF_vars(sigcld_handler)
    /\ \A p \in Pids : WF_vars(ChildStep(p))

Spec == Init /\ [][Next]_vars /\ Fairness

-----------------------------------------------------------------------------
Statuses == {"free", "busy", "ready", "dead"}

TypeOK ==
    /\ status \in [Pids -> Statuses]
    /\ cname \in [Pids -> ChildNames]
    /\ \A p \in Pids : cmdq[p] \in Seq(Lines) /\ Len(cmdq[p]) <= MaxQueue
    /\ resp \in [Pids -> 0 .. MaxQueue]
    /\ holders \in [Pids -> SUBSET Procs]
    /\ list \subseteq {p \in Pids : status[p] # "free"}
    /\ ppc \in {"idle", "wait_spawn", "wait_send", "sent", "SIGPIPE", "exited"}
    /\ target \in Pids
    /\ sigchld \in BOOLEAN
    /\ uaf \in BOOLEAN

(***************************************************************************)
(* child_wait() never blocks the parent for ever: the child answers every *)
(* line (and its start) with an OK, and a child that dies first closes    *)
(* the response pipe, so the read returns.                                 *)
(***************************************************************************)
ParentWaitEnds ==
    ppc \in {"wait_spawn", "wait_send"} ~> ppc \notin {"wait_spawn", "wait_send"}

(***************************************************************************)
(* After the parent exits every child exits: the one that was spawned last *)
(* reads end of file, and each older child then does, once the younger     *)
(* siblings that inherited its pipe ends are gone.                          *)
(***************************************************************************)
OrphansExit ==
    ppc = "exited" ~> \A p \in Pids : status[p] \in {"free", "dead"}

(***************************************************************************)
(* child_send() never touches a freed child record: it resets c_errs      *)
(* through the pointer it looked up before the write and the wait.         *)
(***************************************************************************)
NoUseAfterFree == ~uaf

(***************************************************************************)
(* Spec, child tree: the parent blocks for the acknowledgement after every *)
(* line it forwards, strict turn-taking.  When the parent is back at its  *)
(* prompt, every child in its list has consumed all lines and is idle (or *)
(* dead).  child_wait() gives up on EINTR without retrying the read.       *)
(***************************************************************************)
AckLockstep ==
    ppc = "idle" =>
        \A p \in list : status[p] \in {"ready", "dead"} /\ cmdq[p] = << >>

(***************************************************************************)
(* Spec, error classes and reap: a child that exits is removed from the   *)
(* list, and a forwarding failure increments the child's error counter    *)
(* while the parent carries on.  sigcld_handler() reaps one child per     *)
(* delivered SIGCHLD, so a child can stay dead in the list; a write to its *)
(* pipe raises SIGPIPE, which memtoy does not handle.                      *)
(***************************************************************************)
ForwardKeepsParent == ppc # "SIGPIPE"

=============================================================================
