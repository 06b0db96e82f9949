---------------------------- MODULE TouchHarness ----------------------------
(***************************************************************************)
(* The touch command over the segment table: segment_touch() resolves the *)
(* range, touch_memory() sweeps it one word per page with a sigsetjmp()    *)
(* checkpoint and the armed flag gcp->sigjmp around every access, and     *)
(* signal_handler() catches the fault (SIGSEGV, SIGBUS) or records an     *)
(* interrupt (SIGINT, SIGQUIT) in the one static siginfo copy.            *)
(*                                                                         *)
(* The sweep is a sequence of steps of the memtoy process; the user's     *)
(* SIGINT/SIGQUIT may arrive between any two of them.  A handler runs      *)
(* with every signal blocked (sa_mask is full), so it is one step; after   *)
(* siglongjmp() the saved mask is restored and pending signals arrive.     *)
(* Between touches any segment table command may run.                     *)
(*                                                                         *)
(* Positions are byte offsets from seg_start.  touch_memory() works in     *)
(* unsigned longs: it touches memlen / LongSize words, LongSize bytes     *)
(* each, and steps pagesize / LongSize words, 0 when seg_pagesize is 0.    *)
(***************************************************************************)
EXTENDS SegmentTable

CONSTANTS
    LongSize,       \* sizeof(unsigned long)
    TouchRanges     \* [offset, length] arguments of the touch command

ASSUME LongSize \in Nat \ {0}

VARIABLES
    tpc,        \* where the memtoy process is in a touch command
    tslot,      \* the segment being touched
    trw,        \* write (TRUE) or read access
    pp,         \* byte offset of the next word to touch
    memend,     \* byte offset where the sweep ends
    step,       \* bytes from one touched word to the next
    sigjmp,     \* gcp->sigjmp: the checkpoint is armed
    siginfo,    \* gcp->siginfo # NULL (it points at infocopy)
    infocopy,   \* si_signo of the static siginfo copy
    fault,      \* history: the fault the last access raised, or "none"
    reported,   \* history: the fault show_siginfo() printed, or "none"
    alive       \* "alive", or how the process died

touchVars == <<tpc, tslot, trw, pp, memend, step, sigjmp, siginfo, infocopy,
               fault, reported, alive>>

allVars == <<vars, touchVars>>

Faults == {"SEGV", "BUS"}
Interrupts == {"INT", "QUIT"}

(***************************************************************************)
(* What the access of the word at offset p of segment record r raises:    *)
(* an unmapped segment (seg_start is MAP_FAILED) gives SIGSEGV; a page of *)
(* a file mapping past the current end of the file gives SIGBUS; an       *)
(* access the protection does not allow gives SIGSEGV.                     *)
(***************************************************************************)
AccessFault(r, p, rw) ==
    CASE ~Mapped(r) -> "SEGV"
      [] r.type = "FILE" /\ "SEGF_MAPS" \notin r.flags
           /\ r.offset + p >= round_up_to_segment_pagesize(fsize[r.path], PageSize)
                         -> "BUS"
      [] rw /\ "PROT_WRITE" \notin r.prot -> "SEGV"
      [] ~rw /\ "PROT_READ" \notin r.prot -> "SEGV"
      [] OTHER -> "none"

(* reset_signal() *)
reset_signal == siginfo' = FALSE /\ sigjmp' = FALSE

-----------------------------------------------------------------------------
(***************************************************************************)
(* touch <name> [<offset> <length>] [read|write]: touch_seg() and the part *)
(* of segment_touch() before touch_memory().  The command loop first       *)
(* clears a signal recorded since the last command.                        *)
(***************************************************************************)
segment_touch(name, range, rw) ==
    LET g  == segment_get(seg, nslots, seg_avail, name)
        r  == seg[g.slot]
        rr == ResolveRange(r.length, r.pagesize, range.offset, range.length)
    IN  /\ tpc = "idle"
        /\ seg_avail' = g.avail
        /\ nslots' = g.nslots
        /\ lastOp' = [op |-> "touch", name |-> name, range |-> range]
        /\ reset_signal
        /\ UNCHANGED <<seg, kfds, kshm, fsize, geom, infocopy, alive>>
        /\ \/ /\ g.slot = NoSlot
              /\ result' = "no_such_segment"
              /\ UNCHANGED <<tpc, tslot, trw, pp, memend, step, fault, reported>>
           \/ /\ g.slot # NoSlot
              /\ rw /\ "SEGF_MAPS" \in r.flags
              /\ result' = "cant_write"
              /\ UNCHANGED <<tpc, tslot, trw, pp, memend, step, fault, reported>>
           \/ /\ g.slot # NoSlot
              /\ ~(rw /\ "SEGF_MAPS" \in r.flags)
              /\ ~rr.ok
              /\ result' = "past_end"
              /\ UNCHANGED <<tpc, tslot, trw, pp, memend, step, fault, reported>>
           \/ /\ g.slot # NoSlot
              /\ ~(rw /\ "SEGF_MAPS" \in r.flags)
              /\ rr.ok
              /\ tpc' = "loop"
              /\ tslot' = g.slot
              /\ trw' = rw
              /\ pp' = rr.offset
              /\ memend' = rr.offset + (rr.length \div LongSize) * LongSize
              /\ step' = (r.pagesize \div LongSize) * LongSize
              /\ fault' = "none"
              /\ reported' = "none"
              /\ UNCHANGED result

(***************************************************************************)
(* signal_handler(): save the signal in the static infocopy and point     *)
(* gcp->siginfo at it; a SIGSEGV or SIGBUS disarms and siglongjmp()s to    *)
(* the checkpoint when it is armed and is fatal (die(8)) when it is not;   *)
(* SIGINT and SIGQUIT are only recorded.                                   *)
(***************************************************************************)
signal_handler(sig) ==
    /\ infocopy' = sig
    /\ \/ /\ sig \in Faults
          /\ sigjmp
          /\ sigjmp' = FALSE
          /\ siginfo' = TRUE
          /\ tpc' = "caught"
          /\ UNCHANGED alive
       \/ /\ sig \in Faults
          /\ ~sigjmp
          /\ alive' = "die8"
          /\ UNCHANGED <<sigjmp, siginfo, tpc>>
       \/ /\ sig \in Interrupts
          /\ siginfo' = TRUE
          /\ UNCHANGED <<sigjmp, tpc, alive>>

(* the user interrupts memtoy: SIGINT or SIGQUIT from the terminal *)
Interrupt(sig) ==
    /\ alive = "alive"
    /\ signal_handler(sig)
    /\ UNCHANGED <<vars, tslot, trw, pp, memend, step, fault, reported>>

(***************************************************************************)
(* touch_memory(), one loop iteration at a time.  TouchLoop: the loop     *)
(* test, then sigsetjmp() returns 0 and the checkpoint is armed.          *)
(* TouchAccess: the read or write of *pp and the disarm, or the fault it  *)
(* raises.  TouchCheck: a signal recorded since breaks the loop, else pp  *)
(* advances one page.  TouchCaught: sigsetjmp() returned 1 after a fault: *)
(* show_siginfo(), reset_signal(), break.                                  *)
(***************************************************************************)
TouchLoop_no_arm ==
    /\ tpc = "loop"
    /\ \/ /\ pp < memend
          /\ tpc' = "access"
          /\ UNCHANGED sigjmp
       \/ /\ pp >= memend
          /\ tpc' = "report"
          /\ UNCHANGED sigjmp
    /\ UNCHANGED <<vars, tslot, trw, pp, memend, step, siginfo, infocopy,
                   fault, reported, alive>>

TouchLoop ==
    /\ tpc = "loop"
    /\ \/ /\ pp < memend
          /\ tpc' = "access"
          /\ sigjmp' = TRUE
       \/ /\ pp >= memend
          /\ tpc' = "report"
          /\ UNCHANGED sigjmp
    /\ UNCHANGED <<vars, tslot, trw, pp, memend, step, siginfo, infocopy,
                   fault, reported, alive>>

TouchAccess ==
    LET f == AccessFault(seg[tslot], pp, trw)
    IN  /\ tpc = "access"
        /\ \/ /\ f = "none"
              /\ sigjmp' = FALSE
              /\ tpc' = "check"
              /\ UNCHANGED <<siginfo, infocopy, fault, alive>>
           \/ /\ f # "none"
              /\ fault' = f
              /\ signal_handler(f)
        /\ UNCHANGED <<vars, tslot, trw, pp, memend, step, reported>>

TouchCheck ==
    /\ tpc = "check"
    /\ \/ /\ siginfo
          /\ reset_signal
          /\ tpc' = "report"
          /\ UNCHANGED pp
       \/ /\ ~siginfo
          /\ pp' = pp + step
          /\ tpc' = "loop"
          /\ UNCHANGED <<siginfo, sigjmp>>
    /\ UNCHANGED <<vars, tslot, trw, memend, step, infocopy, fault, reported,
                   alive>>

(* show_siginfo() prints the saved fault; it ignores SIGINT and SIGQUIT *)
TouchCaught ==
    /\ tpc = "caught"
    /\ reported' = IF infocopy \in Faults THEN infocopy ELSE "none"
    /\ reset_signal
    /\ tpc' = "report"
    /\ UNCHANGED <<vars, tslot, trw, pp, memend, step, infocopy, fault, alive>>

(***************************************************************************)
(* The rest of segment_touch(): the report divides the length by          *)
(* seg_pagesize, an integer division that traps (SIGFPE, not handled:     *)
(* the process dies) when the page size is 0; then SEG_OK, whatever the   *)
(* sweep met.                                                              *)
(***************************************************************************)
TouchReport ==
    /\ tpc = "report"
    /\ \/ /\ seg[tslot].pagesize = 0
          /\ alive' = "SIGFPE"
          /\ UNCHANGED <<tpc, result>>
       \/ /\ seg[tslot].pagesize # 0
          /\ result' = "ok"
          /\ tpc' = "idle"
          /\ UNCHANGED alive
    /\ UNCHANGED <<seg, nslots, seg_avail, kfds, kshm, fsize, lastOp, geom,
                   tslot, trw, pp, memend, step, sigjmp, siginfo, infocopy,
                   fault, reported>>

TouchStep == alive = "alive" /\ (TouchLoop \/ TouchAccess \/ TouchCheck
                                  \/ TouchCaught \/ TouchReport)

-----------------------------------------------------------------------------
TouchInit ==
    /\ Init
    /\ tpc = "idle"
    /\ tslot = NoSlot
    /\ trw = FALSE
    /\ pp = 0
    /\ memend = 0
    /\ step = 0
    /\ sigjmp = FALSE
    /\ siginfo = FALSE
    /\ infocopy = "none"
    /\ fault = "none"
    /\ reported = "none"
    /\ alive = "alive"

(* between commands any table command runs; a file may change size at any time *)
TableStep ==
    /\ alive = "alive"
    /\ \/ tpc = "idle" /\ Next
       \/ tpc # "idle" /\ \E f \in Files : \E n \in FileSizes[f] \ {fsize[f]} :
                              FileResize(f, n)
    /\ UNCHANGED touchVars

TouchNext ==
    \/ TableStep
    \/ alive = "alive" /\ \E n \in Names, rg \in TouchRanges, rw \in BOOLEAN :
          segment_touch(n, rg, rw)
    \/ TouchStep
    \/ \E sig \in Interrupts : Interrupt(sig)

(* memtoy's own steps are never starved: weak fairness on them *)
TouchSpec == TouchInit /\ [][TouchNext]_allVars /\ WF_allVars(TouchStep)

-----------------------------------------------------------------------------
TouchStates == {"idle", "loop", "access", "check", "caught", "report"}

TouchTypeOK ==
    /\ TypeOK
    /\ tpc \in TouchStates
    /\ tslot \in Slots \cup {NoSlot}
    /\ tpc # "idle" => tslot \in Slots
    /\ trw \in BOOLEAN
    /\ {pp, memend, step} \subseteq 0 .. 2 * Word
    /\ sigjmp \in BOOLEAN
    /\ siginfo \in BOOLEAN
    /\ {infocopy, fault, reported} \subseteq Faults \cup Interrupts \cup {"none"}
    /\ alive \in {"alive", "die8", "SIGFPE"}

(***************************************************************************)
(* No fault of a touch access is fatal: touch_memory() arms gcp->sigjmp    *)
(* before every access, a fault disarms it, so signal_handler() never     *)
(* reaches die(8) for a SIGSEGV or SIGBUS, whatever interrupt arrives     *)
(* between the steps of the sweep.                                          *)
(***************************************************************************)
NoFatalFault == alive # "die8"

(***************************************************************************)
(* The sweep stays inside the segment: every word touch_memory() accesses *)
(* lies wholly between seg_start and seg_start + seg_length, whatever      *)
(* offset and length the touch command was given (segment_touch() rounds, *)
(* clamps and truncates them).                                             *)
(***************************************************************************)
TouchStaysInSegment ==
    tpc = "access" => pp + LongSize <= seg[tslot].length

(***************************************************************************)
(* Spec, touch: after a caught fault the harness reports the fault.       *)
(* show_siginfo() prints the static infocopy, which a SIGINT or SIGQUIT    *)
(* arriving after siglongjmp() has overwritten and which it then ignores. *)
(***************************************************************************)
FaultIsReported ==
    [][tpc = "caught" /\ tpc' # "caught" => reported' = fault]_allVars

=============================================================================
