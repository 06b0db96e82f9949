---------------------------- MODULE SegmentTable ----------------------------
(***************************************************************************)
(* The segment table of segment.c: a fixed array of MAX_SEGMENTS slot      *)
(* pointers, filled from the front (seglist[i] = NULL ends every scan),    *)
(* the cached free slot seg_avail, and the register / map / unmap /        *)
(* remove / show operations on named segments, together with the kernel    *)
(* objects they hold: open file descriptors and System V shm ids.          *)
(*                                                                         *)
(* Every operation is one atomic step: memtoy runs one command at a time   *)
(* and the signal handlers never touch the table.  The OS calls that can   *)
(* fail for reasons outside the program (open, shmget, mmap, shmat) fail   *)
(* nondeterministically; the failures the code forces (zero length, file   *)
(* not readable, offset past end of file) are guards.  An environment     *)
(* action changes the size of a file between commands.                     *)
(***************************************************************************)
EXTENDS SegmentRange, TaskMaps, FiniteSets, FiniteSetsExt, Sequences, SequencesExt

CONSTANTS
    MaxSegments,    \* MAX_SEGMENTS
    PageSize,       \* gcp->pagesize
    HugePageSize,   \* gcp->huge_pagesize
    Names,          \* segment names
    Files,          \* path names of files that may be registered
    Basename,       \* basename(): Files -> Names
    FileKind,       \* what stat() finds: Files -> {"missing","other","regular"}
    FileAccess,     \* what access() grants: Files -> SUBSET {"r","w"}
    Shares,         \* {"MAP_PRIVATE", "MAP_SHARED"}: the share argument of anon
    ShareWords,     \* <seg-share> words of file and map: "shared", "private", other
    AnonLengths,    \* <size> arguments of the anon command
    AnonAddrs,      \* addr= arguments of the anon command
    ShmLengths,     \* <size> arguments of the shm command
    FileRanges,     \* <offset> <length> words of file and map, as get_range() reads
                    \* them: length a size, LengthStar or LengthMissing
    FileSizes,      \* sizes each file takes: Files -> SUBSET Size
    NoSlot,         \* a NULL segment_t pointer
    NoName,         \* a NULL seg_name / seg_path
    NoRange,        \* a NULL range_t pointer
    NoGeom          \* no geometry recorded (history variable)

ASSUME /\ MaxSegments \in Nat \ {0}
       /\ Basename \in [Files -> Names]
       /\ FileKind \in [Files -> {"missing", "other", "regular"}]
       /\ FileAccess \in [Files -> SUBSET {"r", "w"}]

Slots == 0 .. MaxSegments - 1

SegTypes == {"NONE", "ANON", "FILE", "SHM"}

(* seg_start: NULL after calloc/memset, MAP_FAILED when not mapped *)
Starts == {"NULL", "MAP_FAILED", "ADDR"}

Mapped(r) == r.start # "MAP_FAILED"

(* a slot as calloc() and free_seg_slot()'s memset() leave it *)
EmptySeg == [name |-> NoName, path |-> NoName, start |-> "NULL",
             length |-> 0, offset |-> 0, pagesize |-> 0, type |-> "NONE",
             flags |-> {}, prot |-> {}, fd |-> FALSE, shmid |-> FALSE]

VARIABLES
    seg,        \* seglist[]: Slots -> segment record
    nslots,     \* number of non-NULL pointers in seglist[]
    seg_avail,  \* gcp->seg_avail
    kfds,       \* file descriptors the table holds open
    kshm,       \* shm ids created and not yet IPC_RMID'ed
    fsize,      \* current size of each file
    result,     \* outcome of the last command: "ok" or its error
    lastOp,     \* the last command and its arguments
    geom        \* history: geometry of each slot when it was last unmapped

vars == <<seg, nslots, seg_avail, kfds, kshm, fsize, result, lastOp, geom>>

Active(s) == s < nslots /\ seg[s].type # "NONE"

ActiveNames == {seg[s].name : s \in {t \in Slots : Active(t)}}

Geometry(r) == [length |-> r.length, offset |-> r.offset,
                pagesize |-> r.pagesize]

-----------------------------------------------------------------------------
(* mutant: the scan stops at the first freed slot instead of skipping it *)
segment_get_stop_at_hole(sg, ns, avail, name) ==
    LET holes0  == {s \in 0 .. ns - 1 : sg[s].type = "NONE"}
        end     == IF holes0 = {} THEN ns ELSE Min(holes0)
        hits    == {s \in 0 .. end - 1 : sg[s].name = name}
        found   == IF hits = {} THEN NoSlot ELSE Min(hits)
        avail1  == IF avail = NoSlot /\ hits = {} /\ end < ns THEN end ELSE avail
        grow    == found = NoSlot /\ avail1 = NoSlot /\ ns < MaxSegments
    IN  [slot   |-> found,
         avail  |-> IF grow THEN ns ELSE avail1,
         nslots |-> IF grow THEN ns + 1 ELSE ns]

(***************************************************************************)
(* segment_get(name): scan the allocated prefix of seglist; the first     *)
(* NONE slot passed on the way is cached in seg_avail if none is cached.   *)
(* When the name is not found, nothing is cached and the table is not     *)
(* full, a new slot is preallocated and cached.  Result: the slot found    *)
(* (or NoSlot) and the new seg_avail and nslots.                           *)
(***************************************************************************)
segment_get(sg, ns, avail, name) ==
    LET hits    == {s \in 0 .. ns - 1 : sg[s].type # "NONE" /\ sg[s].name = name}
        found   == IF hits = {} THEN NoSlot ELSE Min(hits)
        scanned == IF hits = {} THEN 0 .. ns - 1 ELSE 0 .. found - 1
        holes   == {s \in scanned : sg[s].type = "NONE"}
        avail1  == IF avail = NoSlot /\ holes # {} THEN Min(holes) ELSE avail
        grow    == found = NoSlot /\ avail1 = NoSlot /\ ns < MaxSegments
    IN  [slot   |-> found,
         avail  |-> IF grow THEN ns ELSE avail1,
         nslots |-> IF grow THEN ns + 1 ELSE ns]

(* mutant: the cached slot is handed out but seg_avail is not cleared *)
get_seg_slot_keep_avail(sg, ns, avail) ==
    LET holes == {s \in 0 .. ns - 1 : sg[s].type = "NONE"}
    IN  CASE avail # NoSlot -> [slot |-> avail, avail |-> avail, nslots |-> ns]
          [] holes # {}     -> [slot |-> Min(holes), avail |-> avail, nslots |-> ns]
          [] ns < MaxSegments -> [slot |-> ns, avail |-> avail, nslots |-> ns + 1]
          [] OTHER          -> [slot |-> NoSlot, avail |-> avail, nslots |-> ns]

(***************************************************************************)
(* get_seg_slot(): take the cached slot, else the first NONE slot, else a  *)
(* new slot at the end of the prefix, else fail ("segment table full").    *)
(***************************************************************************)
get_seg_slot(sg, ns, avail) ==
    LET holes == {s \in 0 .. ns - 1 : sg[s].type = "NONE"}
    IN  CASE avail # NoSlot -> [slot |-> avail, avail |-> NoSlot, nslots |-> ns]
          [] holes # {}     -> [slot |-> Min(holes), avail |-> avail, nslots |-> ns]
          [] ns < MaxSegments -> [slot |-> ns, avail |-> avail, nslots |-> ns + 1]
          [] OTHER          -> [slot |-> NoSlot, avail |-> avail, nslots |-> ns]

(* the record segment_register() fills in before the type-specific step *)
NewSeg(name, path, type, length, offset, flags) ==
    [name |-> name, path |-> path, start |-> "MAP_FAILED",
     length |-> length, offset |-> offset, pagesize |-> 0, type |-> type,
     flags |-> flags, prot |-> {"PROT_READ", "PROT_WRITE"},
     fd |-> FALSE, shmid |-> FALSE]

(* mutant: close() without the seg_fd != SEG_FD_NONE test *)
free_seg_slot_close_any(s, r, avail) ==
    /\ seg' = [seg EXCEPT ![s] = EmptySeg]
    /\ seg_avail' = IF avail = NoSlot THEN s ELSE avail
    /\ kfds' = kfds - (IF r.type = "FILE" THEN 1 ELSE 0)
    /\ kshm' = kshm - (IF r.type = "SHM" /\ r.shmid THEN 1 ELSE 0)
    /\ geom' = [geom EXCEPT ![s] = NoGeom]

(* mutant: the shm id is never IPC_RMID'ed *)
free_seg_slot_no_rmid(s, r, avail) ==
    /\ seg' = [seg EXCEPT ![s] = EmptySeg]
    /\ seg_avail' = IF avail = NoSlot THEN s ELSE avail
    /\ kfds' = kfds - (IF r.type = "FILE" /\ r.fd THEN 1 ELSE 0)
    /\ kshm' = kshm
    /\ geom' = [geom EXCEPT ![s] = NoGeom]

(***************************************************************************)
(* free_seg_slot(): close the file, IPC_RMID the shm id, clear the slot    *)
(* and cache it if no slot is cached.  r is the record being freed and    *)
(* avail the value of seg_avail at that point.                             *)
(***************************************************************************)
free_seg_slot(s, r, avail) ==
    /\ seg' = [seg EXCEPT ![s] = EmptySeg]
    /\ seg_avail' = IF avail = NoSlot THEN s ELSE avail
    /\ kfds' = kfds - (IF r.type = "FILE" /\ r.fd THEN 1 ELSE 0)
    /\ kshm' = kshm - (IF r.type = "SHM" /\ r.shmid THEN 1 ELSE 0)
    /\ geom' = [geom EXCEPT ![s] = NoGeom]

(* unmap_segment(): munmap()/shmdt() unless unmapped or from maps *)
unmap_segment(r) ==
    IF ~Mapped(r) \/ "SEGF_MAPS" \in r.flags
    THEN r
    ELSE [r EXCEPT !.start = "MAP_FAILED"]

-----------------------------------------------------------------------------
(***************************************************************************)
(* get_task_segments() at start-up: every maps line goes through          *)
(* segment_register() with SEGF_MAPS, which records the existing mapping   *)
(* and never opens a file; a repeated name is accepted and dropped, and    *)
(* a full table drops the line.  The table is a record [seg, nslots,      *)
(* avail] here.                                                            *)
(***************************************************************************)
RegisterTaskSeg(t, m) ==
    LET g == segment_get(t.seg, t.nslots, t.avail, m.name)
        a == get_seg_slot(t.seg, g.nslots, g.avail)
        r == [NewSeg(m.name, IF m.type = "FILE" THEN m.name ELSE NoName,
                     m.type, m.length, m.offset,
                     {"MAP_PRIVATE", "SEGF_MAPS"})
                EXCEPT !.start = "ADDR",
                       !.prot  = IF m.type = "FILE" THEN @ \cup {"PROT_EXEC"}
                                                   ELSE @]
    IN  CASE g.slot # NoSlot -> [t EXCEPT !.avail = g.avail, !.nslots = g.nslots]
          [] a.slot = NoSlot -> [t EXCEPT !.avail = a.avail, !.nslots = a.nslots]
          [] OTHER -> [seg |-> [t.seg EXCEPT ![a.slot] = r],
                       nslots |-> a.nslots, avail |-> a.avail]

(* the segment descriptions get_task_segments() reads from maps *)
TaskSegs == get_task_segments(MapsLines)

InitTable ==
    FoldLeft(RegisterTaskSeg,
             [seg |-> [s \in Slots |-> EmptySeg], nslots |-> 0, avail |-> NoSlot],
             TaskSegs)

Init ==
    /\ seg = InitTable.seg
    /\ nslots = InitTable.nslots
    /\ seg_avail = InitTable.avail
    /\ kfds = 0
    /\ kshm = 0
    /\ fsize \in {z \in [Files -> UNION {FileSizes[f] : f \in Files}] :
                    \A f \in Files : z[f] \in FileSizes[f]}
    /\ result = "ok"
    /\ lastOp = [op |-> "init", name |-> NoName, range |-> NoRange]
    /\ geom = [s \in Slots |-> NoGeom]

-----------------------------------------------------------------------------
(* SEGT_ANON: nothing more to do until the segment is mapped *)
AnonStep(a, r) ==
    /\ seg' = [seg EXCEPT ![a.slot] = r]
    /\ seg_avail' = a.avail
    /\ result' = "ok"
    /\ UNCHANGED <<kfds, kshm, geom>>

(* open_file(): the open mode access() allows narrows seg_prot *)
OpenProt(prot, acc) ==
    CASE {"r", "w"} \subseteq acc -> prot
      [] "r" \in acc              -> prot \ {"PROT_WRITE"}
      [] OTHER                    -> prot \ {"PROT_READ"}

open_file(a, r) ==
    LET acc == FileAccess[r.path]
    IN  \/ /\ FileKind[r.path] = "missing"
           /\ free_seg_slot(a.slot, r, a.avail)
           /\ result' = "stat_failed"
        \/ /\ FileKind[r.path] = "other"
           /\ free_seg_slot(a.slot, r, a.avail)
           /\ result' = "not_regular"
        \/ /\ FileKind[r.path] = "regular"
           /\ acc = {}
           /\ free_seg_slot(a.slot, r, a.avail)
           /\ result' = "no_access"
        \/ /\ FileKind[r.path] = "regular"
           /\ acc # {}
           /\ free_seg_slot(a.slot, r, a.avail)    \* open() failed
           /\ result' = "open_failed"
        \/ /\ FileKind[r.path] = "regular"
           /\ acc # {}
           /\ seg' = [seg EXCEPT ![a.slot] =
                        [r EXCEPT !.prot = OpenProt(@, acc), !.fd = TRUE]]
           /\ seg_avail' = a.avail
           /\ kfds' = kfds + 1
           /\ result' = "ok"
           /\ UNCHANGED <<kshm, geom>>

(* mutant: a failed shmget() returns without free_seg_slot() *)
get_shm_segment_keep_slot(a, r) ==
    LET ps == IF "SHM_HUGETLB" \in r.flags THEN HugePageSize ELSE PageSize
        r2 == [r EXCEPT !.pagesize = ps,
                        !.length = round_up_to_segment_pagesize(@, ps),
                        !.offset = round_down_to_segment_pagesize(@, ps)]
    IN  \/ /\ seg' = [seg EXCEPT ![a.slot] = r2]
           /\ seg_avail' = a.avail
           /\ result' = "shmget_failed"
           /\ UNCHANGED <<kfds, kshm, geom>>
        \/ /\ r2.length # 0
           /\ seg' = [seg EXCEPT ![a.slot] = [r2 EXCEPT !.shmid = TRUE]]
           /\ seg_avail' = a.avail
           /\ kshm' = kshm + 1
           /\ result' = "ok"
           /\ UNCHANGED <<kfds, geom>>

(* get_shm_segment(): page size by SHM_HUGETLB, round, shmget() *)
get_shm_segment(a, r) ==
    LET ps == IF "SHM_HUGETLB" \in r.flags THEN HugePageSize ELSE PageSize
        r2 == [r EXCEPT !.pagesize = ps,
                        !.length = round_up_to_segment_pagesize(@, ps),
                        !.offset = round_down_to_segment_pagesize(@, ps)]
    IN  \/ /\ free_seg_slot(a.slot, r2, a.avail)   \* shmget() failed
           /\ result' = "shmget_failed"
        \/ /\ r2.length # 0                         \* size < SHMMIN: EINVAL
           /\ seg' = [seg EXCEPT ![a.slot] = [r2 EXCEPT !.shmid = TRUE]]
           /\ seg_avail' = a.avail
           /\ kshm' = kshm + 1
           /\ result' = "ok"
           /\ UNCHANGED <<kfds, geom>>

(* mutant: the offset is stored before the duplicate check, into the     *)
(* segment that already has the name                                        *)
segment_register_offset_first(ns, avail, name, r) ==
    LET g == segment_get(seg, ns, avail, name)
        a == get_seg_slot(seg, g.nslots, g.avail)
    IN  \/ /\ g.slot # NoSlot
           /\ result' = "exists"
           /\ seg_avail' = g.avail
           /\ nslots' = g.nslots
           /\ seg' = [seg EXCEPT ![g.slot].offset = r.offset]
           /\ UNCHANGED <<kfds, kshm, geom>>
        \/ /\ g.slot = NoSlot
           /\ a.slot = NoSlot
           /\ result' = "table_full"
           /\ seg_avail' = a.avail
           /\ nslots' = a.nslots
           /\ UNCHANGED <<seg, kfds, kshm, geom>>
        \/ /\ g.slot = NoSlot
           /\ a.slot # NoSlot
           /\ nslots' = a.nslots
           /\ \/ r.type = "ANON" /\ AnonStep(a, r)
              \/ r.type = "FILE" /\ open_file(a, r)
              \/ r.type = "SHM" /\ get_shm_segment(a, r)

(***************************************************************************)
(* segment_register() for a command: a name already in the table is       *)
(* refused, a full table is refused, otherwise the slot gets the record r  *)
(* (ns and avail are nslots and seg_avail when it is called) and the      *)
(* switch on its type does the rest (the slot is a.slot and seg_avail is  *)
(* then a.avail).                                                          *)
(***************************************************************************)
segment_register(ns, avail, name, r) ==
    LET g == segment_get(seg, ns, avail, name)
        a == get_seg_slot(seg, g.nslots, g.avail)
    IN  \/ /\ g.slot # NoSlot
           /\ result' = "exists"
           /\ seg_avail' = g.avail
           /\ nslots' = g.nslots
           /\ UNCHANGED <<seg, kfds, kshm, geom>>
        \/ /\ g.slot = NoSlot
           /\ a.slot = NoSlot
           /\ result' = "table_full"
           /\ seg_avail' = a.avail
           /\ nslots' = a.nslots
           /\ UNCHANGED <<seg, kfds, kshm, geom>>
        \/ /\ g.slot = NoSlot
           /\ a.slot # NoSlot
           /\ nslots' = a.nslots
           /\ \/ r.type = "ANON" /\ AnonStep(a, r)
              \/ r.type = "FILE" /\ open_file(a, r)
              \/ r.type = "SHM" /\ get_shm_segment(a, r)

(***************************************************************************)
(* Argument words.  size_kmgp() returns BOGUS_SIZE, (size_t)-1, for a      *)
(* number with a bad suffix, so a size or offset word is a Size value and  *)
(* SizeMax is refused, whatever was typed.  get_range() reads <offset>    *)
(* <length> when the next word starts with a digit ("*" as length maps to *)
(* the end of the file); get_shared() accepts any prefix of "shared" or   *)
(* "private" and stands here for the class of word typed.                  *)
(***************************************************************************)
BOGUS_SIZE == SizeMax

NoWord == ""

(* <length> words that are not sizes *)
LengthStar == -1
LengthMissing == -2

get_range(arg) ==
    CASE arg = NoRange -> [ok |-> TRUE, range |-> NoRange]
      [] arg.offset = BOGUS_SIZE \/ arg.length \in {LengthMissing, BOGUS_SIZE} ->
            [ok |-> FALSE, range |-> NoRange]
      [] OTHER -> [ok |-> TRUE,
                   range |-> [offset |-> arg.offset,
                              length |-> IF arg.length = LengthStar THEN 0
                                         ELSE arg.length]]

get_shared(word) ==
    CASE word = "shared"  -> [ok |-> TRUE, flags |-> {"MAP_SHARED"}]
      [] word = "private" -> [ok |-> TRUE, flags |-> {"MAP_PRIVATE"}]
      [] OTHER            -> [ok |-> FALSE, flags |-> {}]

(* a handler's argument check fails: CMD_ERROR, nothing else happens *)
ArgRefused(op, name) ==
    /\ result' = "cmd_error"
    /\ lastOp' = [op |-> op, name |-> name, range |-> NoRange]
    /\ UNCHANGED <<seg, nslots, seg_avail, kfds, kshm, fsize, geom>>

(***************************************************************************)
(* Commands anon, file and shm: the argument assembly of anon_seg(),      *)
(* file_seg() and shmem_seg() followed by segment_register().             *)
(***************************************************************************)
RegisterAnon(name, length, share, addr) ==
    \/ length = BOGUS_SIZE /\ ArgRefused("anon", name)
    \/ /\ length # BOGUS_SIZE
       /\ segment_register(nslots, seg_avail, name,
              NewSeg(name, NoName, "ANON", length, addr, {share}))
       /\ lastOp' = [op |-> "anon", name |-> name, range |-> NoRange]
       /\ UNCHANGED fsize

(* file <path> [<offset> <length>] [<seg-share>]: file_seg() *)
RegisterFile(path, arg, word) ==
    LET gr == get_range(arg)
        sh == get_shared(word)
    IN  \/ ~gr.ok /\ ArgRefused("file", Basename[path])
        \/ gr.ok /\ ~sh.ok /\ ArgRefused("file", Basename[path])
        \/ /\ gr.ok
           /\ sh.ok
           /\ LET range == IF gr.range = NoRange
                           THEN [offset |-> 0, length |-> 0] ELSE gr.range
              IN  /\ segment_register(nslots, seg_avail, Basename[path],
                        NewSeg(Basename[path], path, "FILE", range.length,
                               range.offset, sh.flags))
                  /\ lastOp' = [op |-> "file", name |-> Basename[path],
                                range |-> range]
           /\ UNCHANGED fsize

RegisterShm(name, length, huge) ==
    \/ length = BOGUS_SIZE /\ ArgRefused("shm", name)
    \/ /\ length # BOGUS_SIZE
       /\ segment_register(nslots, seg_avail, name,
              NewSeg(name, NoName, "SHM", length, 0,
                     {"MAP_SHARED"} \cup (IF huge THEN {"SHM_HUGETLB"} ELSE {})))
       /\ lastOp' = [op |-> "shm", name |-> name, range |-> NoRange]
       /\ UNCHANGED fsize

(***************************************************************************)
(* anon <name> <size> offset=<seg>: segment_range(<seg>) looks the other  *)
(* segment up (with segment_get()'s side effects) and places the new one  *)
(* after it.  When <seg> does not exist anon_seg() returns its local      *)
(* "err", which is never assigned: the command reports whatever value the *)
(* stack held, success or failure, and registers nothing.                  *)
(***************************************************************************)
RegisterAnonAfter(name, length, share, other) ==
    LET o == segment_get(seg, nslots, seg_avail, other)
    IN  \/ length = BOGUS_SIZE /\ ArgRefused("anon", name)
        \/ /\ length # BOGUS_SIZE
           /\ lastOp' = [op |-> "anon", name |-> name, range |-> NoRange]
           /\ UNCHANGED fsize
           /\ \/ /\ o.slot = NoSlot
                 /\ seg_avail' = o.avail
                 /\ nslots' = o.nslots
                 /\ result' \in {"ok", "cmd_error"}
                 /\ UNCHANGED <<seg, kfds, kshm, geom>>
              \/ /\ o.slot # NoSlot
                 /\ segment_register(o.nslots, o.avail, name,
                       NewSeg(name, NoName, "ANON", length,
                              (seg[o.slot].offset + seg[o.slot].length) % Word,
                              {share}))

-----------------------------------------------------------------------------
(* map_anon_segment(): system page size, round, mmap(MAP_ANONYMOUS) *)
map_anon_segment(s, r) ==
    LET r2 == [r EXCEPT !.pagesize = PageSize,
                        !.length = round_up_to_segment_pagesize(@, PageSize),
                        !.offset = round_down_to_segment_pagesize(@, PageSize)]
    IN  \/ /\ r2.length # 0                        \* mmap(len 0): EINVAL
           /\ seg' = [seg EXCEPT ![s] = [r2 EXCEPT !.start = "ADDR"]]
           /\ result' = "ok"
        \/ /\ seg' = [seg EXCEPT ![s] = r2]
           /\ result' = "mmap_failed"

(***************************************************************************)
(* map_file_segment(): round, re-read the file size, refuse an offset     *)
(* past its end, map the rest of the file when no length is registered,  *)
(* mmap() the open fd.  A descriptor opened O_WRONLY (no PROT_READ) makes *)
(* mmap() fail with EACCES.  The rounded fields stay in the table on      *)
(* every error path.                                                       *)
(***************************************************************************)
map_file_segment(s, r) ==
    LET r2   == [r EXCEPT !.pagesize = PageSize,
                          !.length = round_up_to_segment_pagesize(@, PageSize),
                          !.offset = round_down_to_segment_pagesize(@, PageSize)]
        size == fsize[r.path]
        r3   == [r2 EXCEPT !.length =
                    IF @ = 0
                    THEN (round_up_to_segment_pagesize(size, PageSize)
                            - r2.offset) % Word
                    ELSE round_up_to_segment_pagesize(@, PageSize)]
    IN  \/ /\ ~r2.fd \/ r2.offset > size
           /\ seg' = [seg EXCEPT ![s] = r2]
           /\ result' = IF ~r2.fd THEN "not_open" ELSE "beyond_eof"
        \/ /\ r2.fd
           /\ r2.offset <= size
           /\ r3.length # 0
           /\ "PROT_READ" \in r3.prot
           /\ seg' = [seg EXCEPT ![s] = [r3 EXCEPT !.start = "ADDR"]]
           /\ result' = "ok"
        \/ /\ r2.fd
           /\ r2.offset <= size
           /\ seg' = [seg EXCEPT ![s] = r3]
           /\ result' = "mmap_failed"

(* map_shm_segment(): shmat() *)
map_shm_segment(s, r) ==
    \/ /\ seg' = [seg EXCEPT ![s].start = "ADDR"]
       /\ result' = "ok"
    \/ /\ UNCHANGED seg
       /\ result' = "shmat_failed"

(* mutant: the range replaces the registered one whatever the type *)
map_range_any_type(r, range) ==
    IF range # NoRange
    THEN [r EXCEPT !.offset = range.offset, !.length = range.length]
    ELSE r

(* segment_map(): a range argument replaces the registered range of a     *)
(* file segment; anon and shm segments keep theirs.                        *)
map_range(r, range) ==
    IF r.type = "FILE" /\ range # NoRange
    THEN [r EXCEPT !.offset = range.offset, !.length = range.length]
    ELSE r

(***************************************************************************)
(* map <name> [<offset> <length>] [<share>]: segment_map().  A mapped      *)
(* segment is left alone; <share> replaces seg_flags of anon and file     *)
(* segments; the range replaces the registered one of a file segment only.*)
(***************************************************************************)
segment_map(name, range, flags) ==
    LET g == segment_get(seg, nslots, seg_avail, name)
        r == seg[g.slot]
        rf == map_range([r EXCEPT !.flags = IF flags = {} THEN @ ELSE flags],
                        range)
    IN  /\ seg_avail' = g.avail
        /\ nslots' = g.nslots
        /\ lastOp' = [op |-> "map", name |-> name, range |-> range]
        /\ UNCHANGED <<kfds, kshm, fsize>>
        \* history: a range given to an unmapped file segment replaces its
        \* geometry, whether or not the mapping then succeeds
        /\ geom' = IF g.slot # NoSlot /\ ~Mapped(r) /\ r.type = "FILE"
                      /\ range # NoRange
                   THEN [geom EXCEPT ![g.slot] = NoGeom]
                   ELSE geom
        /\ \/ /\ g.slot = NoSlot
              /\ result' = "no_such_segment"
              /\ UNCHANGED seg
           \/ /\ g.slot # NoSlot
              /\ Mapped(r)
              /\ result' = "ok"
              /\ UNCHANGED seg
           \/ /\ g.slot # NoSlot
              /\ ~Mapped(r)
              /\ r.type = "ANON"
              /\ map_anon_segment(g.slot, rf)
           \/ /\ g.slot # NoSlot
              /\ ~Mapped(r)
              /\ r.type = "FILE"
              /\ map_file_segment(g.slot, rf)
           \/ /\ g.slot # NoSlot
              /\ ~Mapped(r)
              /\ r.type = "SHM"
              /\ map_shm_segment(g.slot, r)

(***************************************************************************)
(* unmap <name>: segment_unmap().  Segments from maps are refused.  The   *)
(* history variable geom remembers the geometry the mapping had.           *)
(***************************************************************************)
segment_unmap(name) ==
    LET g == segment_get(seg, nslots, seg_avail, name)
        r == seg[g.slot]
    IN  /\ seg_avail' = g.avail
        /\ nslots' = g.nslots
        /\ lastOp' = [op |-> "unmap", name |-> name, range |-> NoRange]
        /\ UNCHANGED <<kfds, kshm, fsize>>
        /\ \/ /\ g.slot = NoSlot
              /\ result' = "no_such_segment"
              /\ UNCHANGED <<seg, geom>>
           \/ /\ g.slot # NoSlot
              /\ "SEGF_MAPS" \in r.flags
              /\ result' = "cant_unmap"
              /\ UNCHANGED <<seg, geom>>
           \/ /\ g.slot # NoSlot
              /\ "SEGF_MAPS" \notin r.flags
              /\ seg' = [seg EXCEPT ![g.slot] = unmap_segment(r)]
              /\ geom' = IF Mapped(r) THEN [geom EXCEPT ![g.slot] = Geometry(r)]
                                      ELSE geom
              /\ result' = "ok"

(***************************************************************************)
(* remove <name>: segment_remove(): refuse segments from maps, unmap,      *)
(* free the slot (closing the file / removing the shm id).  The remove     *)
(* command applies this to each name in turn and stops at the first error.*)
(***************************************************************************)
segment_remove(name) ==
    LET g == segment_get(seg, nslots, seg_avail, name)
        r == seg[g.slot]
    IN  /\ nslots' = g.nslots
        /\ lastOp' = [op |-> "remove", name |-> name, range |-> NoRange]
        /\ UNCHANGED fsize
        /\ \/ /\ g.slot = NoSlot
              /\ result' = "no_such_segment"
              /\ seg_avail' = g.avail
              /\ UNCHANGED <<seg, kfds, kshm, geom>>
           \/ /\ g.slot # NoSlot
              /\ "SEGF_MAPS" \in r.flags
              /\ result' = "cant_remove"
              /\ seg_avail' = g.avail
              /\ UNCHANGED <<seg, kfds, kshm, geom>>
           \/ /\ g.slot # NoSlot
              /\ "SEGF_MAPS" \notin r.flags
              /\ free_seg_slot(g.slot, unmap_segment(r), g.avail)
              /\ result' = "ok"

(* show <name>: segment_show(name) prints, but its lookup updates the table *)
segment_show(name) ==
    LET g == segment_get(seg, nslots, seg_avail, name)
    IN  /\ seg_avail' = g.avail
        /\ nslots' = g.nslots
        /\ result' = IF g.slot = NoSlot THEN "no_such_segment" ELSE "ok"
        /\ lastOp' = [op |-> "show", name |-> name, range |-> NoRange]
        /\ UNCHANGED <<seg, kfds, kshm, fsize, geom>>

(* show with no name, or "+" for the maps segments too: segment_show()   *)
(* lists the table without a lookup, so nothing changes                    *)
ShowAll ==
    /\ result' = "ok"
    /\ lastOp' = [op |-> "show", name |-> NoName, range |-> NoRange]
    /\ UNCHANGED <<seg, nslots, seg_avail, kfds, kshm, fsize, geom>>

(***************************************************************************)
(* map <name> [<offset> <length>] [<seg-share>]: map_seg() parses the     *)
(* range and the share word, refusing bad ones, and calls segment_map()   *)
(* with the range only when one was given and flags 0 when no word was.   *)
(***************************************************************************)
map_seg(name, arg, word) ==
    LET gr == get_range(arg)
        sh == IF word = NoWord THEN [ok |-> TRUE, flags |-> {}]
              ELSE get_shared(word)
    IN  \/ ~gr.ok /\ ArgRefused("map", name)
        \/ gr.ok /\ ~sh.ok /\ ArgRefused("map", name)
        \/ gr.ok /\ sh.ok /\ segment_map(name, gr.range, sh.flags)

(* another process truncates or extends a file between two commands; it *)
(* is no command of memtoy, so the last command and its result stay       *)
FileResize(f, n) ==
    /\ fsize' = [fsize EXCEPT ![f] = n]
    /\ UNCHANGED <<seg, nslots, seg_avail, kfds, kshm, result, lastOp, geom>>

Next ==
    \/ \E n \in Names, l \in AnonLengths, sh \in Shares, ad \in AnonAddrs :
          RegisterAnon(n, l, sh, ad)
    \/ \E n, o \in Names, l \in AnonLengths, sh \in Shares :
          RegisterAnonAfter(n, l, sh, o)
    \/ \E f \in Files, rg \in FileRanges, w \in ShareWords : RegisterFile(f, rg, w)
    \/ \E n \in Names, l \in ShmLengths, h \in BOOLEAN : RegisterShm(n, l, h)
    \/ \E n \in Names, rg \in FileRanges \cup {NoRange},
          w \in ShareWords \cup {NoWord} : map_seg(n, rg, w)
    \/ \E n \in Names : segment_unmap(n)
    \/ \E n \in Names : segment_remove(n)
    \/ \E n \in Names : segment_show(n)
    \/ ShowAll
    \/ \E f \in Files : \E n \in FileSizes[f] \ {fsize[f]} : FileResize(f, n)

Spec == Init /\ [][Next]_vars

-----------------------------------------------------------------------------
SegRecords ==
    [name : Names \cup MapsNames \cup {NoName},
     path : Files \cup Names \cup MapsNames \cup {NoName},
     start : Starts, length : Size, offset : Size,
     pagesize : {0, PageSize, HugePageSize}, type : SegTypes,
     flags : SUBSET {"SEGF_MAPS", "SHM_HUGETLB", "MAP_PRIVATE", "MAP_SHARED"},
     prot : SUBSET {"PROT_READ", "PROT_WRITE", "PROT_EXEC"},
     fd : BOOLEAN, shmid : BOOLEAN]

TypeOK ==
    /\ seg \in [Slots -> SegRecords]
    /\ nslots \in 0 .. MaxSegments
    /\ seg_avail \in Slots \cup {NoSlot}
    /\ kfds \in Nat
    /\ kshm \in Nat
    /\ fsize \in [Files -> Size]
    /\ geom \in [Slots -> [length : Size, offset : Size,
                           pagesize : {0, PageSize, HugePageSize}] \cup {NoGeom}]

(***************************************************************************)
(* segment_register() refuses a name segment_get() finds, so no two live  *)
(* slots carry the same name -- although segment_get() skips freed slots, *)
(* get_seg_slot() hands out the cached slot before any earlier hole, and   *)
(* a file segment is named by the basename of its path.                    *)
(***************************************************************************)
NamesUnique ==
    \A s, t \in Slots :
        s # t /\ Active(s) /\ Active(t) => seg[s].name # seg[t].name

(***************************************************************************)
(* The slot cached in seg_avail by segment_get() and free_seg_slot() is    *)
(* an allocated slot that holds no segment, so get_seg_slot() never hands  *)
(* out a live segment's record for reuse.                                  *)
(***************************************************************************)
AvailIsFree ==
    seg_avail # NoSlot => seg_avail < nslots /\ seg[seg_avail].type = "NONE"

(***************************************************************************)
(* Kernel objects match the table: a live file segment registered by a     *)
(* command holds exactly one open descriptor, a live shm segment exactly   *)
(* one shm id, and free_seg_slot() releases them, on the error paths of    *)
(* open_file() and get_shm_segment() as on remove -- no descriptor or shm *)
(* id leaks and none is released twice.                                    *)
(***************************************************************************)
HandlesAccounted ==
    /\ \A s \in Slots : Active(s) =>
          /\ seg[s].fd <=> (seg[s].type = "FILE" /\ "SEGF_MAPS" \notin seg[s].flags)
          /\ seg[s].shmid <=> seg[s].type = "SHM"
    /\ kfds = Cardinality({s \in Slots : Active(s) /\ seg[s].fd})
    /\ kshm = Cardinality({s \in Slots : Active(s) /\ seg[s].shmid})

(***************************************************************************)
(* The segments from maps mirror the maps file whatever commands run:     *)
(* every slot get_task_segments() filled holds a name of an accessible    *)
(* mapping with a path, mapped, with the type and length of the first     *)
(* line of that name; and when the table had room for every such name at  *)
(* start-up, each of them still has its segment (no command unmaps,       *)
(* removes or replaces one, as the spec requires of observed mappings).   *)
(***************************************************************************)
MapsTableMirrorsFile ==
    /\ \A s \in Slots :
          Active(s) /\ "SEGF_MAPS" \in seg[s].flags =>
             LET l == FirstListed(seg[s].name)
             IN  /\ l # NoLine
                 /\ Mapped(seg[s])
                 /\ seg[s].type = classify_segment(l).type
                 /\ seg[s].length = l.end - l.start
    /\ Cardinality(ListedNames) <= MaxSegments =>
          \A n \in ListedNames :
             \E s \in Slots : /\ Active(s)
                             /\ seg[s].name = n
                             /\ "SEGF_MAPS" \in seg[s].flags

RegisterOps == {"anon", "file", "shm"}

(* the live segments and what they hold *)
LiveTable == [s \in Slots |-> IF Active(s) THEN seg[s] ELSE EmptySeg]

(***************************************************************************)
(* A register command that fails leaves the live segments and the kernel  *)
(* objects as they were: every error path of open_file() and              *)
(* get_shm_segment() gives the half-built slot back.                       *)
(***************************************************************************)
FailedRegisterKeepsTable ==
    [][lastOp'.op \in RegisterOps /\ result' # "ok" =>
         /\ LiveTable' = LiveTable
         /\ kfds' = kfds
         /\ kshm' = kshm]_vars

(***************************************************************************)
(* Unmapping and then mapping a segment again without a range argument    *)
(* gives it the geometry (length, offset, page size) it had when it was   *)
(* unmapped: segment_map() keeps the registered range, and a range only   *)
(* replaces it for a file segment (a map command that passes a range to a *)
(* file segment starts a new geometry, even when it fails).               *)
(***************************************************************************)
RemapKeepsGeometry ==
    [][\A s \in Slots :
         /\ lastOp'.op = "map"
         /\ lastOp'.range = NoRange \/ seg[s].type # "FILE"
         /\ Active(s) /\ ~Mapped(seg[s]) /\ Mapped(seg'[s])
         /\ geom[s] # NoGeom
         => Geometry(seg'[s]) = geom[s]]_vars

-----------------------------------------------------------------------------
(***************************************************************************)
(* Refinement: the table implements SegmentRegistry.  A name maps to the  *)
(* live slot that carries it, a slot's record to its type, whether it is  *)
(* mapped and whether it came from maps; the results "exists" and          *)
(* "table_full" are the registry's refusals of the command's name.         *)
(***************************************************************************)
SlotOf(n) == CHOOSE s \in Slots : Active(s) /\ seg[s].name = n

AbsSeg(r) == [type |-> r.type, mapped |-> Mapped(r), maps |-> "SEGF_MAPS" \in r.flags]

(* the refusal of the last command, as the registry states it *)
Refusal ==
    IF result \in {"exists", "table_full"}
    THEN [why  |-> IF result = "exists" THEN "exists" ELSE "full",
          name |-> lastOp.name]
    ELSE [why |-> "none", name |-> NoName]

Registry == INSTANCE SegmentRegistry WITH
    Capacity <- MaxSegments,
    Absent   <- NoName,
    segs     <- [n \in Names |-> IF n \in ActiveNames THEN AbsSeg(seg[SlotOf(n)])
                                                    ELSE NoName],
    refusal  <- Refusal

(***************************************************************************)
(* Every behaviour of the slot table is one of the registry's: a name     *)
(* names one segment, a register command refuses a new name as "segment  *)
(* table full" only when every one of the MaxSegments slots holds a live   *)
(* segment (the cached slot, the holes segment_get() skips and the slot   *)
(* it preallocates are all reused), it overwrites no live segment, and    *)
(* map, unmap and remove change only the segment they name.               *)
(***************************************************************************)
TableRefinesRegistry == Registry!Spec

=============================================================================
