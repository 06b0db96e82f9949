# TLA+ models of memtoy

memtoy is a small C program that creates memory segments, maps them,
binds them to NUMA nodes, locks them, and touches and locates their pages.
It takes one command at a time from a terminal or a script. It can also
spawn child processes that run commands forwarded to them over pipes.
This directory holds TLA+ models of its components, TLC configurations that
check them, and `PROJECT.json`, which records the runs, mutants, source map,
findings and hazards.

## 1. The system

| Part | Source | State | Operations |
|---|---|---|---|
| Range arithmetic | `segment.c` 224-238, and the clamp repeated at 788-806, 940-960, 1000-1035, 1140-1180 | none (pure) | round up/down to the segment page size in `size_t`; clamp offset, truncate length |
| Segment table | `segment.c` 82-222, 523-757, 1279-1373 | `seglist[MAX_SEGMENTS+1]` (a NULL-terminated prefix of slot pointers), `seg_avail` (cached free slot), per slot: name, path, type, start, length, offset, page size, flags, prot, fd, shm id | register (anon, file, shm, task segments), lookup (`segment_get`, which caches or preallocates a slot), show, remove, cleanup at exit |
| Mapping engine | `segment.c` 260-513, 825-900 | `seg_start` per slot (NULL, MAP_FAILED or an address) | map (anon, file, shm), unmap |
| Touch harness | `segment.c` 765-818, `memtoy.c` 228-345, 414-453 | `sigjmp` (armed flag), `siginfo`, `signame`, the static `infocopy` | touch a range page by page; SIGSEGV/SIGBUS caught while armed; SIGINT/SIGQUIT recorded |
| NUMA policy engine | `segment.c` 907-983, `commands.c` 253-436, 438-482, 588-776, 836-961, 1364-1486, 2029-2094 | kernel policy per range, task policy, cpu affinity, their copies `gcp->mems_allowed` and `gcp->cpus_allowed` | mbind, mpol, mems, migrate, numa, cpus |
| NUMA library | `numa_stubs.c`, `migrate_pages.c`, or libnuma | none of its own | `numa_available`, `numa_max_node`, `numa_get_membind`, `numa_set_membind`, `get_mempolicy`, `set_mempolicy`, `migrate_pages` |
| Lock manager | `segment.c` 1099-1201 | locked ranges, SHM_LOCK per shm id | lock, unlock |
| Location reporter | `segment.c` 992-1089 | none (reads node per page) | where: page walk, interruptible by SIGINT |
| Child process tree | `commands.c` 1577-2008, `memtoy.c` 273-290 | list of children (name, pid, command write fd, response read fd, error count), pipes | spawn, send (`/name cmd`), wait for `OK`, respond, reap on SIGCHLD, kick (send a signal) |
| Command loop | `commands.c` 2518-2704 | interactive / batch, signalled | read a line, dispatch, respond to the parent after every line, exit on error in batch mode |

How the parts interact. Every command names a segment and looks it up with
`segment_get`. Note that even a read-only lookup changes the table: it can
cache a freed slot or preallocate a new one. Touch, bind, where and lock
resolve their range argument against the segment's length and page size.
The touch harness and the location reporter share the process-wide signal
state with the command loop. The child tree copies the whole process,
segment table included, on every `fork()`. A child's `exit()` runs the same
`atexit` cleanup as the parent, and that cleanup removes every shm segment in
the child's copy of the table.

Concurrency is limited but real. Each process is single-threaded, but it has:
- asynchronous signal handlers (SIGSEGV, SIGBUS, SIGINT, SIGQUIT, SIGCHLD),
  installed without `SA_RESTART`;
- several processes connected by pipes;
- an environment that changes the size of mapped files.

## 2. Modules

| Module | Models | State (variables) | Actions |
|---|---|---|---|
| `SegmentRange` | range arithmetic | none | operators `round_up_to_segment_pagesize`, `round_down_to_segment_pagesize`, `ResolveRange` |
| `SegmentTable` | segment table and mapping engine | `seg` (slot -> record), `nslots` (length of the non-NULL prefix), `seg_avail`, `kfds` and `kshm` (descriptors and shm ids held), `fsize` (file sizes), `result` and `lastOp` (the last command and its outcome), `geom` (history: geometry at the last unmap) | `RegisterAnon`, `RegisterAnonAfter` (anon `offset=<seg>`), `RegisterFile` (`file_seg`), `RegisterShm`, `map_seg` (with `segment_map`), `segment_unmap`, `segment_remove`, `segment_show`, `ShowAll` (show with no name), `FileResize` (environment) |
| `TaskMaps` | the `/proc/<pid>/maps` reader of start-up (`get_task_segments`, `classify_segment`) | none | operators `Registered` (the line filter), `classify_segment`, `TaskSegment`, `get_task_segments`; the reference `FirstListed` |
| `MC_SegmentTable` | the instance TLC checks | | |
| `TouchHarness` (extends `SegmentTable`) | touch harness | `tpc` (where the process is in a touch), `tslot`, `trw`, `pp`, `memend`, `step` (the sweep, in bytes from `seg_start`), `sigjmp`, `siginfo`, `infocopy` (the signal state of `glctx` and the static copy), `alive`; histories `fault` and `reported` | `segment_touch`, `TouchLoop`, `TouchAccess`, `TouchCheck`, `TouchCaught`, `TouchReport`, `Interrupt` (SIGINT/SIGQUIT), `TableStep` (any table command between touches, a file resize at any time) |
| `MC_TouchHarness` | the instance TLC checks | | |
| `ChildTree` | child process tree, the child side of the command loop | per child slot: `status`, `cname`, `cmdq` (lines in the command pipe), `resp` (OKs in the response pipe), `holders` (processes holding the parent's ends of its pipes); parent: `list`, `ppc`, `target`, `sigchld` (pending); history `uaf` | `child_spawn`, `child_send`, `child_wait`, `ResetErrs`, `child_kick`, `ParentExit`, `Interrupt`, `sigcld_handler` (with `child_reap`); per child `ChildRecv`, `ChildRespond`, `ChildEOF`, `ChildCrash` |
| `MC_ChildTree` | the instance TLC checks | | |
| `SegmentOps` (extends `TouchHarness`) | NUMA policy engine (mbind), lock manager, location reporter | adds the history `kcall`: the last ranged kernel call (`mbind`, `mlock`, `munlock`, the `get_node()` walk, `SHM_LOCK`/`SHM_UNLOCK`), its slot, byte range, and the policy name, node list and policy value of an `mbind` | `mbind_seg` (with `segment_mbind`), `where_seg` (with `segment_location`), `lock_unlock` (with `segment_lock_unlock`) for lock, unlock, slock and sunlock; all the actions of `TouchHarness` |
| `MC_SegmentOps` | the instance TLC checks (extends `MC_TouchHarness`) | | |
| `ShmFork` | the segment table's shm segments across `fork()`: child tree x segment table | per process: `pstate`, `tab` (shm ids in its table), `att` (those attached); per id: `kseg` (unused, live, marked by IPC_RMID while attached, gone) | `get_shm_segment`, `map_shm_segment`, `segment_unmap`, `segment_remove`, `child_spawn` (the fork copies table and attachments), `cleanup` (exit through `atexit`: `segment_cleanup` IPC_RMIDs every shm id in the table), `Killed` (death by a signal, no cleanup) |
| `MC_ShmFork` | the instance TLC checks: the parent and one child, two ids | | |
| `SegmentRegistry` | what the segment table promises, without slots (abstract) | `segs` (name -> type, mapped, from maps, or absent), `refusal` | `Register`, `Refuse` (exists / full), `Map`, `Unmap`, `Remove`, `Other` |
| `NumaArgs` | the policy and node-list parsers shared by mbind, mpol, mems and migrate | none | operators `get_mbind_policy`, `get_nodemask`, `get_arg_nodemask`, `NodeWordAfter`, `numa_supported` |
| `NumaTask` | task-level NUMA and cpu commands over libnuma or `numa_stubs.c` | `tpol` (the kernel task policy), `mems_allowed` (`gcp->mems_allowed`, NULL until filled), `nodeids` (numa_info's buffer: size and ids written), `affinity` (the kernel's cpu affinity), `cpus_allowed` (`gcp->cpus_allowed`), `alive`, `result`; histories `wild` and `read` | `numa_info`, `migrate_process`, `mems`, `mpol` (with `show_task_policy`), `cpus` |
| `MC_NumaTask` | the instance the violation run checks (libnuma) | | |
| `MC_NumaBuilds` | both builds: two instances of `NumaTask`, libnuma and stubs, over shared variables and a fixed `lib` | `lib` | `BuildsNext`: a step of the chosen build |

How `SegmentTable` corresponds to the code:
- Each command is one atomic step. Only the signal handlers run
  asynchronously, and they never touch the table.
- The helpers keep the C names: `segment_get`, `get_seg_slot`,
  `free_seg_slot`, `unmap_segment`, `open_file`, `get_shm_segment`,
  `map_anon_segment`, `map_file_segment`, `map_shm_segment`.
- A handler calls them in the order the C code does. Each helper receives the
  `seg_avail`/`nslots` values left by the previous call. So a lookup's
  preallocation, followed by a failed `open()` that frees the slot, happens in
  one step, just as it does in the code.
- Failures the OS can produce for reasons outside the program are
  nondeterministic: `open`, `shmget`, `mmap`, `shmat`.
- The argument checks of the handlers come first: a size or offset equal to
  `BOGUS_SIZE` (what `size_kmgp` returns for a bad suffix), an offset
  without a length, or a share word other than a prefix of `shared` or
  `private` ends the command with `CMD_ERROR` and changes nothing
  (`ArgRefused`). Sizes are values, not strings; the suffix scaling itself is
  not modelled.
- Failures the code or the kernel forces are guards: zero length after
  rounding, a write-only descriptor (`mmap` gives EACCES), an offset past end of
  file, a missing path, a path that is not a regular file, a path with no access.
- `Init` folds `segment_register(..., SEGF_MAPS)` over `TaskSegs`, the
  segment descriptions `TaskMaps` computes from the maps file `MapsLines`, as
  `get_task_segments` does line by line.

How `TaskMaps` corresponds to the code:
- A maps line is the record of what `sscanf()` and the path scan take from
  it: addresses, the permission letters, `vm_pgoff`, the inode, the path (a
  string used as an atom, or `""` when there is none) and whether the path
  starts with `[`.
- `Registered` is the loop's `continue`s: `---` mappings and mappings
  without a path are skipped. A line the kernel writes always has the seven
  fields `sscanf()` needs, so the `nassigned` test never fires on a line that
  fits the buffer.
- `classify_segment` gives FILE unless there is no inode or the mapping is
  writable, and names the segment by `MapsName` of the path and the form
  the code builds: brackets trimmed, or `:text`/`:data` appended, then cut
  to its `basename()` by `segment_register`. `MapsName` stands for these
  string operations. Two libraries with the same file name in different
  directories get the same name, and the second is dropped.
- `TaskSegment` takes length `end - start`, and `vm_pgoff` as the offset
  unless it equals the start address, as the code tests.
- The instance reads a libc guard page (`---p`), a mapping without a path
  and the `[heap]`; only the heap becomes a segment. Library names such as
  `libc.so.6:text` are in `MapsNames`, outside the names the commands
  use, so a library segment would take a slot no command can name.

How `TouchHarness` corresponds to the code:
- `touch_memory()` is split at the points where a signal can change what
  happens next. `TouchLoop` is the loop test plus `sigsetjmp()` returning 0
  and the arm. `TouchAccess` is the access and the disarm, or the fault.
  `TouchCheck` is the `gcp->siginfo != NULL` test and `pp += longs_in_page`.
  `TouchCaught` is the `else` branch after `siglongjmp()`: `show_siginfo()`,
  `reset_signal()`, break. `TouchReport` is the rest of `segment_touch()`.
- `signal_handler` is one operator used by the synchronous fault and by
  `Interrupt`. The handler is installed with a full `sa_mask`, so it runs
  as one step.
- `AccessFault` decides what an access raises. An unmapped segment gives
  SIGSEGV. A file page past the end of the file, as it is now, gives SIGBUS.
  A missing protection bit gives SIGSEGV.
- `segment_touch` includes the command loop's `reset_signal()` before the
  command (interactive mode).

How `ShmFork` corresponds to the code:
- It keeps only what a fork shares: the shm ids in each process's copy of
  the table and which of them it attaches. The rest of the table and the
  pipes are in `SegmentTable` and `ChildTree`.
- `cleanup` is the `atexit()` handler `cleanup()` (`memtoy.c:544`) reached by
  `exit()`: `quit`, end of file, or a failed command in batch mode. Its
  `segment_cleanup()` calls `free_seg_slot()` on every shm segment, which
  IPC_RMIDs the id without detaching; the exit then detaches.
- The kernel's side follows SysV semantics: IPC_RMID of an attached segment
  marks it, the last detach destroys it, and a marked segment can still be
  attached on Linux.

How `ChildTree` corresponds to the code:
- The processes run in parallel. Each step is one process's code between
  two blocking or signal points: the parent's command up to its
  `child_wait()`, the read, the `c_errs` store; a child's line read, its
  `child_respond()`.
- Pipes: a command pipe is a sequence of lines, a response pipe a count of
  OKs. `holders[p]` tracks who still holds the parent's ends of `p`'s pipes
  (the parent, and every younger sibling, because `children_free(0)` does not
  close them). `p` reads end of file, and its OK raises SIGPIPE, when the set is
  empty.
- SIGCHLD is one pending bit. A child's exit sets it and `sigcld_handler`
  clears it and reaps one dead child. While it is set the parent runs nothing
  else: an unblocked pending signal is delivered first. The handler, and the
  user's SIGINT (`Interrupt`), end a blocked `child_wait()` with EINTR.
- Modelled as one step: a child's exit closes its pipes and signals the parent
  together, so the parent's handler runs before it can see end of file.
- The line `quit` runs `quit()`, which writes the child's OK with
  `child_respond()` and then calls `exit(0)`; `ChildRecv` does both in one
  step. With no reader left, the write's SIGPIPE kills the child instead.
- `ChildCrash` lets a child die while it runs a line or while it starts.
  During start-up, only a failed `dup2()` (`commands.c:1790`) or a signal
  from outside kills the child.

## 3. Runs

| Run | cfg | Expect | What it shows |
|---|---|---|---|
| `segment_table` | `SegmentTable.cfg` | pass | the eight properties below hold for every sequence of commands; the last is the refinement of `SegmentRegistry` |
| `segment_ops` | `SegmentOps.cfg` | pass | the four touch and range properties below, with touch, mbind, lock, unlock, slock, sunlock and where interleaved with the table commands and interrupts |
| `arithmetic_trap` | `ArithmeticTrap.cfg` | violation | `where heap` divides the offset by the task segment's `seg_pagesize` 0 (`segment.c:1040`) and kills memtoy with SIGFPE; the same division in `segment_touch()`'s report (`segment.c:812`) kills a touch of an unmapped or task segment. Before that report, `touch_memory()` (`memtoy.c:425`) advances `pp` by 0 for such a segment and loops until interrupted |
| `bind_policy` | `BindPolicy.cfg` | violation | `mbind heap <range> *`: `get_mbind_policy()` returns `CMD_ERROR`, 1, which is `MPOL_PREFERRED`, and leaves `nextarg` at the unknown word, which is then parsed as the node list; `*` is a valid one for preferred, so the command succeeds (`commands.c:481`). `mbind a bogus 0` is refused, since `bogus` is no node list |
| `touch_fault_report` | `TouchFaultReport.cfg` | violation | a SIGQUIT/SIGINT delivered right after the `siglongjmp()` overwrites the static `infocopy`; `show_siginfo()` then prints nothing |
| `numa_builds` | `NumaBuilds.cfg` | pass | the three properties below, for every sequence of numa, migrate, mems, mpol and cpus commands under libnuma and under the stubs |
| `numa_info_overflow` | `NumaInfoOverflow.cfg` | violation | `numa` on a two-node machine: `numa_info()` callocs `numa_max_node` (1) node ids and `get_current_nodeid_list()` writes two (`commands.c:846`) |
| `child_tree` | `ChildTree.cfg` | pass | the three child-tree properties below |
| `child_use_after_free` | `ChildUseAfterFree.cfg` | violation | a child dies on a forwarded line; SIGCHLD during `child_wait()` frees its record and `child_send()` writes `c_errs` into it (`commands.c:1930`) |
| `child_lockstep` | `ChildLockstep.cfg` | violation | an interrupted `child_wait()` returns before the OK: the parent is at its prompt while the child still runs the line |
| `shm_child_exit` | `ShmChildExit.cfg` | violation | memtoy creates a shm segment and spawns a child; the child's exit runs `segment_cleanup()` over the table it inherited and IPC_RMIDs the parent's segment (`memtoy.c:549`, `segment.c:220`) |
| `child_sigpipe` | `ChildSigpipe.cfg` | violation | two children die before one SIGCHLD is handled, so one stays dead in the list (`memtoy.c:279`); a line forwarded to it raises SIGPIPE and kills the parent (`commands.c:1918`) |

How `SegmentOps` corresponds to the code:
- Each command is one step: `mbind_seg`, `where_seg` and `lock_unlock` each
  run their argument checks and then the `segment.c` function, with the
  command loop's `reset_signal()` first (`OpsCommandStart`).
- `mbind_seg` first refuses without NUMA support (`numa_supported()`, a
  node id above 0). The parsers come from `NumaArgs`: `get_mbind_policy`
  maps a policy name to its `MPOL_*` value, or to `CMD_ERROR` (1) for a name
  `policies[]` does not know, without moving past it; `mbind_seg` refuses
  only a negative value, as the code does, and `NodeWordAfter` gives the word
  the node-list parser then reads: the unknown word itself, when it was
  the last one. `get_arg_nodemask` keeps the code's decision on that word:
  none, `*`, a list of digits and commas whose ids are at most
  `numa_max_node` (`get_nodemask`, which does not look at the allowed
  nodes), or other text. Default and noop ignore the rest of the line.
- `where_seg` also refuses without NUMA support.
- Each of `segment_mbind`, `segment_lock_unlock` and `segment_location` has
  its own copy of the offset clamp and length truncation in the C code; the
  model names each copy (`mbind_range`, `lock_range`, `location_range`) so a
  bug in one copy is a bug in one definition.
- The kernel calls succeed or fail nondeterministically where the kernel may
  refuse them (`mbind`, `mlock`, `SHM_LOCK`, reading a page's node).
  `munlock` and `SHM_UNLOCK` of a mapped segment succeed. The placement and
  lock state the calls change is not modelled: no command reads it back
  except `where`, which only prints it (the code does not track lock state
  either, see its TODO at `segment.c:1094`).
- `segment_location`'s page walk is one step. Its outcomes are the ones
  the code distinguishes: SEG_ERR at a page whose node cannot be read, or
  SEG_OK at the end of the range or at a recorded SIGINT/SIGQUIT (which it
  resets). Before the walk, `offset / seg_pagesize` traps when the page size
  is 0; the process dies (`alive = "SIGFPE"`).

Properties of `segment_table`:
- `TypeOK`.
- `NamesUnique`: no two live slots share a name. This depends on several
  rules together: the duplicate check, `segment_get` skipping freed slots,
  slot reuse in cache order, and file segments being named by basename.
- `AvailIsFree`: the cached slot is always allocated and free. Every lookup
  writes the cache, and `get_seg_slot` trusts it without checking.
- `HandlesAccounted`: each live file segment holds exactly one open
  descriptor and each live shm segment exactly one shm id. The kernel counts
  equal the table's, on every error path and on remove.
- `FailedRegisterKeepsTable` (action property): a failed `anon`/`file`/`shm`
  command leaves the live segments and the kernel objects unchanged.
  Spec §4.1 makes this claim.
- `RemapKeepsGeometry` (action property): unmap followed by a map without a
  range restores the length, offset and page size held at the unmap, even
  when the file changed size in between. Spec §8 makes this claim.
  - The history variable `geom` starts over when a map command passes a range
    to a file segment. The code writes that range into the table even when the
    map then fails (`segment.c:883`), so the next plain map uses it; this is a
    hazard in `PROJECT.json`.
- `TableRefinesRegistry` (refinement): `SegmentTable` implements
  `SegmentRegistry`. The mapping sends each name to the type, mapped state and
  `SEGF_MAPS` flag of its live slot, and a command's `exists` or
  `table_full` result to the registry's refusal. Slots, the cached
  `seg_avail`, the NULL-terminated prefix and the kernel handles are hidden.
  Each table step is a registry step or a stutter, so a name is never in two
  slots, a full table refuses exactly when `MaxSegments` segments are live, and
  a segment from `/proc/<pid>/maps` is never unmapped or removed. A file
  resize by another process is no memtoy command: it leaves `result` and
  `lastOp` as they were, and maps to a stutter of the registry.
- `MapsTableMirrorsFile`: every slot filled from maps holds the name of an
  accessible mapping with a path, is mapped, and has the type and length of
  the first line of that name (`FirstListed`, a recursive first-match
  search written from the spec's rule that re-registering a known maps name
  is a no-op, §4.1). While the table had room for all of them, every such name
  keeps its segment through every command sequence. Spec §3 says observed
  mappings are never unmapped, written or removed.

Properties of `segment_ops`:
- `OpsTypeOK`.
- `NoFatalFault`: no SIGSEGV/SIGBUS of a touch reaches `die(8)`. The
  checkpoint must be re-armed before every page, whatever interrupt arrives.
- `TouchStaysInSegment`: every accessed word lies inside the segment,
  for every offset and length argument (spec §7, clamp to the end).
- `KernelRangeInSegment` (action property): every range that mbind, lock,
  unlock and where hand to the kernel lies inside the segment, for every
  offset and length, including `where`'s 64-page default (spec §8): in the
  run's 8-bit `size_t`, 64 pages of 2 bytes are 128 bytes, which the
  truncation must cut to the segment.

Not a run: `segment_touch()` returns `SEG_OK` whatever the sweep met
(`segment.c:817`), while the spec says a fault during touch yields a failure
result. The code has no failure path after `touch_memory()`, so there is no
interleaving to explore; `PROJECT.json` lists it as a hazard.

How `NumaTask` corresponds to the code:
- Each command is one step, as in `SegmentOps`. The library is a constant:
  `Lib = "stubs"` follows `numa_stubs.c` (`numa_available()` -1, so
  `gcp->numa_max_node` is -1; `get_mempolicy()` returns 0 without writing the
  policy; `set_mempolicy()` and `numa_set_membind()` do nothing;
  `numa_get_membind()` is node 0). `Lib = "libnuma"` is libnuma over the
  kernel: `numa_get_membind()` is the bind mask under a bind policy and all
  nodes otherwise, and `set_mempolicy()` follows set_mempolicy(2)
  (`MempolicyValid`): default and local need an empty mask, preferred with
  an empty mask is local, and bind, interleave and a non-empty preferred need
  a node that exists.
- `Init` is `init_glctx()`: `bzero()` leaves `gcp->mems_allowed` NULL, and
  `commands_init()`'s `refresh_mems_allowed()` fills it only when
  `numa_supported()`.
- `numa_info` checks NUMA support, callocs `numa_max_node` entries, and has
  `get_current_nodeid_list()` write one entry per allowed node in
  `0 .. numa_max_node`; `nodeids` records the size and the count written.
- `migrate_process` refuses without NUMA support, without a to-list, or with
  a list `get_nodemask` rejects. Without a from-list it takes the refreshed
  allowed mask. `migrate_pages()` then fails only with EINVAL, when no node
  of the target exists; the pages moved are not state.
- `mems` takes a hex mask (any non-zero mask, with no node-id check) or a
  node list, hands it to `numa_set_membind()`, and then, like `mems` with no
  argument, refreshes and prints `gcp->mems_allowed->n[0]`: through NULL
  when the mask was never allocated (`alive = "SIGSEGV"`).
- `mpol` with no argument is `show_task_policy`. With a policy it has no
  NUMA check. An unknown word gives `CMD_ERROR` (1) and leaves the
  uninitialized local `nextarg` unset; reading through it is undefined, so
  the outcome is a choice: a fault, a refused argument, or a preferred
  policy with some node list.
- `cpus` hands a list `get_cpuset` accepts to `sched_setaffinity()` and
  ignores its result: the kernel keeps the online cpus of the mask, or
  refuses a mask with none (EINVAL) and changes nothing. Then, and with no
  argument, `refresh_cpus_allowed()` and `show_cpus()`. Hex masks are
  checked only for their shape (`0x0` is an empty set); id lists also for
  ids above `MAX_CPUID` (128).
- `wild` records the first read or write outside memory the command owns:
  the overflow, the NULL dereference, or an uninitialized read. `read`
  records what the command took from `gcp->mems_allowed` or
  `gcp->cpus_allowed` (`ReadMems`, `CpusShow`), after its refresh.

Properties of `numa_builds` (stated in `NumaTask`, taken for both builds
by `MC_NumaBuilds`):
- `BuildsTypeOK`.
- `BuildsCachesFresh` (`CachesFreshWhenRead`, an action property): every
  command that uses one of the two copies uses the task's current membind
  or affinity. mpol, mems and cpus change the kernel's state between
  commands; the copies are process-wide and survive from one command to
  the next, so this holds only because numa, migrate, mems and cpus each
  refresh before use (spec §3 and §9: allowed masks are snapshots refreshed on
  demand). Its mutant fills `gcp->mems_allowed` only when it is first
  allocated; `mpol bind 0` then `migrate 1` migrates from both nodes.
- `BuildsFailedKeepsTask` (`FailedCommandKeepsTask`): a command that ends
  in `CMD_ERROR` has not changed the task policy or the cpu affinity. The
  parsers run to the end before any kernel call; the kernel's refusals
  change nothing.

Property of `numa_info_overflow`:
- `NumaMemorySafe`: no command of `NumaTask` touches memory it does not own.
  The spec's error classes allow no process fault for these commands. With
  two nodes under libnuma the first `numa` overflows. With one node, or
  under the stubs, `mems` dereferences NULL, and `mpol` with an unknown
  word, or with no argument under the stubs, reads uninitialized memory
  (hazards `commands.c:1483`, `2046`, `2070`). The run's cfg leaves the
  unknown policy word out, so that its trace is the overflow.

Properties of `child_tree`:
- `TypeOK`, including that every listed record is an allocated slot.
- `ParentWaitEnds` (liveness): `child_wait()` always returns. Every line and
  the start are answered with an OK, or the child's death closes the pipe.
- `OrphansExit` (liveness): after the parent exits, every child exits. The
  younger siblings hold older children's pipes open, so this needs the
  holding order to be acyclic.

Each property has a mutant in `PROJECT.json`: a plausible bug in one mapped
definition, placed just before that definition in the module, which TLC
must catch. For example, `segment_get` stopping at the first freed slot
breaks `NamesUnique`; `get_seg_slot` not clearing `seg_avail` breaks
`AvailIsFree`.

## 4. Bounds

The bounds in `MC_SegmentTable`:
- `WordBits = 3`, so `size_t` holds 0..7.
- `PageSize = 2`, `HugePageSize = 4`.

Under these bounds, 7 is `SIZE_MAX`, which is also `BOGUS_SIZE`, so
`anon a 7` and `shm a 7` are refused as a bad size, as in the code. The shm
length 6 with huge pages (4 bytes) rounds up past `SIZE_MAX` and wraps to 0,
the way a real length within a huge page of `2^64` does. With 2-byte pages no
length below `SIZE_MAX` can wrap, so anon lengths do not wrap here.

`MaxSegments = 3` slots:
- The task's `[heap]` takes one.
- Two are left for commands on the names `a` and `b`, so the table can fill up
  and slots are freed and reused.

Four files:
- a read-write regular file and a write-only regular file, both with basename
  `b`, so file and anon segments collide by name;
- a missing path and a directory, both with basename `a`.

The `anon` share argument is always `shared`. The share word of `file` and
`map` is `shared` or a word that is neither shared nor private, which the
command refuses. A map command with no share word keeps the registered flags.

The read-write file is 0 or 4 bytes long and changes size between commands.
The range arguments of `file` and `map` are `0 *` (the whole file), `3 1`
(one byte at offset 3, rounded down to 2), and `3` with no length, which
`get_range` refuses. `map` also gets no range.

These values exercise every branch of every handler: a full table, hole
reuse, preallocation, each open failure, each argument refusal, the wrap to
0, EACCES, offset past EOF, and the remap of a resized file.

The cfg declares a `VIEW`, `TableView`: the table, the kernel objects, the
file sizes, the geometry history and `Refusal`, the registry refusal that the
refinement mapping computes from `result` and `lastOp`. No action reads
`result` or `lastOp`. The action properties read them only in primed form, on
the step that sets them, and the refinement reads them only through
`Refusal`. So two states with the same view have the same successors and the
same abstract state, and identifying them is sound for every property of the
run. The run has about 19k distinct states and takes about two and a half
minutes. `SegmentRegistry`'s `Next` lists `Other` first, so TLC usually
matches a concrete step without trying every named action; the formula is
the same.

The bounds in `MC_TouchHarness` are a smaller table: two slots (the heap and
`a`), one read-write file named `a` that is 0 or 4 bytes long, and
`LongSize = 1` so each byte of a page is a word. The touch ranges are: the
whole segment; offset 3 with length 5, which rounds past the end and is
truncated; and offset 5, past the end. The heap keeps page size 0, an
anon `a` that is registered but not mapped faults, and a file that shrinks
during a sweep raises SIGBUS. The cfg's `VIEW` drops `result` and `lastOp` for the reason given above.

`SegmentOps.cfg` widens `size_t` to 8 bits (`WordBits = 8`), so that
`where`'s 64-page default (128 bytes) does not wrap and must be truncated to
the segment. The other runs of `MC_SegmentOps` keep 3 bits. `MC_SegmentOps`
extends `MC_TouchHarness` with the policy names `default`
(no node list), `bind` (needs one) and `bogus` (unknown), and the node lists
none, `*` and a list of allowed nodes. The ranges of mbind, lock and unlock
are the touch ranges; `where` also gets no range (the 64-page default). Its
`VIEW` also drops `kcall`, which only action properties read, in primed form.
About 20k distinct states, 40 seconds. The NUMA arguments: a two-node machine
(`NumaMaxNode = 1`, so NUMA is supported), the policy names `default` (no
node list), `bind` (needs one) and `*` (unknown), and the node-list words
none, `*` and `0`. The `bind_policy` run gives only the node-list word none,
so its trace is an unknown word re-parsed as the node list.

The bounds in `MC_NumaTask`: node lists `0`, `1`, `0,1` and `2` (beyond a
two-node machine), `*`, other text and none; every policy name and none; the
masks `0x0` (refused), `0x1` and `0x4` (a node that does not exist). With
`MachineMaxNode` 1 this gives every parse outcome, bind masks that shrink
what `numa_info` counts, and set_mempolicy's EINVAL cases. The violation is
found in one step.

The bounds in `MC_NumaBuilds`: the words of `MC_NumaTask` plus the unknown
policy `bogus`, two online cpus, the cpu lists `0`, `0,1`, `2` (offline) and
`1,129` (refused: 129 is above `MAX_CPUID`, while cpu 1 is online, so a
refusal that still reached the kernel would show), and the cpu masks `0x0`
(empty, EINVAL) and `0x2`. The initial affinity is any non-empty set of the
online cpus. The builds are a sum, not a product: `lib` is chosen at `Init`
and never changes, so each behaviour is one process. About 3.6k distinct
states, ten seconds. No fairness: the properties are safety properties.
`CHECK_DEADLOCK` is off because memtoy can die of SIGSEGV (stubs `mems`,
an unknown `mpol` word), after which nothing runs.

The bounds in `MC_ChildTree`: two child slots (so two children can die before
one SIGCHLD is handled), two names (so a name is spawned again after its
reap), and pipes that hold one line or OK in the pass run and two in the
violation runs. The pass run has about 40k distinct states. `CHECK_DEADLOCK`
is off because the parent's exit or death ends the system.

The bounds in `MC_ShmFork`: the parent and one child, and two shm ids, so a
segment can be created before the fork (shared by both tables) and another
after it (in one table only). The run stops at the first violation, four
steps in. `CHECK_DEADLOCK` is off: every process may have ended.

Fairness. `SegmentTable` assumes none, and its properties are safety
properties. `TouchSpec` and `OpsSpec` assume weak fairness on memtoy's own
touch steps: the process is single-threaded and nothing in it waits while a
touch runs. The user's interrupts and the file resizes get no fairness. No
property of the current runs depends on this fairness. A touch of a segment
with page size 0 steps by 0 words and never ends unless a signal breaks it
(`memtoy.c:425`, a hazard in `PROJECT.json`). Showing that would need a
liveness violation run of its own. `ChildTree` assumes
weak fairness on each process's own progress: the parent's `child_wait` and
`c_errs` steps, the delivery of a pending SIGCHLD, and each child's read,
respond and end-of-file exit. These are separate processes, or the kernel's
signal delivery. The user's commands, kicks and interrupts, and the commands
that crash a child, get none. `CHECK_DEADLOCK` is off
for the touch runs because the process can die (SIGFPE), which leaves no step.

## 5. Plan (in order of importance)

1. `SegmentTable` (done): the table, registration, mapping, and the
   kernel-handle accounting.
2. `TouchHarness` over `SegmentTable` (done): the sweep, the armed flag,
   the handler and the interrupts, with four violation runs (above).
3. `ChildTree` (done, one level): the runs above. Still to do: grandchildren
   and `/a/b` routing; batch mode on the parent side; an abstract
   `AckProtocol` specification (line, then OK) and the refinement it
   admits.
4. Composition `SegmentTable` x `ChildTree` (done, as `ShmFork`): fork
   copies the table, and a child's exit cleanup removes the parent's shm ids.
5. `SegmentOps` (done): mbind, lock/unlock, shm lock and where, with the
   policy parse.
7. `SegmentRegistry` and the refinement `TableRefinesRegistry` (done).
8. `NumaTask` (done): numa, migrate, mems, mpol and cpus, over libnuma or
   the stubs, with the pass run `numa_builds`. The twelve runs the project
   keeps are all in use; the `anon offset=` disagreement (below) gave its
   run to `numa_builds`. Still to do, each needing a run: `mpol interleaved
   *`, which the kernel refuses while the spec says `*` means all allowed
   nodes.

## 6. Not modelled

These parts are left out, and why:
- The tokenizer and the text side of the argument parsers: `strtok_r`,
  the digits and suffix scaling of `size_kmgp`, cpu lists, signal names,
  help text. They are string processing. Each action takes its arguments
  from a small set of values these parsers can produce. What the parsers
  decide is modelled: `get_range`, `get_shared` and the `BOGUS_SIZE`
  refusals in `SegmentTable`, node lists and policies by the class of word
  in `NumaArgs`.
- Maps lines longer than the 128-byte buffer of `get_task_segments`.
  `TaskMaps` models lines that fit. A line of 123 to 126 characters makes
  `classify_segment`'s unbounded `strcat` overrun the stack buffer. A longer
  line is cut by `fgets()`. Then the assignment `input[len-1] = '\n'`
  (`segment.c:1306`, `=` for `==`) drops one more character, and the tail is
  read as a line of its own. This is a hazard in `PROJECT.json`. It needs
  only one long path, not an interleaving, and is not given a run.
- Addresses. They are abstracted to mapped / `MAP_FAILED` / NULL. As a
  result, MAP_FIXED clobbering another mapping (`anon ... addr=`) is outside
  the model.
- Output formatting.
- `segment_mprotect`, which has no caller.
- Allocation failures (`calloc`, `strdup`).
- mbind's `+flags` (`get_mbind_flags`): they change only where pages are
  placed.
- Page placement itself, which `mbind`, `migrate` and the policies change.
  No command reads it back as state; `where` only prints it.
- The `anon ... offset=<no such segment>` result is not given a run. The
  code returns its local `err`, never assigned (`commands.c:1038`), so the
  command can report success while no segment was registered, against the
  spec's rule that a validation error yields a failure result.
  `SegmentTable` models the outcome as either result; the disagreement
  shows in one step, with no interleaving, and is a hazard in
  `PROJECT.json`.
