# gemOS and the object store: a TLA+ verification project

The repository holds four operating-system assignments. The first three add
code to gemOS, a small x86-64 teaching kernel that is otherwise delivered as
object files: page tables of a new process (`src/Ass1`), system calls and page
faults (`src/Ass2`), and a process scheduler (`src/Ass3`). The fourth is an
object store on a disk image behind FUSE (`src/Ass4`). Each assignment builds on
its own; they share no state.

This project models the parts that carry the logic, checks them with TLC on
small instances and proves properties of them with TLAPS for every instance.

| module | what it is |
| --- | --- |
| `Scheduler` | `src/Ass3/schedule.c`: timer tick, exit, sleep, clone, signals, alarms; liveness |
| `SchedulerClock` | `Scheduler` with the tick counter and the time each sleep is due; safety |
| `SchedulerProofs` | theorems about `SchedulerClock` and `ContextSwitch` |
| `MCScheduler`, `MCSchedulerLive` | small instances of the two |
| `ContextSwitch` | `Scheduler` with the registers its handlers save and load |
| `MCContextSwitch` | a small instance |
| `PageTables` | `src/Ass1/context_mm.c` and `actual.c`: page tables of a new process, built and freed |
| `PageTablesProofs` | theorems about it: what the tables map, that they are trees, that every frame comes back |
| `MCPageTables` | small instances: five layouts |
| `UserMemory` | abstract: the memory assignment 2 promises a process |
| `ProcessMemory` | `src/Ass2/entry.c`: system calls, page faults, the TLB; it implements `UserMemory` |
| `UserMemoryProofs`, `ProcessMemoryProofs` | theorems about the two |
| `MCProcessMemory` | a small instance |
| `BlockDevice` | abstract: what a client of the disk may expect of reads, writes and drops |
| `BlockCache` | the write-back cache of `src/Ass4/objstore.c` (build with `CACHE`), which implements `BlockDevice` |
| `BlockCacheProofs` | theorems about `BlockCache`: types, the mutex, the metadata, and that it implements `BlockDevice` |
| `KeyStore` | abstract: named files of blocks, what concurrent clients of the store may expect |
| `ObjStore` | the object store of `src/Ass4/objstore.c` (build without `CACHE`), which implements `KeyStore` |
| `ObjStoreProofs` | theorems about `ObjStore`: types, free slots and mounts whatever is overwritten; that blocks have one owner each; that it implements `KeyStore` and reports the right sizes |
| `MCBlockCache`, `MCObjStore` | small instances of the two |
| `FileMap` | abstract: a map of files for clients that make one call at a time |
| `OldStore` | the four earlier versions of the object store, which implement `FileMap` |
| `ExampleStore` | the two example stores, with and without their cache, which implement `FileMap` |
| `OldStoreProofs`, `ExampleStoreProofs` | the proofs that they do |
| `MCStoreVersions` | all of them beside each other, for TLC and for `VersionsAreMaps` |

`PROJECT.json` maps every definition to the source lines it stands for and lists
the runs, the theorems, the hazards and the disagreements found.

## Inventory

**Scheduler** (`src/Ass3/schedule.c`, `include/context.h`). State: the table of
16 execution contexts (state, sleep and alarm counters, handlers, OS stack
frame) and the current context. Operations: the timer interrupt
(`handle_timer_tick`), `do_exit`, `do_sleep`, `do_clone`, `do_signal`,
`do_alarm`, and `invoke_sync_signal` for division by zero and page faults.
Interaction: everything works on the same table; the kernel's boot code, the
slot allocator `get_new_ctx` and the frame allocator `os_pfn_alloc` are object
files. Hard: three functions each pick the next context and move the RUNNING mark
in their own way; counters of all slots count at every tick, wrap, and outlive
their process; the alarm accounting lies on one of two paths. Correct if exactly
the current context is RUNNING, nothing ready waits behind an idle CPU, nobody
starves, sleeps last what they should, alarms arrive and dead contexts stay dead.

**Object store** (`src/Ass4/objstore.c`, `objfs.c`, `lib.c`). State: the inode
table, a bitmap of inodes, one of data blocks, one of inode-table blocks changed
since the mount, the global `temp`, the mutexes, and `disk.img`. Operations:
create, rename, look-up, stat, unlink, read, write, mount, unmount. FUSE calls
them from several threads. Hard: only part of the allocation is locked; a free
and an allocation load and store the same bitmap word; `temp` is shared; block
numbers count from two different origins; blocks pass from one object to
another through indirect tables; what an unmount saves depends on marks set
elsewhere, which count 46 inodes to a block where a block takes 42 and a part.
Correct if blocks have one owner, the bitmap says who is free, reads
return what was written, and a remount changes nothing.

**Block cache** (same file, with `CACHE`). State: a tag, a dirty mark and a block
per slot, and `lock_cache`. Operations: `write_cached`, `read_cached`,
`find_cache` (drop a freed block), and the write-back at unmount. Hard:
`find_cache` takes no lock. Correct if clients cannot tell the cache from the disk.

**Page tables** (`src/Ass1/context_mm.c`, and the earlier `actual.c`). State:
the tables of a context in frames that nobody clears, the frame allocator's
bitmaps and counters. Operations: `prepare_context_mm` and `cleanup_context_mm`,
called by the shell's launch command; the kernel walks the tables before it
starts the program and counts free frames afterwards. Hard: code, stack and data
may share tables at any level, so every level has "is it there" and "is it the
same" branches, and a forgotten clear shows only when a frame is dirty. Correct
if the tables map the three pages and nothing else, form a tree, and every frame
comes back exactly once.

**System calls and page faults** (`src/Ass2/entry.c`). State: the tables of the
running process, `next_free` of two segments, free frames, the TLB. Operations:
write, expand, shrink, exit, `handle_page_fault`, `handle_div_by_zero`. Hard: a
fault builds tables out of frames it does not clear; shrink frees frames that the
TLB may still translate to; bounds are compared after unsigned arithmetic.
Correct if the process sees the memory the assignment promises and no frame is
lost, shared, or reachable once freed.

**Registers** (`src/Ass3/schedule.c` again). The tick, sleep and exit each save
the registers of the context they stop, from three stack layouts, and load those
of the next by writing into the interrupt frame and moving to registers. Correct
if whoever is resumed finds what it had, whichever handlers stopped and resumed it.

**Earlier and example stores** (`src/Ass4/objstore_succes.c`, `obj_wi_per.c` (and
its copy `onj_wi_per.c`), `without_cache.c`, `corect_correct.c`, `example/`,
`examplenew/example/`). The same interface as the store, without locks. Their
state and operations are those of the store; the examples keep one block per
object and a page cache of their own. Correct if they are a map of files.

Not part of the programs, and not modelled: `schedule1.c`, an early state of the
scheduler that nothing builds; `gemfs.c`, a template; the user programs and test
scripts (the models let clients make any call in any order instead).

## The models and the code

### Scheduler

The kernel runs on one CPU with interrupts off, so every kernel entry is atomic
and is one action: `Tick` (`handle_timer_tick`), `Exit`, `Sleep`, `Clone`,
`Signal`, `Alarm`, `Fault` (`invoke_sync_signal`), `HandlerReturns`. Between
them the current process computes, which changes nothing. `Scheduler!Tick` is
two operators because the code is two paths: `TickSwitch` leaves through `iretq`
before the alarm accounting, `TickStay` does it. `PickNext` is the scan
`(current + i) % 16` that the three functions write out; it is stated as "the
nearest ready context", with `Dist` as the number of the iteration that reaches
it. Counters are words modulo `W` (2^32 in the code). Registers are in
`ContextSwitch`; stack contents and the handler's entry address are left out. External: `get_new_ctx` gives the
first unused slot or NULL, `os_pfn_alloc` gives some frame it has not given
before or 0.

`SchedulerClock` adds `numticks`, which the code has too, and the history
variable `due`; `CSpec` is `Spec` with a bound `MaxTicks` on ticks.

### Registers

`ContextSwitch` composes each step of `Scheduler` with what it does to the
registers: `STick`, `SSleep`, `SExit`, `SClone`. A register's value is a token
naming the context and whether it has computed since it started. `TickSlots`,
`FrameSlots` and `SleepSlots` are the indices the handlers use, `Pushed` and
`SyscallPushed` what lies at them; the latter is `handle_syscall`, in an object
file, as `do_sleep` and the assignment describe it. The timer interrupt has a stack
of its own, a system call enters on the OS stack in the TSS. `want` is a
history variable: what the context had when it was stopped. The build does not optimise:
the operand of each `mov %0,%%reg` goes through rax, and `set_tss_stack_ptr`,
`set_current_ctx` and `ack_irq`, which the tick and exit call between the moves
and `iretq`, use rax, rdx and rdi (the first argument is passed in rdi in any build).
`LostBySwitch` names the registers that a context therefore does not
get back. Processes install no signal handlers here. `NoneComesAround` leaves
out the ticks at which a counter has come around and wakes a context that is not
asleep; `Scheduler` has them.

### Page tables

Every handler runs to its end, so `Launch`, `Prepare`, `Check` and `Cleanup` are the
actions; inside one, the code's order is kept by composing operators on a
machine record (tables, bitmaps, counters, current table). A frame keeps what it
held until somebody clears it, and memory may be dirty at boot (`Boots`).
`PrepareMM` and `CleanupMM` are `context_mm.c`, `PrepareActual` and
`CleanupActual` are `actual.c`. `Check` is the walk of the kernel and the mapping it
adds for itself, `CheckCleanup` its count; `failed` and `miscounted`, where it
refuses, are never reached, which is what `LaunchAccepted` and `FramesReturned`
say. `BelowCodeTable` is an exception in `OnlySegmentsMapped`:
`context_mm.c:74` clears the level-2 table of the code a second time where the new
level-1 table was meant, so that one table keeps what its frame held.

### Processes' memory

One action per system call, fault and memory access of the process. `Access` takes
its translation from the TLB or from a walk; the TLB may forget any entry at any time
and keeps the others until `invlpg` or a new CR3. `FaultPath` is the walk of
`handle_page_fault`, which the code writes out three times. The frame allocator
gives the lowest free frame. Contents of free frames are abstracted to `Old`.
Left out: `getpid` and unknown call numbers, which change nothing; the kernel's
large pages; the paging-structure caches of the CPU. Start and end of a process
(`exec_init`, `do_exit`) are in object files: exit leaves the first entry of
the level-3 table in a freed frame, which does no harm because the allocator gives each
frame to the same purpose again. Memory is clean at boot here, since the fault
handler never clears a table. The refinement to `UserMemory` maps the contents of
a page to those of the frame its path leads to. `out` is the last step of the process with
its arguments and its answer, and both modules have it: a load answers with what *that*
page holds, an `expand` of *that* many pages is refused or gives an address, and a
process is killed for an access to a page it may not make *that* access to. A handler that kills
on a legal fault, or refuses a legal `expand`, does not implement `UserMemory`.

### Block cache

`write_cached` and `read_cached` hold `lock_cache`, but `find_cache` does not, so
their statements are separate actions (`Lock`, `Evict`, `Fill` or `Load`, `SetTag`,
`SetDirty`, `Copy`; `Find`, `Untag`, `Undirty`). A thread's place is `pc`, its
call `req`. `device` has addresses below 0 for what lies before the data
blocks: a write-back with tag -1 lands there. `Latest(b)` says where the value of
a block is at any moment and is the refinement mapping to `BlockDevice`.

### Object store

A call is a sequence of actions of its thread, cut where another thread can
come between and matter: each load of a bitmap word, each store, each block
written or read, each pointer set. `lock_data` covers `ChooseBlock` to `MarkBlock`
only, as in the code. The build has no optimisation, so `bit_map[k] ^= m` is a
load and a store; the bitmap of an instance is one word. `temp` is the global that
`find_object_id` sets and `fillup_size_details` reads. Overwriting an offset
(`RelinkDirect`, `RelinkEntry`, `FreeOld`) keeps the code's confusion of disk block
numbers and data block numbers. What `destroy_object` has still to free is `todo`, a function
from the positions in its loop to the pointers found there. `Contents`, what a file's pointers reach, is
the refinement mapping to `KeyStore`.

A change marks the inode's number divided by 46 in `d_bit_map` (`MarkOf`, `PerMark`), and an
unmount saves 4048 bytes of the table for each mark (`BlockOf`, `BlockBytes`). An inode has 96 bytes, so a
block takes 42 inodes and the first 16 bytes of the 43rd. `SavedInode` therefore
saves each field of an inode by the block that this field lies in. `Fits` are the
slots whose fields all lie in the block that is marked: the first 42, and few
others. `Spill = FALSE` are clients that keep so few objects that a new one fits, which `FewObjectsFit` puts
at 42; with `Spill = TRUE` they create any number, and a remount loses what it
loses in the code. Blocks of the table end at multiples of 16 bytes, so size and pointers are
never cut; a name can be, from its 17th character on, and is taken to lie where it
begins. The field `id`, the first 8 bytes, is left out: `i + 2` whenever the slot is used.

### Earlier and example stores

`OldStore` states what four versions share once and has, for each version, the
eight operations it makes of that. One call runs at a time, as none of them locks
anything. `Careful` guards the calls a version gets wrong: creating where a
removed object has left its pointers (`objstore_succes.c`, `obj_wi_per.c`), writing an
offset twice, appending out of order (`objstore_succes.c`, which ignores offsets),
taking a table when one block is left. The first two versions save nothing at
unmount; a mount of `obj_wi_per.c` moreover reads the blocks after the inode table to addresses 88 MB
beyond the bitmaps (`obj_wi_per.c:345`), of which the model has only that the bitmaps stay
empty. The other two mark and save like `objstore.c`, and `Careful` has the slots that `Fits`.
`ExampleStore` has both examples with and without `CACHE`; only the
second has a rename, which refuses a name longer than 32 characters (`LongNames`), and after which the
cached build writes a page back that was perhaps never read (`Careful` again).
No version looks for the new name of a rename: the kernel hands a rename onto an existing name to the
handler, and two objects of one name are left. `Careful` clients rename onto free names. The refinement mapping to `FileMap` is what
the pointers of the named object reach, or for the examples its page or block.
A removal flips a bit for each pointer in turn; `Flipped` gives the outcome in
closed form, a bit is changed if an odd number of pointers lead to its block.
`FileMap` lets a call fail only when the slots, or the blocks that the files
themselves need, are used up: a version that leaks a block does not implement it.

What the models leave to the clients, and why it is so: the kernel locks a
directory over create, unlink and rename, a file over a write, and a page over
its read or write; libfuse lets no call on a path overlap with its removal or
renaming (`Admitted`). Removing a file clears its inode bit first, so those locks are
what keeps its slot from being reused too soon. FUSE sends whole pages, so
calls move whole blocks; a longer read is a sequence of them. Left out: copying a
name is one step, failing `malloc` and disk I/O, memory beyond the arrays of an
object, and the two operations that do nothing (`release_object`, chmod).

## The runs

| run | question | bounds |
| --- | --- | --- |
| `sched_sleep` | dispatch, sleeps, alarms, reuse of slots and stacks | 3 contexts, 3 frames, sleeps of 1 and 2, alarms 0 and 1, both signals, 3 ticks, no wrap |
| `sched_live` | nobody starves or is overtaken, every sleep ends | 4 contexts, unbounded ticks, counters modulo 3 |
| `sched_alarm_alone` | a lone process gets its alarm | 2 contexts, unbounded ticks, counters modulo 6 |
| `context_switch` | a resumed context finds its registers | 3 contexts, 2 frames (clones share frame 0 as stack), sleep of 1, counters modulo 4 |
| `page_tables` | tables map what they should and give every frame back | 5 layouts, 2 versions, 12 + 4 frames, none, one or all dirty at boot, any number of launches |
| `process_memory` | a process has the memory it is promised, frames and TLB are in order | 12 pages in 4 segments, 14 + 6 frames, a TLB of 1, sizes 1 and 2, any number of processes |
| `cache_quiet` | the cache is a block device and spares the metadata | 2 threads, 3 blocks in 2 slots, 2 contents, remounts; drops run alone |
| `store_object` | blocks, bitmap, size, contents, empty slots, remounts | 1 thread, 2 names, 2 inodes of which the second is cut by a block's end and left alone, 1 direct and 2 indirect offsets, 2 contents, 4 blocks (as many as one object takes) |
| `store_writers` | concurrent creates, writes and reads, up to a full disk | 2 threads, 2 objects with 2 direct offsets, 3 blocks, 2 contents; removals run alone |
| `store_rewrite` | types and what a mount restores, whatever is overwritten and however many objects there are | 1 thread, 2 objects of which the second is cut by a block's end, names taken twice, 3 blocks: the disk gets full |
| `store_versions` | the other stores are maps of files | 3 names, one of them too long to rename to, 2 objects of 1 direct and 2 indirect offsets, 2 contents, 4 blocks |
| `store_unlink_race` | *violated*: blocks have one owner | 2 threads; a removal overlaps with a write |

Why these bounds are enough to be interesting. Two users besides the swapper give
a switch from, to and past a sleeper; four contexts give a scan with a choice
of two; a slot is exited and cloned again within three ticks; the third frame is
the last one, so that a clone gets frame 0. Three blocks in two slots let two
blocks evict each other while a third does not. One direct block, and an
indirect one with two entries, make every branch of `objstore_write` and
`objstore_read` reachable and let a freed indirect block return as a data block
and the reverse. Two objects with two direct blocks each compete for the three blocks of
`store_writers`: two allocations meet at the last free block, one of them fails and keeps
the mutex. A block of 160 bytes, of which a mark stands for two inodes of 96, cuts the second
inode between its name and its pointers, as 4048 bytes and 46 inodes do for the 43rd. The five
layouts of `page_tables` have the segments meet at level 4, 3, 2 and 1 or part there, so
that each branch at each level is taken both ways; one dirty frame at a time is
enough because a table that is not cleared betrays itself alone. In
`process_memory` the second page of DATA needs a new table and that of STACK
does not; a TLB of one entry suffices for a stale translation, as entries do not
interact. Five blocks do not fit on the disk of `store_versions`: it fills
up. Distinct states: 268,308 in `store_object`, 82,249 in `store_writers`, 126,275 in
`store_rewrite`, 52,613 in `store_versions`, 5,912 in `process_memory`. Everything in these runs is explored to the end: no behaviour is cut except by
`MaxTicks`, and by `NoneComesAround` in `context_switch`.

`context_switch`, `process_memory` and `store_versions` use a view. It hides what no
later step depends on: registers of unused slots and alarm counters without
handlers; the last step `out`; the last call and answer, the names of removed objects,
blocks nothing points to, and saved inodes that will be saved again. Step properties read them on each step as it is
generated, where nothing is hidden.

Deadlock is checked in the memory, cache and store runs, except `store_rewrite` and `store_writers`,
where a full disk leaves the mutex locked and the store really stops. The
scheduler's runs, `context_switch` among them, allow stopping: the machine halts after
the last exit, and the clock ends at `MaxTicks`. Threads and contents are symmetric; no liveness is checked there.

**Fairness.** `FairSpec` assumes weak fairness of `Tick` and of nothing else: the
timer is hardware and fires while the machine is up, processes owe nothing.
`LoneAlarmFires` asks for a process that computes from some time on; handlers may
return. Memory accesses, faults and launches are steps that nobody owes. The cache
and the store have no liveness property: their threads depend
on fair mutexes, and with `lock_data` left locked there is nothing to promise.

## Disagreements with the code's documents

`store_unlink_race` shows one: a removal overlapping with a write gives one block
to two objects, although the store is to be tested with threads.

More can be seen by changing a constant of a listed configuration. Four that every
user may meet:

- `NProc = 3` in `SchedulerAlarmAlone.cfg`: `LoneAlarmFires` fails. The tick leaves through `iretq` whenever it switches contexts, before the alarm accounting (`schedule.c:138`), so processes that take turns never see SIGALRM, although the comment at `schedule.c:50` asks to "account timer ticks for alarm and sleep".
- `Spill = TRUE` in `StoreObject.cfg`: `BlocksAccounted`, `SizeRight` and `ImplementsKeyStore` fail. What changes in an inode is marked at its number divided by 46 (`objstore.c:125`, `169`, `241`, `262`), but the block saved for a mark is 4048 bytes of 96-byte inodes (`objstore.c:500`). From the 43rd object on an unmount saves the wrong block or cuts the inode: a new object is back without its size and its blocks, a removed one keeps them in a free slot, while the bitmaps are saved whole. `testcases/extra_cases/tc1_6_remount.sh` expects every file back after a remount. `without_cache.c:98` and `corect_correct.c` do the same.
- `Replace = TRUE` with renames in `StoreObject.cfg` and `BlockBytes = 192`: two objects get one name and `ImplementsKeyStore` fails (`objstore.c:243`; "Must check for duplicates", `objstore.c:229`). The earlier stores and `examplenew/example/objstore.c:205` do the same (`Careful = FALSE` in `StoreVersions.cfg`). `testcases/tc1_sanity.sh:95` renames onto an existing name and expects a failure.
- `LostBySwitch` without a register: `ResumesWhole` fails. A process that a tick interrupts goes on with other values in rax, rdx and rdi (`schedule.c:135`), although `context.h:80` calls `regs` the "Saved copy of user registers".

Others:

- four contexts and three frames in `SchedulerSleep.cfg`, with `SleepArgs = {1}`, no alarms and `MaxTicks = 4`, and the property that live contexts have different OS stacks (`OwnStack`): frames are never given back, so clones share frame 0 (`schedule.c:334`).
- `DropsOverlap = TRUE`, `NSlots = 1`, `NBlocks = 2` in `CacheQuiet.cfg`: `ImplementsBlockDevice` fails, `find_cache` loses a block written at the same time (`objstore.c:86`), and `MetadataIntact`, an eviction between its two stores writes data before the data area (`objstore.c:48`).
- `Rewrite = TRUE`, `NIndirect = 0` in `StoreObject.cfg` with only create, write and read: `ImplementsKeyStore` fails, an overwritten direct block reads back as something else, and `BlocksAccounted`, overwriting flips the bit of an unrelated block (`objstore.c:287`).
- `ShrinkArgs = {1, 14}` in `ProcessMemory.cfg` with only `NextFreeInRange` and no view: the subtraction wraps and passes the test (`entry.c:128`).
- `Careful = FALSE` in `StoreVersions.cfg`, besides renames onto existing names: for `ExampleImplementsMap`, an object renamed after a mount without having been read loses its contents (`examplenew/example/objstore.c:206`); for `OldImplementsMap`, a new object has the blocks of a removed one (`obj_wi_per.c:110`).
- `SleepArgs` with 0 in `SchedulerSleep.cfg`: `NoOversleep` fails, since `sleep(0)` stores 1 and the tick compares after decrementing, so it sleeps a whole cycle of 2^32 ticks (`schedule.c:240`).
- `W = 4`, `MaxTicks = 6` and no other property there: `NoResurrection` fails, an unused slot whose counter went all the way round is made READY and runs (`schedule.c:64`).
- any of its instances: clone with a full table takes the step `CloneThroughNull` (`schedule.c:298`).
- `StoreWriters.cfg` without `CHECK_DEADLOCK FALSE`: a write that finds no free block returns with the mutex locked (`objstore.c:367`) and every later write waits for ever; TLC stops where both threads do. Nor is `Idling => lock_data = NoThread` an invariant there.
- `StoreWriters.cfg` with `NIndirect = 1` and `NBlocks = 8`: `ImplementsKeyStore` fails, and without it `NoSharedBlocks`: the block of an indirect table is chosen without the lock (`objstore.c:308`).
- two threads with `getattr` in `StoreObject.cfg` and `BlockBytes = 192`: `SizeRight` fails, `temp` belongs to another call (`objstore.c:436`).

Read off the sources, and outside the instances: the list of frames in
`cleanup_context_mm` is declared for nine (`context_mm.c:241`), too few if no two
segments share a table; the data's level-4 entry is combined with itself where its
write permission was meant (`context_mm.c:149`), which matters if data shares that
entry with the code alone; the last page of RODATA and DATA cannot be expanded into;
`create_object` of the examples gives a slot its id before it looks for a duplicate
(`example/objstore.c`), so a refused create leaves a nameless object;
the inode table of `objstore.c`, 1015808 times 96 bytes, is longer than its mapping of
22528 pages (961194 inodes, `objstore.c:478`) and than what is saved of it (949930);
`corect_correct.c` declares two mutexes with the names of its bitmaps and does not
compile as it is.

## The proofs

Everything here holds for every value of the constants that satisfies the
assumptions on constants of the component's module (sizes are positive numbers, the set of
threads does not contain `NoThread`, and the like). Hypotheses beyond those are defined by
name in the proof module and listed below; each is satisfied by the listed runs
and the statement is false without it, as "Disagreements" shows; 
`EnoughToStart` and `FramesLeft` exclude what `ProcessMemory` does not follow further, a
frame allocator with nothing left to give, and `IndirectRoom` a disk that is full, where
the code links block -1.

### Scheduler

`SchedulerProofs`, for every number of contexts, counter width and set of frames
and arguments:

- `TypeCorrect` (`CTypeOK`), `StacksUnshared` (`StackUnique`) and `Preemption`
  (`TickPreempts`), without any hypothesis: they hold also after counters have wrapped
  and slots have come back to life;
- under `NoWrap` (`MaxTicks <= W - 2`: the machine is not up for 2^32 ticks) and
  `PositiveSleeps` (nobody calls `sleep(0)`): `Invariance` (the inductive invariant
  `IInv`), with it `OneRunsAtATime`, `NoIdlingWithWork`, `NoEarlyCleanup`,
  `SleepsNotTooLong`, and the action properties `WakesOnTime`, `TheDeadStayDead`,
  `RoundRobin`, `AlarmsOnlyWhenSet`.

None of the invariants is inductive. That an idle swapper means sleepers
exist (`SwapperOnlyIdles`) rests on knowing that a tick wakes only sleepers whose
time has come, and the tick looks only at a counter that every slot has, dead ones
too. So `IInv` adds what each counter holds: for a sleeper exactly the ticks left
and one more; for any other slot 0, 1 or a number still on its way down from the
first wrap (`Countdown`), and the like for alarms that are not set
(`AlarmCountdown`). `StacksAllocated` makes `StackUnique` inductive, `SwapperStays`
lets the scan fall back on the swapper. Each kernel entry has a lemma
(`TickIInv`, `SleepIInv`, `ExitIInv`, `CloneIInv`, `QuietIInv`); `NextIInv` joins
them. The action properties come from `NextStep`, the same for one step and one
context; round robin rests on `ScanCloser`, which says that moving to the nearest
ready context jumps over nobody.

`ContextsResumeWhole` (`ResumesWhole`), about the registers, holds for every number of
contexts, counter width and set of frames, without a hypothesis (that no tick wakes a
context which is not asleep, `NoneComesAround`, is part of the model): a context that gets the CPU
back, from whichever handler, finds every register as it was when it was stopped, except for
`LostBySwitch`. The invariant `SwitchIInv` says that the CPU is on the current context's OS stack,
that code and stack segments are each context's own, and that the saved copy of a
context that is stopped has every register it must find but rax. Each step has a lemma
(`TickResumes`, `SleepResumes`, `ExitResumes`, `CloneResumes`) that its indices into the stack put
every register where the copy expects it; `SwitchTo` is the load, common to all.

### Block cache

`BlockCacheProofs`, for every number of threads, slots and blocks:

- `CacheTypeCorrect` and `MutualExclusion`, whatever calls overlap: the types, and
  that only the holder of `lock_cache` is inside `write_cached` or `read_cached`;
- under `QuietDrops` (no call overlaps with `find_cache`): `MetadataSafe`, no
  write-back reaches the metadata, and `CacheImplementsDevice`, the refinement.

`MetadataIntact` is not inductive: a write-back goes wherever the tag of a dirty slot
points, so `QInv` adds that a tag is -1 or belongs to a block of its slot
(`TagsName`), that a dirty slot has a tag except between the two stores of
`find_cache` (`DirtyTagged`), that a slot about to be marked dirty still has its
tag (`TagKept`), and that the thread inside `find_cache` is alone (`DropsAlone`).

The refinement needs more: `RInv` adds that a slot that is not dirty equals the device
unless a write is between its fill and its mark (`CleanOnDevice`), that a slot
about to be overwritten was written back (`EvictedFirst`), that everything was at
unmount (`SavedAtUnmount`), what a thread that found a hit or a miss may still rely on
(`HitsAndMisses`, `LoadedFresh`), and that blocks being read are in use
(`ReadsLive`). A write takes effect when it fills its slot (`FillLatest`), a read when it
loads or copies; every other step leaves `Latest` of every block as it was
(`SameLatest`). Each action has a lemma `...Simulated`, `StepSimulated` joins them.

### Object store

`ObjStoreProofs` has three parts, each on the invariant of the one before. The first, without hypotheses on what overlaps or is overwritten:

- `StoreTypeCorrect` (`TypeOK`), `FreeSlotsAreEmpty` (`FreeSlotsEmpty`),
  `MountFindsLastUnmount` (`MountRestores`), `OneMarksAtATime` (two writes are never both
  between choosing and marking a block). The two about remounts speak of the slots that an
  unmount keeps whole (`Kept`), whatever the others lose;
- `FewObjectsFit`: with the sizes of the code, 46 to a mark and 4048 bytes to a block, the first free
  slot is one that `Fits` as long as fewer than 42 objects are in use. So 42 objects at
  a time are what the hypothesis `RemountsFit` below allows.

`SInv` adds to the types that removals, creates and renames do not overlap (`DirAlone`,
from the directory lock in `Admitted`), that a removal's slot is not in use, has no size
and, at its end, no pointers (`UnlinksClear`), that an inode that differs from
the saved one has its mark in `d_bit_map` (`ChangesMarked`), that the slots that do not fit are unused
if clients keep to those that do (`Unspilled`), and what `saved`
then has to be. `FirstIs` proves that the first free slot or block exists: the lower bounds of a set
are finitely many, so one of them has no successor among them.

The second, under `Orderly` (nothing is overwritten; every object fits, or nobody unmounts
(`RemountsFit`); either there is one thread, or
removals run alone, and writes too when objects have indirect pointers) and
`[]IndirectRoom` (a write that needs an indirect block finds a free one; the code
links block -1 otherwise): `BlocksAreAccountedFor` (`BlocksAccounted`). The invariant
`Blocks` treats the indirect pointers as positions below 0, so that one function `Ptr`
gives all pointers of an object. No two positions have one block (`PointersApart`);
the bitmap is exactly what is pointed to and not being freed, or held by a write
(`MapExact`); what is held is held once and not pointed to (`HeldOnce`); the word a
call has loaded is still the bitmap (`WordsCurrent`); the offset a write fills is still
empty (`OffsetsNew`); what a removal has still to free belongs to its object's next pointer
(`RestsLeft`). `AlphaAlp` and `OffsetOfEntry` are the arithmetic of
offsets and entries: each leads to the other.

The third:

- `StoreImplementsKeyStore`, under the same hypotheses and `~Replace` (nobody renames
  onto an existing name): the refinement of `KeyStore`. `FInv` adds that names lead to one
  object each (`KeysApart`) and what a call holds in its locals (`CallRight`): the pointer
  a read fetched is still that of its offset, the block a write holds has its value.
  Nearly every action leaves the contents of every file alone (`CellsKept`, `FilesNext`);
  a write takes effect when it links its block or entry, a read when it fetches. Each
  action has a lemma `...Maps`, `NextMapped` joins them;
- `SizesAreRight` (`SizeRight`), under `Orderly`, `[]IndirectRoom` and `StatAlone`
  (`getattr` runs alone: `temp` is global). `ZInv` adds that the size of every object is
  the number of offsets its pointers reach, and that `temp` is the object of the call.

The runs `store_object` and `store_writers` are instances of these hypotheses (one
thread; two threads with removals alone and no indirect pointers), and TLC checked
`SInv`, `BInv` and the parts of `FInv` there before they were proved.

### Example stores

`ExampleStoreProofs`, for every number of objects and set of names and contents (the assumption
`HandedOut` says that there is an object at least, and that what nobody wrote is no content): `ExamplesAreMaps`
(`ExampleImplementsMap`), both examples in both builds implement `FileMap`, under
`CarefulClients` (`Careful = TRUE`: nobody renames onto an existing name, which would leave two objects of
it, nor an object that it did not read or write since the
mount). A rename to a long name fails and changes nothing. The invariant `XInv` says that names lead to one object each and, for
each slot (`Sound`): without an id it has no size; with a size it holds something written; a dirty
page is loaded; a page that is loaded and not dirty is the one on the disk. The third of these is what a
careless rename breaks, and the last two are why a remount changes no file (`SlotRemounted`). `FilesOf` gives the
files as a function of the tables, so that a call that changes one slot (`OneSlot`) changes,
adds, removes or renames one file; each call has a lemma `...Maps`, `NextMaps` joins them.

### Earlier stores

`OldStoreProofs`, under `Sizes` (there is at least one object, block, direct pointer and entry of a table, the
first disk block is not a data block, and what nobody wrote is no content) and `CarefulClients`: `OldVersionsAreMaps`, the four
versions implement `FileMap`. Careful clients rename onto free names only, and with the two versions that
save their metadata they create only in slots that `Fits`, the first 42. `VersionsAreMaps` in `ExampleStoreProofs` says the
same of `MCSpec`, the specification TLC runs with both families (`OldImplementsMap`, `ExampleImplementsMap`). `MCStoreVersions`
takes `OldStore` by way of `OldStoreProofs`, so that its theorem can be cited there.

The invariant `VInv` says of the tables of the mounted store (`Store`) that names lead to
one object each; that no two pointers of objects in use lead to one block, and the bitmap has exactly the blocks that they lead to
(`Linked`); that an object has a table exactly if it has an entry in it (`TablesUsed`); that
tables and contents are where the pointers say (`Filled`); and that sizes count offsets, also
in slots out of use, where they are 0. Of the saved metadata it says (`SavedRight`)
that they differ from the tables only in marked blocks, or, with the two versions that save nothing, that they are empty.

`Linked` is what carelessness breaks: a slot that kept its pointers would share blocks, and an offset written
twice would flip the bit of another block. From it follows that a removal, which flips the
bit of one block after the other, clears exactly those of its object (`FlippedIs`), and that a
write into a table changes the contents of no other offset (`EntryGrows`). That a call fails only when it has to
(`RoomIs`) needs the invariant as a whole: the blocks in use are counted by the offsets
that hold something (`Places`) and the tables these need (`Tables`), so none is lost.
A write is one of three (`DirectGrows`, `EntryGrows`, `NewTableGrows`), each a case of `StoreGrows`: new blocks at
positions that had none. Each call has a lemma `...Maps`, `NextMaps` joins them.

### Page tables

`PageTablesProofs`, for both versions, every number of entries of a table, set of layouts, set of
dirty memories at boot, and sets of frames that have at least the twelve and three a context
may need: `TypesOK` (`TypeOK`), `LaunchesAccepted` (`LaunchAccepted`), `OnlySegmentsAreMapped`
(`OnlySegmentsMapped`), `TablesFormATree` (`TablesFormTree`) and `FramesAreReturned` (`FramesReturned`).
There is no hypothesis but the assumptions of `PageTables`. One of them, `HomesAssumption`, says what the layouts have in
common with that of `create_context`, which is the only one a process gets: the
segments have pages of their own; two of them share a level-3 table (else the nine places of
`context_mm.c:241` are too few); the first level-3 table is used, and not its first
entry (there the kernel puts its own table); with `context_mm.c`, data does not meet the code's level-4 entry
without the stack (`context_mm.c:149`). "Disagreements" lists what the code does outside of it.

The invariant `IInv` (`Invariance`) has a part for each place of the launch command
(`Stage`). In the shell all frames are free. Once the tables are built, there are
a level for each frame, four tables and a page for each segment such that
(`Complete`): the tables form a tree (`Shape`: an edge leads a level down, no two edges lead to one
frame), each segment is mapped with its rights (`SegMapped`), nothing else is an edge
except in `Leftover`, and the frames taken are exactly those. While the program runs the
same holds with the kernel's table added (`Running`). `Leftover` is what `context_mm.c` may
leave in the code's level-1 table, which it does not clear. That table is always the
fourth frame, so the invariant also says what that frame holds at any time, while free
included (`Harmless`): junk if it was dirty at boot, otherwise at most the entries of
earlier launches, which had the same indices.

Building is proved one level after the other on machines before and after, for any
segment: what one level does to the current table (`Goes`, with `LevelGoes` for
`actual.c` and `StepGoes` for `context_mm.c`, whose branches it joins), that it keeps
the tree (`GoesBuilds`), that it keeps paths already laid (`WayKept`), four levels
(`Descends`), the page (`PageAdds`), three segments (`ThreeSegments`); `MMPrepares` and `ActualPrepares` are the
two versions. `LaidForm` says when two segments have a table in common, exactly when their
indices agree that far, from which `LaidOnly` and `LaidAccepted` give the three properties of
the tables. Freeing is about lists: `DistinctFrees` frees every frame of a list without
repetition once, `OnceFrees` those that `context_mm.c` drops when they repeat,
`CleansMM` and `CleansActual` that the lists have every table exactly once. `InstallIs` is the kernel's
own mapping. Each action has a lemma, `LaunchKeeps` to `CheckCleanupKeeps`.

`FreeAll` gives the code's loop over a list of frames in closed form: the bits that are set,
and how often a counter goes up, once for each place of the list, also where a bit was set
before. That counters and bitmaps agree afterwards (`FreeAllIs`, in `MType`) therefore needs lists without
repetition, and `FramesReturned` fails if a frame is listed twice.

### Processes' memory

`ProcessMemoryProofs`, for every layout of the segments, size of table, set of frames,
TLB and set of contents:

- `NextFreeStays` (`NextFreeInRange`) under `SizesDontWrap`: `next_free` stays in its
  segment if the sizes processes ask for do not wrap. `FreeInv` adds its type; each
  system call that moves it has a lemma (`ExpandInRange`, `ShrinkInRange`);
- under `SizesDontWrap`, `EnoughToStart` (there are frames for a new context) and
  `[]FramesLeft` (a fault that is handled finds frames for the page and the tables
  missing on its way; the code writes to frame 0 otherwise): `TypesAreRight`
  (`TypeOK`), `FramesAreOwnedOnce` (`FramesOwnedOnce`), `TlbIsCoherent`
  (`TlbCoherent`), `FaultsResolve` (`FaultResolves`) and `ProcessesSeeTheirMemory`
  (`ImplementsUserMemory`), the refinement of `UserMemory`.

None of these is inductive: each path of a walk could go anywhere. The invariant
`MemInv` says that the tables of a process that runs fit its segments (`Fits`) and the
TLB holds translations of theirs (`Cached`), and that otherwise everything is free
(`Idle`). `Fits` says that the frames of tables can be given kinds `K` - free,
table of level 1 to 4, the OS stack, the kernel's table - such that they form a
tree (`Tree`): entries lead a level down (`LeadDown`), no two entries to one frame
(`EdgesApart`), every table and page is reached, whatever is no table is empty
(`OthersClean`), and a writable entry lies below writable ones (`WriteDown`, which is why the
rights of a page are those of its last entry); and that the pages reached are those
the segments grant, with their rights, the code among them (`Granted`).

The first part of the module shows that each operation keeps the tree, on machines `s` and `z` before and after,
so that the same lemma serves every step of every walk: an entry that gets rights
(`RaiseTable`), a table that is added (`AddTable`), a page that is added or
taken back (`AddPage`, `RemovePages`), the kernel's table (`AddKernel`). `FaultLevelIs`
makes a level of the walk of them, `FaultPathIs` and `InstallIs` the whole walk, `Loads` and
`ExecIs` a new context with any number of pages of code, `Free1Is` a shrink,
`TeardownIs` an exit. What is on the way to one page is not changed
by adding another since four indices determine the page (`SamePage`, from the
division of page numbers, and `OnePage`, from the tree). `SizesDontWrap`,
`EnoughToStart` and `FramesLeft` hold on the instance of `process_memory`; TLC checked that.

`free1` is stated for the pages of one shrink together, each of which it clears by
itself: in a tree clearing one leaf changes the way to no other page. The run explores
the same states as with one page after the other.

`UserMemoryProofs` proves `OnlyGrantedPagesHeld` about the abstract memory: no page
outside of what expand granted holds anything, whatever was expanded, touched and
shrunk before. `Layout` assumes that pages and sizes are numbers and segments have
a first page before the last. As `ProcessMemory` implements this memory, the theorem
is one about its processes too.
`HeldInv` adds that limits are numbers; `UsableGrows` is the step of expand.

### Only model-checked

Liveness (`sched_live`, `sched_alarm_alone`): liveness under fairness and ENABLED are out
of the prover's reach.

## Not modelled

The object files the course delivered (boot, shell, frame allocator, interrupt
entry, user-mode entry) are modelled from how the code in `src/` uses them and marked
external. Left out altogether: the user programs and test scripts, which make
calls the models make in every order; `schedule1.c` and `gemfs.c`; the
half-written cache of `corect_correct.c`; reading and parsing of options and names,
logging, failing `malloc` and disk I/O; partial blocks; and a crash between mounts,
for which the code promises nothing. Of the store also: memory beyond the mapping of the inode
table and beyond an object's arrays, names of 16 characters and more that a block's end
cuts, names longer than their field.

## Plan

1. `[]FramesLeft` and `[]IndirectRoom` from bounds on the numbers of frames
   and blocks.
2. Partial blocks in `ObjStore` (an append that starts inside a block), a crash
   between mounts, and the store on top of the cache.
