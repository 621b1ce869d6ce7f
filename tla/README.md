# Verification of the xv6 kernel and the course programs

The repository holds the work of an operating systems course. Its largest part
is the xv6 kernel (`src/Lab11_xv6/deliverables`), a small Unix for several x86
processors; the rest are C programs of a few hundred lines: a shell, three
memory allocators, cache simulators, a queue, sorting programs and exercises
with processes, threads and sockets. This directory holds TLA+ models of the
kernel's concurrent and persistent parts and of the programs that keep state,
the TLC runs that check them on small instances, and TLAPS proofs for every
instance of the log, the buffer cache, the process table, the pipe, the console
and the queue.

## 1. The system

Paths are relative to `src/Lab11_xv6/deliverables` unless they begin with `src/`.

| part | state | operations | what is hard | what makes it correct |
|---|---|---|---|---|
| redo log (`log.c`) | `log.lh`, `outstanding`, `committing`; the log and home blocks | `begin_op`, `log_write`, `end_op`, `commit`, recovery | crashes between any two block writes, concurrent calls sharing a transaction, the space of the log | a call's writes become durable together or not at all |
| buffer cache, sleep-locks, disk driver (`bio.c`, `sleeplock.c`, `ide.c`) | `bcache` and its LRU list, `idequeue`, the device | `bread`, `bwrite`, `brelse`, `iderw`, `ideintr` | recycling against use, interrupts, failed transfers, too few buffers | one buffer per block, used by one process at a time |
| processes (`proc.c`, parts of `trap.c`, `sysproc.c`, `spinlock.c`) | `ptable`, `cpu->proc`, `ticks` | `scheduler`, `fork`, `exit`, `wait`, `kill`, `sleep`, `wakeup` | several CPUs, preemption, a lock handed from one stack to another, lost wakeups | a process runs on one CPU, no stack in use is freed, nobody sleeps for ever |
| pipes (`pipe.c`, `fileclose`) | the ring, its two counters, its two ends | `piperead`, `pipewrite`, `pipeclose` | sleeping in the middle of a call, counters that wrap, closes and kills at any time | a bounded FIFO of bytes |
| names, inodes, open files (`fs.c`, `sysfile.c`, `file.c`) | `icache`, inodes and directories on disk, `ftable`, descriptors, current directories | `open`, `mkdir`, `mknod`, `link`, `unlink`, `chdir`, `dup`, `close` | references taken before a lock, two locks at a time, inodes freed while they are looked up | counts are exact, nothing in use is freed |
| file contents (`fs.c`, `file.c`, `mkfs.c`) | bitmap, direct and indirect blocks, offsets | `balloc`, `bfree`, `bmap`, `itrunc`, `readi`, `writei` | running out of blocks half way | no block in two files |
| memory (`kalloc.c`, `vm.c`, `exec.c`) | free list, page tables | `kalloc`, `kfree`, `allocuvm`, `copyuvm`, `exec` | failure in the middle of a copy | no page leaked, none used twice |
| console (`console.c`, `kbd.c`) | ring with `r`, `w`, `e`; modifiers | `consoleintr`, `consoleread`, `kbdgetc` | interrupts, editing, end of file | lines arrive whole and in order |
| xv6 shell and allocator (`sh.c`, `umalloc.c`) | command tree; circular free list | parser, `runcmd`; `malloc`, `free` | descriptors left open; coalescing | pipelines end; blocks do not overlap |
| `src/Assignment6_AdvancedMemory` | a list of blocks per processor | `mymalloc`, `myfree` | threads and the locks they really take | blocks do not overlap |
| `src/Assignment5_Memory` | block list; cache sets | `mymalloc`, `myfree`; replacement | splits and merges; eviction order | as above; agreement with a reference cache |
| `src/Assignment4_Shell` | flags, children, descriptors | parser, `launch_pipe` | waits and pipes | a command line ends |
| `src/Assignment2` | ring of an array | `queue_enqueue`, `queue_dequeue` | boundaries | a bounded FIFO |

The parts of the kernel rest on each other. System calls (`sysfile.c`) run
between `begin_op()` and `end_op()` of the log and change inodes and directories
under sleep-locks; the log and `fs.c` read and write blocks through the buffer
cache, which calls the disk driver; all of them sleep and wake through `proc.c`,
and so do the pipes. A model of one layer takes from the layer below what that
layer's own model shows. `Log.tla` assumes of `bread()` and `bwrite()` what
`Bio.tla` establishes: one buffer per block, a pinned buffer is not recycled, a
clean buffer agrees with the disk. `Bio.tla`, `Pipe.tla` and `Fs.tla` treat the
critical section that ends in `sleep()` as releasing its lock and falling asleep
in one step, and `Proc.tla` has the code of `sleep()` and `wakeup()` in which
these are two, and shows that no wakeup is lost. `FileData.tla` shows that a
transaction of `filewrite()` or `itrunc()` writes fewer than `MAXOPBLOCKS` blocks,
which is what `Log.tla` asks of its callers.

## 2. Modules

Each component's operators have the names of the C functions. Where a function
is more than one step, its steps are `function_part`. An operator named after a
mistake (`begin_op_off_by_one`) is a mutant of the definition that follows it;
`PROJECT.json` lists which property each of them breaks.

**`Log.tla`** models all of `log.c`. `lh` and `dhead` are the header in memory
and on disk as sequences of block numbers, `disk` and `cache` hold the contents
of the log blocks and of the home blocks after them, addressed relative to the
log so that a log that grows too long runs into the home blocks as it does in
the code. `begin_op` reserves or sleeps; `log_write` is two steps, the size check
without the lock and the append (with absorption) under it; `end_op` of the last
call starts the commit, whose block writes are steps of their own (`write_log`,
`write_head`, `install_trans`, `erase`); `crash` may come between any two steps,
also during recovery (`read_head`, `recover_install`, `recover_erase`), and loses
everything but the disk. `bread` of a block that is not dirty may return the
cached block or read the disk, as a recycled buffer would.
`OpBlocks` is the number of distinct blocks that a call really writes, at most
its reservation `MAXOPBLOCKS`. **`AtomicDisk.tla`** is what the log promises:
calls write a current state, a commit with no call active makes it the stable
state in one step, a crash returns to the stable state.

**`Bio.tla`** models `bio.c`, `sleeplock.c` and `ide.c`: the cache with its LRU
list (`bget_cached`, `bget_recycle`, `brelse`), sleep-locks with their sleepers,
and the driver's queue, which the device works off one request at a time
(`iderw`, `device_done`, `device_fails`, `ideintr`). A member of `Procs` is one
use of a buffer, from `bread()` to `brelse()`. `log_write` pins a buffer by
marking it dirty. `kill` wakes a process that sleeps for a lock or for the disk,
which then tests again what it waits for. **`BlockStore.tla`** is its promise: a map from blocks to
contents in which a block has at most one user, who sees the last contents; a
failed transfer spoils its own block only.

**`Proc.tla`** models `proc.c`, the timer and the killed test of `trap.c` and
`sys_sleep()`. `ptable.lock` and `tickslock` are held by a CPU and explicit, since
`scheduler()` acquires `ptable.lock` and the process it switches to releases it;
`pc` is where a process is or will continue when it is switched to. The failure
paths of `allocproc()` and `fork()` outside the lock are steps of their own. The
timer interrupts wherever interrupts are on. `fork()` stops at `MaxPid`.

**`Pipe.tla`** models `piperead`, `pipewrite` and `pipeclose` byte by byte, with
the reference counting of `fileclose()` that decides when an end is closed, and
`kill()`. The counters wrap at `UintMod`, a multiple of `PIPESIZE` as 2^32 is of
512. `unwoken` is a history variable: the readers that were asleep when a killed
writer left by the exit without a `wakeup()`. **`ByteChannel.tla`** is its promise: a FIFO of at most `Size` bytes with two
ends that may be closed.

**`Fs.tla`** models the inode cache and the path walk of `fs.c`, the file table
(`file.c`) and the system calls on names (`sysfile.c`). A directory is a map from
names to inode numbers; `th[p]` holds where a process is in its call and its
local variables (`cur`, `dp`, `ip`, and `put`, the argument of `iput()`). Code that
holds one sleep-lock from `ilock()` to `iunlock()` is one step; where the code
holds one lock and takes another, or lets go of a lock and takes it again, there
are two. `iput()` is three: the test, the freeing, and the decrement of `ref`,
which are separate critical sections in the code. `lost` is a history variable:
inodes whose name disappeared with a removed directory. A process whose call
runs out of inodes or cache entries panics and stops (`pc = "full"`).

**`FileData.tla`** models the other half of `fs.c`, the contents of files: `balloc`,
`bmap` with the indirect block, `writei`, `readi` and `itrunc` block by block, and
`filewrite`, `fileread` and `fileclose` with the offset that processes share through a
`struct file`. A cell of a block is a byte or a block number, so that a block that
is not cleared shows. `bmap()` of a first indirect block calls `balloc()` twice, which
the model does in one step. `mkfs` comes first (`mkfs_file`, `mkfs_copy`, `mkfs_done`) and
builds the image that the kernel starts with. `want` is a history variable: what the
completed writes should have left in each file. A full disk is a panic in the code
and a state of the model.

**`Vm.tla`** models `kalloc.c`, `vm.c`, `exec.c` and the memory of `fork`, `sbrk`,
`exit` and `wait`, from `kinit1()` on. Frames are counted and not named; each
`kalloc()` is a step, so that processes compete for the last frame in the middle of
every loop, and each failure exit is an alternative of the step that fails. `leaked`
counts the frames that `copyuvm()` forgets when `mappages()` fails.

**`Console.tla`** models the input ring with its three wrapping indices, the editing
keys, readers that sleep, are woken or are killed, and the cursor of the screen;
**`LineInput.tla`** is its promise, a line editor. **`Kbd.tla`** models `kbdgetc()`:
scan codes of one or two bytes arrive one interrupt at a time and update the
modifiers.

**`Sh.tla`** has the recursive-descent parser of `sh.c` over tokens, next to the
grammar as a printer, and `runcmd()`: processes, their descriptors and the pipes
between them, with `fork1()` and `pipe()` failing when there is no slot.
**`MiniShell.tla`** models the shell of Assignment 4: its flags, the children of
`launch()` and `launch_pipe()`, who holds which end of the pipe, and `waitpid()` after
`SIGCHLD` is ignored.

**`Umalloc.tla`** models the allocator of the user library, with a program that also
calls `sbrk()` itself; **`Heap.tla`** is the promise of an allocator. **`FirstFit.tla`**
models the allocator of Assignment 5 up to the first `myfree()` that returns memory to
the system, and **`Arena.tla`** the one of Assignment 6, step by step between its locks
and over byte addresses: `Pointer` and `Header` are the code's `header + BLOCK_SIZE` and
its inverse, which count in headers. Both are models of calls, and the program's stores
are outside of them (section 6).
**`Queue.tla`** is the queue of Assignment 2 and **`BoundedFifo.tla`** its promise.
**`Cache.tla`** models the two cache simulators of Assignment 5 on one trace, with the
conversions of `binary.h`, and **`FifoCache.tla`** is the cache that the first should be.

**`MCKernel.tla`** and **`MCPrograms.tla`** put components that share no state into one
run. The variable `part` says which component moves; the others stay as they
begin. The state space is the sum of those of the parts, and each property of an
instantiated component is guarded by its part.

**`LogProofs.tla`**, **`BioProofs.tla`**, **`ProcProofs.tla`**, **`PipeProofs.tla`**,
**`ConsoleProofs.tla`** and **`QueueProofs.tla`** hold the theorems, and **`Remainders.tla`**
the facts about `%` that the three rings need.

## 3. Runs

TLC explores all of each instance; the sizes are distinct states.

| run | instance | shows |
|---|---|---|
| `log_atomic` | 2 processes, 2 home blocks, 2 values, calls of 2 blocks, log of 5 data blocks; 685 000 | `CommittedIsDurable`, `ImplementsAtomicDisk` with crashes anywhere, and `SleepersWake` (liveness): sleepers in `begin_op()` go on |
| `bio_safety` | 2 buffers, 3 blocks, 3 uses, 1 pinned block, 1 failure; 263 000 | `CacheSound` (one buffer per block, clean buffers match the disk), `SleepersHaveWakers` (driver queue and sleep-locks), `ImplementsStore`, `PanicsOnlyWhenFull` (no buffer is ever lost to the cache) |
| `proc_safety` | 3 slots, 2 CPUs, pids to 3; 1 890 000 | `OnOneCpu`, `StackOwned`, `ChildrenReaped` (parents alive, no missed exit), `SleepHandsOver` (no missed tick, `sched()` with one lock) |
| `proc_live` | 3 slots, 1 CPU | `ZombiesReaped`, `KilledExit` (liveness) |
| `proc_newborn` | 2 slots, 1 CPU | *violated*: `NewbornNotKilled` |
| `pipe_stream` | ring of 2, counters modulo 4, 3 processes, one killable, calls of 0, 1 and 3 bytes; 410 000 | `ImplementsChannel`, `NoLostWakeup`, `FreedUnused`, `CallsReturn` (liveness) |
| `fs_names` | 2 processes, 3 inodes, 3 cache entries, 1 file, 2 descriptors; 1 700 000 | `InodesSound` (exact reference counts, cache agrees with disk), `LinkCounts`, `NamesAlive`, `NoPanic` |
| `fs_orphan` | the same | *violated*: `NoOrphans` |
| `fs_deadlock` | the same | *violated*: `NoDeadlock` |
| `kernel` | three parts, 952 000 in all | see below |
| `programs` | eight parts, 704 000 in all | see below |
| `arena_race` | 2 threads, 1 block per class | *violated*: `GivenOnce` |

The parts of `kernel`:

| part | instance | shows |
|---|---|---|
| `FileData` | 2 processes, 4 inodes, 9 blocks of 2 cells, 1 direct block, `MAXOPBLOCKS` 6, writes and reads of 5 bytes | `ImageSound` (a marked block has one owner, unlocked inodes are saved), `ContentsRight`, `WritesFit` (a transaction fits its reservation, no panic but a full disk) |
| `Vm` | 3 process slots, pages of 2 addresses, 3 page tables of 2 entries, 22 frames, `sbrk` by 3 and -2, a program of two segments | `MemorySound` (every frame is free, owned once or counted as leaked), `PagesRight` (pages are those below the size, and in a child the parent's with its guard page) |
| `Log` | 3 processes, 4 home blocks, 3 data blocks, calls that use 1 of 2 reserved blocks | `LogFits` |

The parts of `programs`:

| part | instance | shows |
|---|---|---|
| `Console` | ring of 3, indices modulo 6, 2 readers, one killable, screen of 2 by 3 | `ImplementsLines`, `ConsoleSound` (indices in order, cursor on the screen, readers woken), `EofAlone` |
| `Kbd` | 3 keys down at a time | `ShiftMatchesKeys` |
| `Sh` | all lines of up to 4 tokens parsed; 4 scripts, up to 2 lines, run with 6 processes and 3 pipes | `ParserFaithful` (the lines of the grammar, and their meaning), `PipelinesEnd` (right ends, no hang, prompt after the end) |
| `Umalloc` | headers of 2 bytes, heap of 14 headers, requests of 1, 3 and 8 bytes | `HeapSound` (a partition, free neighbours joined), `ImplementsHeap` |
| `FirstFit` | headers of 3 bytes, 24 bytes, requests of 1 and 3 | `BlocksTracked` |
| `Queue` | capacity 3, 2 items, any initial array | `ImplementsFifo` |
| `Cache` | 3 bits, 5 accesses, 2 sets of 2 lines | `CachesRight` (a FIFO cache, and right counts of both caches); `BitsRight` as an assumption that TLC evaluates |
| `MiniShell` | 15 lines, 3 children, a pipe of 1 chunk, programs that write 2 | `WaitsEnd` (foreground done at the prompt, no hang but the known ones) |

**Why the bounds are enough to be interesting.** `log_atomic` lets two calls share
a transaction, absorb each other's blocks and crash during installation and
recovery; once one of them has logged a block, the other does not fit beside it
and sleeps in `begin_op()`. In the log part of `kernel` three processes never fit
at once. In `bio_safety` there are more blocks than buffers, so
buffers are recycled while another process waits for them, and fewer buffers than
uses, so that `bget()` does run out of them. `proc_safety` has both
CPUs in the scheduler at once, orphans (init, a child and a grandchild), slots used
again after `wait()` and a `sleep()` that ends at a tick. `MaxSleep = 1` makes the
tick race with the test of the loop; in `proc_live` it is 0, so that its kills meet
processes in `wait()`, in the kernel and in user space, not in `sys_sleep()`. In
`pipe_stream` the counters wrap after two turns of the ring, and a write of 3 bytes
is longer than the ring: its writer can be killed with bytes written and readers
asleep. In `fs_names`
one process makes `/d`, enters it, creates `./a` and links it to `/d/a`, the other
creates and removes `/d/a` and removes or opens `/d`; the three inodes are used
again and again, and directories are removed while the other process is in them
or on its way. `MaxLinks` bounds the links of a file: without it a file whose
names are added to removed directories gains links for ever. `MaxPid` bounds
`nextpid`; the code lets it overflow. In `FileData` a write of 5 bytes needs three
transactions and the indirect block, two of them do not fit the file, and the disk
is too small for both processes. In `Vm` the frames run out in every loop, and there
are enough for a child of a program with a guard page. In `Console` the ring wraps
and fills without a newline. `Umalloc` reaches the end of the heap, and its list
has up to four blocks. Symmetry is used in `bio_safety` only, over buffers,
blocks and processes, none of which the code orders; that run has no liveness
property.

**Deadlock** is checked in the `log`, `bio` and `proc` runs. It is not in the
others. A pipe with both ends closed has nothing left to do, and a reader and a
writer may sleep for ever when the process at the other end makes no call;
`CallsReturn` says when a call must return. In `Fs` a panic stops a process, and the
deadlock of `fs_deadlock` is a state of the model. In `kernel` a full disk and in
`programs` the end of a trace, of a shell or of the heap are ends;
`PipelinesEnd` and `WaitsEnd` say where processes may not be stuck.

**Fairness.** `log_atomic`: a call that has begun ends (strong fairness of
`end_op`: file system calls do not loop, and the spinlock they need is released
again and again), and the steps of a commit and of a recovery are taken (weak:
they belong to one process that nothing disables). Crashes and new calls are not
fair. `proc_live`: one CPU whose timer keeps interrupting; a runnable process is
picked again and again because `scheduler()` scans the whole table; init calls
`wait()` again and again (`init.c`). Two CPUs are not claimed: xv6's spinlocks are
unfair, and a CPU may starve at `ptable.lock`. `pipe_stream`: a process inside a
call takes its next step although it must reacquire the pipe's lock (strong
fairness); nobody is obliged to call.

## 4. Disagreements between code and comments

Four runs are expected to find a violation. Each states what a comment, a test or
an assertion of the repository says, and TLC's trace shows what the code does.

* `proc_newborn`. `kill(0)` marks a free slot, and `allocproc()` does not clear
  `killed`: the next process made there exits before it runs.
* `fs_orphan`. `iput()` looks at `ref` in one critical section and drops its own
  reference in another. Two calls on an inode without links both see two
  references, neither frees the inode, and it stays allocated for ever.
* `fs_deadlock`. `iput()` takes the inode's sleep-lock whatever the caller holds.
  `create()` calls it for the directory with the new inode locked, while
  `unlink()` of the new name holds the directory and waits for the inode.
* `arena_race`. The threads of Assignment 6 copy the arena with its mutex, so each
  locks its own copy, and all use the same arena, since `get_nprocs()` is the number
  of processors and not the current one. Two threads are given the same block.

Observations that are no run of their own:

* `log.c`: `log_write()` tests the size of the log before it takes `log.lock`, and
  `mkfs` counts the header in the `LOGSIZE` blocks that `begin_op()` divides up. Two
  calls that use their whole reservation could append one block too many, and
  `write_log()` would overwrite the first inode block. `LogFits` therefore has the
  precondition `OpBlocks < MAXOPBLOCKS`. The calls meet it: those of `sysfile.c` write
  at most seven of the ten blocks they reserve, and `WritesFit` is about `filewrite()`.
* `bio.c`: `NBUF` equals `LOGSIZE` in `param.h:11-12`, so that a transaction that fills
  the log leaves one buffer for all other uses, and `bget()` may panic.
  `PanicsOnlyWhenFull` says that it does so for no other reason.
* `pipe.c`, `console.c`: a `kill()` between the test of `killed` and `sleep()` leaves a
  killed reader asleep until somebody writes, types or closes (`pipe.c:107`,
  `console.c:246-251`). A writer that is killed while the ring is full returns
  without the `wakeup()` of the other exits (`pipe.c:86-88`), so readers may sleep
  over bytes; `NoLostWakeup` excepts the readers that were asleep then (`unwoken`),
  until a write or the last close wakes them.
* `proc.c`, `sysproc.c`: `kill(1)` makes init exit and the kernel panic; `nextpid`
  overflows; a negative argument of `sleep()` is compared as an unsigned number.
* `fs.c`: what is created or linked in a directory that was removed after
  `nameiparent()` found it loses its name with the directory and keeps its link
  (`lost` in `Fs`). `".."` of a removed directory may name a freed inode, on which
  `ilock()` panics; `NoPanic` of `Fs` is about paths without `".."`. `link()` to `d/.`
  makes `dirlink()` put the directory that it holds locked.
* `mkfs.c:161`: a root directory that fills its last block is rounded up to one that is
  not allocated; `RootNotFull` excludes it, and the image of the Makefile meets it.
* `vm.c:336`: `copyuvm()` loses a frame when `mappages()` fails. `growproc()` takes the
  new size 0 for a failure: the pages are gone, `sz` stays, and the process faults.
* `sh.c`: `>>` does not append; of `a > f > g` the first redirection wins, since the
  last one parsed is outermost and done first; `a & b` is refused. `umalloc.c`: the
  number of units of a request close to 2^32 bytes overflows.
* Assignment 4: `nosuch | cat` hangs, because the child that failed to start the left
  program keeps the write end; a right program that ends early leaves the left one
  in `write()`, because the shell keeps the read end; the shell ends after each
  pipeline, because `launch_pipe()` returns 0; after a line with `&`, `waitpid()` fails
  and the loop tests a status that nobody wrote; `a < f > g` ignores `<`; a line of more
  than 64 tokens does not fit `tokens`.
* Assignment 5: `header + BLOCK_SIZE` counts in headers (`mymalloc.c:56`), and `myfree()`
  of a block that is not the last may return memory in use to the system;
  `shiftArray()` reads `cacheSet[0][-1]` (`simulator_fifo.c:169`) and `checkCache()`
  compares with `S` where `E` is meant (250), which is the same number there.
* Assignment 6: `header + BLOCK_SIZE` counts in headers here too (`mymalloc.c:229, 245,
  267, 354`, and 374 takes it back), so that the caller's memory is not its block; the
  lock of `myfree()` is commented out (371), and when `sbrk()` fails
  for the smallest class, the -1 that it returned is used as a pointer.

## 5. Proofs

The theorems hold for every value of the constants that the `ASSUME` of the
component allows.

**The log** (`LogProofs`). The inductive invariant is `LogInv`, in three layers.
`ControlInv` is about control: the types, `outstanding` is the number of active
calls, one committer at most, the header on the disk is empty unless a commit or
a recovery is at work, and the space: what the log holds plus what the active
calls may still append (a finite set of tokens) does not exceed `LOGSIZE`. It
gives `TypeCorrect` and `CommitsAreQuiescent` without further assumptions.
`FitsInv` adds that the transaction fits the on-disk log; it needs
`OpBlocks < MAXOPBLOCKS` (section 4) and gives `LogAlwaysFits`. `DataInv` is
about contents: a clean buffer agrees with the disk, a block in the log is dirty,
and at each place of `commit()` and of recovery the log blocks hold what will be
installed and a prefix of the home blocks has been. It gives
`CommittedUpdatesSurvive`. `LogImplementsDisk` uses the whole of `LogInv`: under the
mapping in which the stable state is the disk overlaid with what a non-empty
header says, `write_head` is the abstract commit, every other step of a commit or
recovery is a stutter, and a crash is a crash.

**The buffer cache** (`BioProofs`). `BioInv` has four parts. `ControlInv` ties each
process to its buffer: a reference count is the number of processes that have the
buffer or wait for it (`CountInv`), and a sleep-lock is held by the one process that
is between `acquiresleep()` and `releasesleep()` (`LockInv`). `CacheInv` is about the
buffers: no block in two, none twice in the list, and what the flags of a buffer are at
each place of its user (`FlagInv`). `DiskInv` is about the queue of `ide.c` and what the
device has of the request at its head (`DeviceInv`): without it, "a clean buffer agrees
with the disk" is not inductive, since `ideintr()` clears the dirty flag on the device's
word. `PinInv` bounds what the log has pinned. They give `CacheIsSound` and
`SleepersAreWoken`. `OnlyFullCachePanics` follows from `CountInv`: a buffer that `bget()`
may not take has a reference or is dirty; a reference is a process that has the buffer
in hand, and a buffer that is dirty without one is the log's. So when `bget()` panics
every buffer is pinned or in hand, and none was lost on the way; nothing is assumed of
the number of buffers.
`CacheIsStore` is the refinement: the contents of a block are those of its valid buffer
or of the disk, so that a recycled clean buffer and a finished read change nothing.
It needs `BioInv` after the step as well as before it, to know that there is only one
such buffer.

**Processes** (`ProcProofs`). `ProcInv` is `TypeOK` with: `LockInv`, who holds
`ptable.lock` at each place of the hand-over, and that a CPU whose process is not
RUNNING holds it; `TickLockInv`, the same for `tickslock` and the timer; `ForkInv`,
the embryo that a process in `fork()` has is its own; `StackInv`, stacks follow
states; `FamilyInv`, a parent is alive; `NoMissedExit`; `PidInv`, pids are below `nextpid` and differ; `TickInv`, a sleeper at its last tick
has a wakeup on the way. `LockInv` is the centre: the others hold between critical
sections because the lock's holder is unique. It gives `TypeCorrect`,
`ProcessOnOneCpu`, `StacksOwned`, `FamilyIntact`, `SleepersWoken` and `PidsUnique`.

**The pipe** (`PipeProofs`). `PipeInv` has a control layer and a layer about the ring.
`LockInv` says that the holder of the pipe's lock is the one process in a critical
section, `CallInv` that a process inside a call still has the end that it uses,
`CloseInv` that an end is closed by one process, when no other has it, and `FreeInv`
that the pipe is freed by one process, when both ends are closed. `RingInv` is about `Used`, the number of
bytes in the ring modulo the width of the counters, which is at most `PIPESIZE`; the
steps change it by one, and no other fact about remainders is needed for the
invariant. `SleepInv` says what a process that is on its way to sleep has seen, and
with `NoLostWakeup` is preserved because every change that would end the wait wakes
all sleepers of that side, but for the killed writer's exit, which puts the readers
that it leaves asleep into `unwoken`. It gives `TypeCorrect`, `WakeupsKept` and `FreedOnce`.
`PipeIsChannel` shows that the ring, read from `nread` to `nwrite`, is the contents of
`ByteChannel`; it needs the modulus to be a multiple of `PIPESIZE`, as 2^32 is of 512,
so that a counter that wraps stays at its place in the ring.

**The console** (`ConsoleProofs`). `ConInv` is that the indices are in order and at most
a ring apart (`IndexInv`), the cursor is above the last row, a reader has not got more
than it asked for, no end of a line is among the characters that can still be edited
(`EditInv`), and `ReadersWoken`. The argument measures every index by its distance from
`r`: the lemmas `Place*` say that distances up to the size of the ring survive both
wraps, that of the counters and that of the ring, and after them no remainder is
needed. By `EditInv` ctl-U, which stops at a newline, erases the whole of the line that
is being typed. `ConInv` gives `ConsoleIsSound`, `EofIsAlone` (a ctl-D is read alone), and
`ConsoleIsLines`, that the ring is the line editor of `LineInput`. The assumptions are
those of the code's constants: the modulus is a multiple of the size of the ring, and
the screen has a row above the last.

**The queue** (`QueueProofs`). `QueueInv` is that the indices are in the array and
`back` is `size` places after `front`. It gives `IndicesInRing`, and `QueueIsFifo`: an
index that is advanced by less than the capacity comes round at most once, so
`queue_enqueue()` writes a place that holds no item and `queue_dequeue()` takes the
oldest one. This holds for capacity 0 too, where both calls refuse.

**Only model-checked.** Liveness (`SleepersWake`, `ZombiesReaped`, `KilledExit`,
`CallsReturn`), which the prover does not do; `Fs`, `FileData`, `Vm`, `Kbd`, the
allocators, the caches and the mini-shell; and `Sh`, whose parser is
recursive. Only proved, and in no run: the types of `Log`, `Proc` and `Pipe`, that
commits are quiescent, that pids differ, and the indices of the queue.

## 6. Not modelled

`PROJECT.json` lists every component with its status.

* Boot, start of the other processors, assembly, interrupt controllers, and the
  registers of disk, serial line and screen: outside of what a model over the
  kernel's data can say. `memide.c`, the RAM disk, has neither queue nor interrupts.
* System call dispatch and the checks of user addresses: functions without state.
* The user programs and the library but for `sh.c` and `umalloc.c`; `usertests.c`,
  `forktest.c` and `stressfs.c`, which test the system from inside.
* The sorting programs of Assignment 3, the labs on processes, threads, sockets,
  linking and vector instructions: exercises in one function, without lasting state.
* Drafts and copies of modelled programs (`shell_draft.c`, `mymalloc2.c`,
  `mySimulator.c`, `simulator.c` of Lab 6 and the like).

Of the modelled components, the following is left out. `pipealloc()`: the runs begin
with a pipe that has been made. `fork()`'s and `exit()`'s handling of open files
(`filedup`, `idup`, `fileclose`). The checks of the ELF header and the arguments on
the new stack in `exec()`. The nesting depth of `pushcli`: a CPU that holds a spinlock
is not interrupted. `FirstFit` after `myfree()` has returned memory to the system.
`Fs`, `FileData` and `Log` are not composed in one state space; each states what it
takes from the others (section 1). The stores of a program through the pointers of
`FirstFit` and `Arena` are left out; since those pointers lie outside of the blocks,
such a store may hit a header, and the models hold up to the first one that does.

Five hazards have no property. Three the code does not withstand, and the models show
that nothing else goes wrong there: the killed writer's exit (`pipe.c:88`), the frame
that `copyuvm()` loses (`vm.c:336`) and the hangs of Assignment 4 (`shell.c:274`). Two
are where the models stop: `".."` of a removed directory (`fs.c:292`), and the panics of
a full inode cache or inode table (`fs.c:262`).
