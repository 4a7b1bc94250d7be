# TLA+ models of the Pintos kernel

This directory models the teaching kernel under `src/pintos/src` and the line
comparison program under `src/project4` in TLA+.  Definitions keep the names of the C
functions they stand for.  `PROJECT.json` says for each definition which lines it
models, and for each run which properties it checks.  Paths below are relative to
`src/pintos/src` unless they start with `src/`.

## The system

| Part | Source | Model |
|---|---|---|
| scheduler: run queue, idle thread, preemption, creation, exit | `threads/thread.c` | `Threads` |
| semaphores, locks, condition variables | `threads/synch.c` | `Threads`, abstractly `Monitor` |
| alarm clock: `timer_sleep` and the timer interrupt | `devices/timer.c` | `AlarmClock` |
| calibration of busy waiting | `devices/timer.c` | `TimerCalibrate` |
| processes: exec, wait, exit | `userprog/process.c`, `userprog/syscall.c` | `Process` |
| virtual memory: frames, pages, swap, page faults | `vm/*.c`, `userprog/pagedir.c`, `userprog/exception.c` | `Paging` |
| file system, and system calls on files, descriptors and mappings | `filesys/*.c`, `userprog/syscall.c` | `FileSystem`, `InodeIO`, abstractly `FileStore` |
| interrupt queues, serial port, keyboard, screen, console, interrupt dispatch | `devices/intq.c`, `serial.c`, `kbd.c`, `input.c`, `vga.c`, `lib/kernel/console.c`, `threads/interrupt.c` | `Terminal`, `Keyboard`, `Vga` |
| disk driver, block layer | `devices/ide.c`, `block.c`, `partition.c` | `Disk` |
| startup: command line, options, partitions, roles of block devices, actions | `threads/init.c`, `devices/partition.c`, `block.c` | `Startup` |
| ELF loading, argument passing | `userprog/process.c` | `Loader` |
| page and block allocators, bitmaps | `threads/palloc.c`, `malloc.c`, `lib/kernel/bitmap.c` | `Memory`, `Bitmap` |
| lists, hash tables | `lib/kernel/list.c`, `hash.c` | `Lists`, `HashTable` |
| C library | `lib/string.c`, `stdlib.c`, `arithmetic.c`, `stdio.c`, `ustar.c`, `random.c` | `Strings`, `Stdlib`, `Stdio`, `Ustar`, `Startup` |
| longest common substring, version with threads | `src/project4/3way-pthread/p4_pth.c` | `Lcs` |
| versions for OpenMP and MPI, small devices, descriptor tables, user stubs | `src/project4`, `devices`, `userprog`, `lib/user` | not modelled |

The layers meet as follows.  Everything above the scheduler uses semaphores and
locks.  `Threads` models these at the level of single statements with interrupts on
or off and shows that locks and condition variables behave as the atomic ones of
`Monitor`.  The modules above it (`AlarmClock`, `Process`, `Paging`, `FileSystem`,
`Disk`, `Terminal`, `Memory`) therefore take a `sema_down`, `sema_up`, `lock_acquire` or
`lock_release` as one step.  `Process` and `Paging` meet in the exit of a process and in
loading; each has the other's part as a step without detail, and `Loader` has the
detail of what a load computes.  `FileSystem` takes the transfer of a sector as the
atomic step that `Disk` shows it to be.  `Memory` is built on `Bitmap`, the command line
and the stack of a new process on `Strings`.

## The modules

### Threads, MCThreads, Monitor

There is one processor.  `current` is the running thread, `ready_list` the run queue,
`intr` the interrupt level.  Code between `intr_disable` and `intr_set_level` is one
step, except that a thread which blocks there resumes later (`SemaDownLoop`).  `pc`
records where a thread is inside a primitive, wherever the code can be preempted:
between `sema_down` and `lock->holder = ...`, between the two statements of
`lock_release`, between the calls of `cond_wait`, in the loop of `cond_broadcast`.  A
thread outside the primitives may call any of them whose ASSERTs hold.  The boot is
modelled from `thread_start` on, including the time when `idle_thread` is null.
`Tick` is the timer interrupt, `InterruptUp` a handler that ups a semaphore.

### AlarmClock

`timer_sleep` is three steps (compute the wake-up time, insert, down) with the timer
interrupt possible between any two.  Only `wakeup_time - ticks` is kept, so that time
needs no bound.  Wake-up times that have passed are kept apart up to `MaxLate`.  Its run is
`devices`.

### TimerCalibrate

`timer_calibrate` for machines of several speeds: `Limits` are the numbers of loops
a tick allows.

### Process

One record per thread holds its process fields, its program point and its locals.
`exec` is the `exec_info` on the stack of the thread in `process_execute`; `ws` are the
`wait_status` structures, named by the child, `NULL` once freed.  `release_child` is
three steps: acquire, decrement and release, free.  `process_exit` is the store of the
exit code, the `sema_up`, the release of its own structure and of each child's.
Loading, allocation of the thread and allocation of the `wait_status` may fail.  Main
runs `run_task`: it starts one process at a time, without `fs_lock`, and waits for it.

### Paging, MCPaging

`page`, `frame`, `swap` and `pte` are the structures of the C code, `mem` and `disk`
the contents.  Contents are a page and a version of it, so that a frame which shows
the wrong page and one which shows an old version of the right page both differ from
what they should be; `latest` is the history variable to compare with.  Every loop of
the frame allocator advances one frame per step, with `scan_lock` and the frame locks
taken and released where the code does.  `page_out` is two steps (clear the entry;
read the dirty bit and save).  The operations that use it are a page fault, `page_lock`
in a system call, `setup_stack`, `unmap` and `page_exit`.  Where the code would stop the
kernel, `halt` records why and nothing happens any more.  A page is a first stack
page, a stack page added by growth, a page of code, of data, or of a mapped file.

Abstractions: the page table exists per page, so TLB and two-level lookup are not
seen; a write to a file always succeeds (a mapped file whose writes are denied is left
out); `timer_msleep` between two attempts is a point where others may run.

### FileSystem, InodeIO, FileStore, MCFileSystem

`disk` is the device, sector by sector; `free_map` and `map_file` are the bitmap in
memory and the copy in its file; `root` the entries of the root directory; `inodes` the
in-memory inodes with `open_cnt`, `deny_write_cnt` and `removed`; `proc` has the
descriptors, the mapping and the executable of each process.  An operation under
`fs_lock` is one step for each time it writes to the disk, because the machine may be
halted between two writes: `filesys_create` allocates the inode's sector, allocates the
data, writes the inode, clears the data, adds the entry, and may fail at each;
`Restart` is a halt or a panic and a boot that keeps what is on the disk.  A size that is
negative as an `off_t` fails an assertion of `inode_create` (`CreatePanics`).  `InodeIO` has the loops
of `inode_read_at` and `inode_write_at` over sectors, with a bounce buffer whose
allocation may fail.  The close of an executable and the write-back of a mapping enter
the file system without `fs_lock`; when that puts two threads into it at once, the model
stops (`Overlap`), because what follows is a data race.

`FileStore` is the promise: names stand for fixed arrays of bytes, open files survive
the removal of their names, executables cannot be written, a restart keeps the named
files.  `ImplementsStore` is the refinement: a file is the sector of its inode, its
content the bytes on the disk in the inode's extent.

### Terminal, Keyboard, Vga, Disk, MCDevices

In `Terminal` code that runs with interrupts off is one step, up to where it blocks or
turns them on.  `serial` holds the driver's mode, its queue and the port's registers;
`buffer` is the queue of keys; `pc` says where each printing thread is.  A panic may come
from any running thread.  `Keyboard` translates scan codes, `Vga` is the frame buffer
with its scrolling.  The histories `queued` and `typed` say what should come out, and what
should be in the queue of keys.  Nobody takes keys out of it: `input_getc` is called only by
`sys_read` of handle 0, and `lookup_fd` has killed the process before that.

In `Disk` a request goes through the partition and the block layer to one channel with
two disks: lock, select, command, wait for the interrupt, transfer, unlock.  The disk
answers at any time, may fail a command or a store, may be too slow for either of the
waits of the driver (`SelectTimesOut`, `TransferFails`), and interrupts may come that nobody
asked for.  `faults` bounds these, and its set `wrong` remembers which of those have happened
that the driver does not notice.

`MCDevices` explores `Terminal`, `Disk` and `AlarmClock` one at a time (`part`): they share no state.

### Lists, HashTable, Memory, Bitmap

These are state machines whose steps are calls.  `Lists` has the nodes with their
`next` and `prev` pointers; two lists share a set of elements, and `content` is the
sequence each should be.  `list_sort` is the merge of runs, `list_unique` moves the
repeated elements.  `HashTable` has buckets as lists; `rehash` fails whenever `malloc` may,
and moves one element at a time between the lists it iterates over (`MoveStep`);
`members` is the set it should be.  `Memory` has the two pools over a
bitmap of words (`Bitmap`), descriptors, arenas and free lists; `blocks` are the blocks
in the callers' hands.  A call of `Memory` is one step, since `malloc` and `free` hold
the descriptor's lock from the first access of its list to the last.

### Strings, Stdlib, Stdio, Ustar, Startup, Loader

Routines that compute a result from their arguments are operators with the arguments
of the C functions; pointers are addresses in a memory `m`.  Each module ends with what
its routines should compute, stated without their algorithm: tokens are the maximal
runs of other characters, a quotient is the quotient, printed digits read back as the
number, a header parses to what it was made from and any changed byte is noticed, a
segment's pages hold the file's bytes.  Widths (`W`, `Bits`, `AddrBits`, `SectorBits`,
`UlongBits`) are constants, so that overflow happens within TLC's integers: `udiv64` is
checked for all 8-bit dividends and divisors with words of 4 bits.

### Lcs

The main thread reads the file, creates the threads and joins them; each thread works
out its range of lines and compares one pair per step.  A line keeps its newline and is
cut at `LINE_LENGTH`, as `fgets` does.  Creating or joining a thread may fail, which ends
the program.

### MCLibrary

Explores `Lists`, `HashTable`, `Memory` and `Lcs` one at a time, each while the others
are switched off, and makes one call of each of the routines above for each of a set
of arguments.

## Runs

| Run | States | Question |
|---|---|---|
| `threads` | 141,247 | list discipline, mutual exclusion, lost wake-ups and signals, refinement of `Monitor`, starvation |
| `calibrate` | violation | the calibrated count fits a tick |
| `process` | 21,920 | reference count, use after free, leaks, exit codes, `exec_info` on the stack, return of exec and wait |
| `paging` | 1,026,716 | a present page is current; the tables and swap agree; assertions; mapped files |
| `paging_dirty` | violation | a dirty page is saved |
| `paging_full` | violation | a present page is current, when swap is full |
| `filesystem` | 176,628 | owners of sectors, counts of users, refinement of `FileStore`, through failures and restarts |
| `filesystem_race` | violation | one thread at a time is in the file system |
| `filesystem_lowmem` | violation | no name is in the directory twice |
| `devices` | 72,620 | order of bytes and keys, interrupts enabled when needed, lost wake-ups, reads and writes of sectors, progress; sleeps that are early, lost, or overdue |
| `library` | 24,564 | lists, hash tables, allocators, line comparison; results of library routines, boot and load |
| `lines` | violation | the line comparison stays inside its arrays |

The type invariants of `AlarmClock`, `Process` and `Paging` are the first conjuncts of
`OneAlarm`, `RefCount` and `TablesAgree`.

Bounds and why they suffice.

* `threads`: main, idle and two more threads, one object of each kind.  Two threads
  besides main are enough for one to barge in between the wake-up of another and its
  second look at the semaphore, and for a waiter, a signaller and a bystander at a
  condition variable.  `TIME_SLICE` is 2 instead of 4; `MaxValue` bounds ups.
* `process`: main and two processes give a parent that dies before, during and after
  its child, a chain of three, and contention for `fs_lock`.  No process has two
  living children there; with a fourth thread added the invariants were checked once
  (5,747,722 states), which is too slow to repeat routinely.
* `paging`: two processes, three pages, two frames, and every kind of page for the
  third.  `MaxFaults` bounds faults and system calls to three in all, which is enough
  for a page to be evicted and to come back while another process evicts.  Swap has a
  slot for each page, except in `paging_full`, where it has one.
* `filesystem`: two processes, two names, a descriptor each, eight sectors, of which
  four are the free map's and the directory's.  That is room for two files of one sector:
  enough for a removed file to live on through a descriptor, a mapping or an executable
  while its name is created anew, and for the disk to be full.  `MaxFiles` bounds open
  files.  Processes and names are interchangeable (`MCSymmetry`).  A sector has one byte
  (`SectorSize`), so that the loops of `InodeIO` never copy a part of a sector here.
* `devices`: queues of two bytes, two printing threads with two and three characters,
  and up to three keys (`MCBudgets`: output alone with a stray interrupt and a
  panic, a little of each, input alone); a screen of two by two, so that it scrolls.  Two
  clients on two disks, one of which has a partition that may not be written, make
  `MaxRequests` = 3 requests, with a stray interrupt and a wait that times out, or with a
  failure.  Three sleepers of -1 to 3 ticks give every order of list entries, ties, and
  times that have passed before the thread is on the list.
* `library`: four list elements with two equal keys each; six hash elements, two of
  them with the same key, with tables of one, two or four buckets; a kernel of six pages of
  16 bytes, three blocks at a time, sizes that need one descriptor, another, and whole
  pages; files of up to three lines, some read in two pieces, for two threads with two
  lines each.  The arguments of
  the routines are all short strings over two or three characters, all divisors
  of a double word of 8 bits, and the values around each boundary for the rest (`MCLibrary`).
  `MaxNesting` stands for the size of the kernel stack.

Deadlock is not checked where the machine really stops: `paging`, `filesystem`,
`devices` and `library` end in a halt, an overlap, or the last call.

### Fairness

`threads` assumes that the timer keeps ticking, that a thread that resumes inside
`sema_down` finishes that step, and that the boot starts the idle thread.  `process`
assumes that each thread inside the kernel takes its next step when it can, which
round robin gives (`ReadyThreadRuns`).  Nothing is assumed of user programs, and no
strong fairness of locks: the liveness properties do not wait for `fs_lock`.
`devices` assumes the same of threads, that a disk answers, that the port sends what it
holds, that the interrupts of both are taken, and that the timer ticks; keys, stray interrupts, failures,
panics and the shutdown may or may not come.  There too fairness is weak: a client gets
the lock of the channel because `MaxRequests` bounds how often the others take it.

### Disagreements with the repository's own words

* `calibrate`: `devices/timer.c:68` tests each lower bit against the leading bit alone.
  The result can be almost twice what a tick allows; the comment speaks of the number
  of loops per tick.
* `paging_dirty`: `page_out` sends a page without a file to swap, after which the page
  is no longer private; if it is also dirty, the next test writes it to a null file.
* `paging_full`: a failed `swap_out` is forgotten when the page is clean since it came
  in, and its contents are lost.  The manual asks for a panic.
* `filesystem_race`: `process_exit` closes the executable, and `unmap` writes back, without
  `fs_lock`; the manual demands external synchronization.
* `filesystem_lowmem`: when a bounce buffer cannot be allocated, `lookup` takes the short
  read for the end of the directory and a name is added twice.
* `lines`: without a line in the file the end of the lines wraps around, and a thread and
  the printing loop run past the arrays.  `LinesCompared` shows that it takes an empty file.

The models reach other stops of the kernel which no passing property excludes.  In
`Paging`: `page_lock` on a page that has a frame but no entry (`halt = "fault"`; also
`unmap` of a page that is dirty but evicted), and `page_lock` that leaves a frame locked
when there is no page table for it (`halt = "relock"`).  In `FileSystem`: `sys_munmap` hands
`unmap` a number where it takes a pointer, which is a fault in the kernel (`SysMunmap`), and
the assertion of `inode_create` fails (`CreatePanics`).

Smaller differences between a comment and its code.  The models follow the code, and the
properties leave these cases out, so no run decides them:
`parse_options` seeds the generator with the time although `-rs` was given
(`threads/init.c:273`); an extended partition table is read from sector 0 again
(`devices/partition.c:91`), without end if it lies on the disk; `umod64` and `smod64` return
the low 32 bits of a remainder (`lib/arithmetic.c:132`); `memmove` returns the end of the
destination when that lies below the source (`lib/string.c:22`); `strlcat` writes no terminator when
the destination is longer than `size` already; `bitmap_scan_and_flip` with a count of zero
returns `start`, not 0; the bits of a bitmap's last element beyond its size keep what the
buffer held; `calloc` refuses only products that wrap around to less than a factor, and
a size near the top of the address space wraps around in `malloc` (`CallocArgs` has products
that fit or are refused, `RequestSize` small sizes; the kernel's own calls are
`calloc(1, sizeof ...)`);
`fsutil_append` writes the second sector of the end marker over the first.

## Proofs

The theorems hold for every value of the constants that satisfies the named assumptions
(`ThreadsAssumption`, `AlarmAssumption`, `ProcessAssumption`, `PagingAssumption`,
`DiskAssumption`), which say that names are distinct and that the constants have the
types the C declarations give them.  TLC evaluates them on each run.  None of the properties is inductive
alone; for each component there is one inductive invariant, which TLC checked on the
instance of the run before it was proved, and one lemma per action that the action keeps it.

| Modules | Invariant | Theorems |
|---|---|---|
| `SchedulerProofs`, `ThreadsProofs` | `IInv` | `TypeOK`, `ElemExclusive`, `NoThreadForgotten`, `MutualExclusion` |
| `MonitorProofs` | `SignalInv` | `NoLostSignal`, `ImplementsMonitor` |
| `LoadingProofs`, `ProcessProofs` | `ProcessInv` | `RefCount`, `NoUseAfterFree`, `NoLeak`, `WaitGetsExitCode`, `ExecInfoAlive` |
| `TablesProofs`, `PagingProofs` | `TablesInv`, `ContentsInv` | `TablesAgree`, `AssertsHold`; if swap suffices `PresentIsCurrent`, `SwapExact`, `MappingSaved` |
| `DeviceProofs` | `AlarmInv`, `Trusted => DiskInv` | `NeverEarly`, `OneAlarm`, `NoneOverdue`; `ReadsLastWrite`, `WriteIsStored` |

### Scheduler and primitives

For any sets of threads, semaphores, locks and condition variables and any length of the
time slice.  Mutual exclusion needs to know where in a primitive a thread can be while
`holder` names it; the lists need the semaphore that each blocked thread downs; and
`schedule` needs somebody to run, which before `idle_thread` is set is true only because
very few states are possible.  So `IInv` adds `FrameInv` (what the locals hold at each
program point), `HolderInv` (the ways of owning a lock exclude each other) and `BootInv`
(the states of the boot).  `SchedulerProofs` has the initial state, the lemmas on lists
(`PushBack`, `PopFront`), what a step that touches nothing preserves (`SameFrame`,
`SameOwners`, `QuietStep`) and the operations of `thread.c`.  `ThreadsProofs` has `sema_up`
and `sema_down` from every place that calls them, then locks and condition variables,
which mostly take steps that move no thread (`LocalStep`), and puts one lemma for each
action together in `NextInvariant`.

`MonitorProofs` builds on `IInv`.  `SignalInv` says that a thread in `cond_wait` is on one
list or has its own semaphore raised, never both, and that a thread which has not given
up the lock yet is the last on its list.  That last part is what the refinement needs:
in `Monitor` waiting and giving up the lock are one step, so the abstract list is the list
without its last entry as long as that thread still owns the lock (`WaitingOn`).  The owner
of an abstract lock is the thread between its `sema_down` and its `sema_up`.
`NextSimulated` shows that each action of `Threads` is a step of `Monitor` or a stutter.

### Processes

For any number of processes.  The count in a `wait_status` is compared with the set of
threads that refer to it (`Holders`), which must be known to be finite; `Counted` adds that
at most one thread is about to free it and only when nobody refers to it.  For that
`ProcessInv` says whose child a thread may be working on (`TargetOf`, `ChildrenOf`), in
which order parent and child go through the start (`LoadProtocol`) and that a dead child
has stored its code.  `LoadingProofs` has the invariant and the steps that start a process;
`ProcessProofs` the steps that make, release and free a `wait_status`.

### Paging

For any number of processes, pages, frames, slots and faults.  `TablesInv` ties the frame
table, the page tables, the slots and the locals of each thread together: a frame and
its page name each other, except while the thread that has the frame locked is about
to give it to a page or has just taken it from one (`InTransit`); `page_out` has locked the
frame of the page it takes out (`EvictOK`); a page is never in a frame and in a slot.  It
is stated per program point (`FlockOK`, `ScanOK`, ..., `DropOK`), because between any two of
them others may evict.  A step of one thread keeps what all others know as long as it
touches only frames that it has locked or that are unlocked (`WorkStep`, `SparedStays`).

`ContentsInv` says that the contents of a page are what its process last stored, wherever
they are: in the frame, in the slot, in the file or, for a page that never was anywhere,
zeros.  Its other parts say when a copy in the file is good enough to drop the frame.
It is kept only if `swap_out` never fails.  `SwapSuffices`, the hypothesis of the three
theorems about contents, says that there are at least as many slots as pages; as a
page in a frame has no slot, there is a free one when it is needed (`RoomLeft`).
The hypothesis cannot be dropped: without it `paging_full` finds the lost page.

### Alarm clock and disk

For any set of threads and any sleep times: `AlarmInv` has `wait_list` ordered and free of
duplicates, and a sleeping thread either on it or upped, exactly once.  Order is what
makes it enough for `timer_interrupt` to look at the front (`Split`, `Tick`).

For any number of clients, disks, partitions, requests and faults of any kind: `DiskInv`
follows the channel's lock, the command the disk works on and the data it has not stored
yet (`Effective`); as a stray interrupt may let `ide_write` return while the disk is still
storing, only the next command, which waits for the disk, makes reads right.  That wait
may time out, and a disk may fail to store what the driver takes for written; from then on
nothing is claimed.  As `faults.wrong` only grows (`FaultsGrow`), the invariant that is
inductive is `Trusted => DiskInv`, where `Trusted` says that at most stray interrupts have
happened; each step is proved from `Trusted'` (`DiskStep`, `TrustedInv`).  Without stray
interrupts `completion_wait` is raised once per command (`Completions`).

### Only model-checked

* All liveness: outside the reach of the prover.
* `NoLostWakeup` of `Threads`: it bounds the value of a semaphore by the number of threads
  that were woken and have not run since, a count that every step of the scheduler may change.
* The refinement of `FileStore` and everything else about `FileSystem`: bytes of files are
  folded over extents, which needs induction over data.
* `Terminal`, `Memory`, `Lists`, `HashTable`, `Lcs`.
* The routines of `Strings`, `Stdlib`, `Stdio`, `Ustar`, `Startup` and `Loader` are recursive over
  their data, which the prover cannot follow.

## Not modelled

* The OpenMP and MPI versions under `src/project4` compare two lines with the same
  function as `Lcs`.  In the MPI version each rank has memory of its own and prints all
  lines while it computed only its share; as the ranks share nothing after the broadcast,
  there is no interleaving to explore.  `longest_common_substring.c` is the dynamic program alone.
* `timer_msleep`, `timer_usleep` and `timer_nsleep` scale their argument; the statistics
  and messages of all modules are left out.
* `input_getc` and the waiting of readers in `intq_getc`: no process gets there.
* `all_list`: pushed with interrupts enabled, but read only by the stack traces of a
  panic.
* The hash functions of `hash.c` multiply beyond TLC's integers; elements carry a hash.
* The page directory's two levels and the TLB, the descriptor tables, `start.S` and
  `loader.S`, and the registers of the timer, the clock, the speaker and the disks beyond
  what a driver waits for: set up once, or hardware behaviour without a trace in `src`.
* `lib/user` and `examples` trap into the kernel; nothing of theirs is shared.
* What two threads do to the file system's data once they are in it together.
