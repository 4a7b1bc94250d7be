---------------------------- MODULE FileSystem -----------------------------
(***************************************************************************)
(* The file system (filesys/*.c) as processes use it through system calls  *)
(* (userprog/syscall.c), loading and exit (userprog/process.c).            *)
(*                                                                         *)
(* The file system has no locks of its own.  fs_lock serializes most of    *)
(* its callers, so an operation is one step, except that what it writes to *)
(* the disk at different times are different steps: the machine may stop   *)
(* between them.  Closing the executable and writing back a mapping (and   *)
(* the pager, see Paging) do not take fs_lock.  Once two threads are in    *)
(* the file system at the same time, its data races and the model stops    *)
(* (Overlap).                                                              *)
(*                                                                         *)
(* The inodes of the free map and of the root directory are not in         *)
(* `inodes': the first is always open, the second is opened and closed by  *)
(* each operation on a name.                                               *)
(***************************************************************************)
EXTENDS InodeIO, FiniteSets, Functions

CONSTANTS
  Proc,          \* processes
  Name,          \* valid file names
  Fd,            \* descriptors a process may have at a time
  SectorCnt,     \* sectors of the file system device
  EntryCnt,      \* entries of the root directory
  MaxSize,       \* largest file
  Size,          \* initial sizes passed to create; NULL is one that off_t makes negative
  ReadSize,      \* sizes passed to read
  SeekPos,       \* positions passed to seek
  Buffer,        \* what programs write: sequences of bytes
  MaxFiles,      \* bound: files open at a time, executables aside
  BounceFails,   \* may the allocation of a bounce buffer fail?
  NULL

ASSUME FileSystemAssumption ==
  /\ EntryCnt \in Nat /\ SectorCnt \in Nat
  /\ MaxSize \in Nat /\ MaxFiles \in Nat /\ Size \subseteq {NULL} \cup 0 .. MaxSize
  /\ NULL \notin Nat /\ NULL \notin Proc \cup Name
  /\ BounceFails \in BOOLEAN

Sector == 0 .. SectorCnt - 1
Slot == 1 .. EntryCnt

VARIABLES
  free_map,    \* the sectors marked in the bitmap in memory
  map_file,    \* the bitmap in the free map file on disk
  disk,        \* each sector: an inode_disk or bytes
  root,        \* the entries of the root directory, on disk
  inodes,      \* open_inodes: the in-memory inode of each sector, or NULL
  unclosed,    \* number of file structs that unmap left open, per inode
  proc,        \* per process: program point, executable, descriptors, mapping
  fs_lock,     \* the process that holds fs_lock, or NULL
  op,          \* locals of the filesys_create in progress
  lost         \* history: sectors marked but given up by a known path

dvars == <<free_map, map_file, disk, root>>
vars == <<dvars, inodes, unclosed, proc, fs_lock, op, lost>>

Extent(start, length) == start .. start + bytes_to_sectors(length) - 1

Zeros == [b \in 0 .. SectorSize - 1 |-> 0]

NoEntry == [in_use |-> FALSE, name |-> NULL, inode_sector |-> 0]

\* Program points: "none" has not started; "locked" holds fs_lock and is about to run
\* an operation; "create_...", "remove_close", "load" and "release" are inside one;
\* "unmap" and "bin" are inside the file system without fs_lock.
Idle == {"none", "user", "exit", "unmapped"}

Label == Idle \cup {"locked", "exit_locked", "load", "create_inode", "create_write",
                    "create_zero", "create_add", "create_undo", "remove_close", "release",
                    "unmap", "bin"}

InFileSystem(p) == proc[p].pc \notin Idle

Overlap == \E p, q \in Proc : p # q /\ InFileSystem(p) /\ InFileSystem(q)

NewProc == [pc |-> "none", bin |-> NULL, fd |-> [f \in Fd |-> NULL], map |-> NULL,
            rel |-> NULL]

\* free_map_init marks the sectors of the two inodes.
FREE_MAP_SECTOR == 0
ROOT_DIR_SECTOR == 1

Reserved == {FREE_MAP_SECTOR, ROOT_DIR_SECTOR, 2, 3}

\* After do_format, which gives the data of the free map and of the root directory one
\* sector each, and the extraction of one program of one sector.
Init ==
  /\ free_map = Reserved \cup {4, 5}
  /\ map_file = free_map
  /\ disk = [s \in Sector |-> IF s = 4 THEN [start |-> 5, length |-> 1] ELSE Zeros]
  /\ \E n \in Name :
       root = [i \in Slot |-> IF i = 1 THEN [in_use |-> TRUE, name |-> n, inode_sector |-> 4]
                                      ELSE NoEntry]
  /\ inodes = [s \in Sector |-> NULL]
  /\ unclosed = [s \in Sector |-> 0]
  /\ proc = [p \in Proc |-> NewProc]
  /\ fs_lock = NULL
  /\ op = NULL
  /\ lost = {}

At(p, l) == proc[p].pc = l /\ ~Overlap

Goto(p, l) == proc' = [proc EXCEPT ![p].pc = l]

\* What the allocation of a bounce buffer may return.
Bounce == IF BounceFails THEN BOOLEAN ELSE {TRUE}

-----------------------------------------------------------------------------
(***************************************************************************)
(* free-map.c                                                              *)
(***************************************************************************)

\* The starts of runs of cnt free sectors; bitmap_scan takes the first.
FreeRuns(cnt) == {s \in 0 .. SectorCnt - cnt : s .. s + cnt - 1 \cap free_map = {}}

\* bitmap_write, whose partial last sector needs a bounce buffer.
BitmapWrite(ok) == map_file' = IF ok THEN free_map' ELSE map_file

\* free_map_allocate succeeds with the first of cnt consecutive sectors.  (When the
\* map cannot be written the marks are undone, and it fails.)
free_map_allocate(cnt, start) ==
  /\ FreeRuns(cnt) # {}
  /\ start = First(FreeRuns(cnt))
  /\ free_map' = free_map \cup (start .. start + cnt - 1)
  /\ BitmapWrite(TRUE)

free_map_release(S) ==
  /\ free_map' = free_map \ S
  /\ \E ok \in Bounce : BitmapWrite(ok)

-----------------------------------------------------------------------------
(***************************************************************************)
(* inode.c                                                                 *)
(***************************************************************************)

inode_reopen(table, s) == [table EXCEPT ![s].open_cnt = @ + 1]

\* inode_open: the table of open inodes with sector s opened once more.
inode_open(s) ==
  IF inodes[s] # NULL
    THEN inode_reopen(inodes, s)
    ELSE [inodes EXCEPT ![s] = [open_cnt |-> 1, removed |-> FALSE, deny_write_cnt |-> 0,
                                start |-> disk[s].start, length |-> disk[s].length]]

inode_remove(table, s) == [table EXCEPT ![s].removed = TRUE]

inode_deny_write(table, s) == [table EXCEPT ![s].deny_write_cnt = @ + 1]

inode_allow_write(table, s) == [table EXCEPT ![s].deny_write_cnt = @ - 1]

\* lock_release, for the callers that hold fs_lock.
Unlock(p) == fs_lock' = IF fs_lock = p THEN NULL ELSE fs_lock

\* The caller of the file system returns; ret is proc as it is then.
Return(p, ret) == proc' = ret /\ Unlock(p) /\ UNCHANGED <<free_map, map_file>>

\* A removed inode is released: its sector now, its data in the step FreeMapRelease.
Release(p, s, ino, ret) ==
  /\ free_map_release({s})
  /\ proc' = [ret EXCEPT ![p].pc = "release",
                         ![p].rel = [data |-> Extent(ino.start, ino.length),
                                     back |-> ret[p].pc]]
  /\ UNCHANGED fs_lock

\* inode_close by p of the inode of sector s in table.
inode_close(table, p, s, ret) ==
  LET ino == table[s]
      last == ino.open_cnt = 1
  IN  /\ inodes' = [table EXCEPT ![s] = IF last THEN NULL
                                          ELSE [ino EXCEPT !.open_cnt = @ - 1]]
      /\ IF last /\ ino.removed THEN Release(p, s, ino, ret) ELSE Return(p, ret)

\* Mutant: the data of a removed file is not released.
FreeMapRelease_forgets(p) ==
  /\ At(p, "release")
  /\ Return(p, [proc EXCEPT ![p].pc = proc[p].rel.back, ![p].rel = NULL])
  /\ UNCHANGED <<disk, root, inodes, unclosed, op, lost>>

FreeMapRelease(p) ==
  /\ At(p, "release")
  /\ free_map_release(proc[p].rel.data)
  /\ proc' = [proc EXCEPT ![p].pc = proc[p].rel.back, ![p].rel = NULL]
  /\ Unlock(p)
  /\ UNCHANGED <<disk, root, inodes, unclosed, op, lost>>

-----------------------------------------------------------------------------
(***************************************************************************)
(* directory.c                                                             *)
(***************************************************************************)

\* What lookup may return: the first entry of that name, or NULL; when a bounce buffer
\* cannot be had, the loop ends as at the end of the directory.
lookup(n) ==
  LET hits == {i \in Slot : root[i].in_use /\ root[i].name = n}
  IN  (IF hits = {} THEN {NULL} ELSE {First(hits)}) \cup (IF BounceFails THEN {NULL} ELSE {})

\* dir_lookup under filesys_open and load: the sectors of the inode it may open.
dir_lookup(n) == {root[i].inode_sector : i \in lookup(n) \ {NULL}}

\* The slots dir_add may write: the first free one, EntryCnt + 1 being the end of the
\* directory, or any before it at which a read fails.
FreeSlots ==
  LET free == First({i \in Slot : ~root[i].in_use} \cup {EntryCnt + 1})
  IN  IF BounceFails THEN 1 .. free ELSE {free}

\* dir_add succeeds in writing slot i; a write at the end does not grow the directory.
dir_add(n, sector, i) ==
  /\ n # NULL
  /\ NULL \in lookup(n)
  /\ i \in FreeSlots \cap Slot
  /\ root' = [root EXCEPT ![i] = [in_use |-> TRUE, name |-> n, inode_sector |-> sector]]

dir_add_fails(n) ==
  /\ \/ n = NULL
     \/ lookup(n) # {NULL}
     \/ EntryCnt + 1 \in FreeSlots
     \/ BounceFails
  /\ UNCHANGED root

-----------------------------------------------------------------------------
(***************************************************************************)
(* filesys_create, in steps: what each step wrote survives if the machine  *)
(* stops after it.                                                         *)
(***************************************************************************)

\* A system call takes fs_lock and is about to enter the file system.
Lock(p) ==
  /\ At(p, "user") /\ fs_lock = NULL
  /\ fs_lock' = p
  /\ Goto(p, "locked")
  /\ UNCHANGED <<dvars, inodes, unclosed, op, lost>>

\* The call returns having changed nothing.
NoEffect(p) ==
  /\ At(p, "locked")
  /\ Unlock(p)
  /\ Goto(p, "user")
  /\ UNCHANGED <<dvars, inodes, unclosed, op, lost>>

\* dir_open_root, or a later allocation of an inode, a dir or a file, finds no memory, or
\* the name is not there: what was opened is closed again and the call fails.
DirOpenFails(p) == NoEffect(p)

SysFilesize(p, f) == proc[p].fd[f] # NULL /\ NoEffect(p)

SysTell(p, f) == proc[p].fd[f] # NULL /\ NoEffect(p)

\* filesys_create: the sector for the inode.
filesys_create(p, n, size) ==
  /\ \E s \in Sector :
       /\ free_map_allocate(1, s)
       /\ op' = [name |-> n, size |-> size, inode_sector |-> s, start |-> 0, data |-> {}]
  /\ Goto(p, "create_inode")
  /\ UNCHANGED <<disk, root, inodes, unclosed, fs_lock, lost>>

\* n = NULL stands for an empty name or one too long.
SysCreate(p, n, size) == At(p, "locked") /\ filesys_create(p, n, size)

\* inode_create: calloc, then the sectors for the data.
CreateInode(p) ==
  /\ At(p, "create_inode") /\ op.size # NULL
  /\ LET cnt == bytes_to_sectors(op.size)
     IN  \/ \E start \in Sector :
              /\ free_map_allocate(cnt, start)
              /\ op' = [op EXCEPT !.start = start, !.data = Extent(start, op.size)]
              /\ Goto(p, "create_write")
         \/ UNCHANGED <<free_map, map_file, op>> /\ Goto(p, "create_undo")
  /\ UNCHANGED <<disk, root, inodes, unclosed, fs_lock, lost>>

CreateWrite(p) ==
  /\ At(p, "create_write")
  /\ disk' = [disk EXCEPT ![op.inode_sector] = [start |-> op.start, length |-> op.size]]
  /\ Goto(p, "create_zero")
  /\ UNCHANGED <<free_map, map_file, root, inodes, unclosed, fs_lock, op, lost>>

\* Mutant: the data keeps what an earlier file wrote there.
CreateZero_not(p) ==
  /\ At(p, "create_zero")
  /\ Goto(p, "create_add")
  /\ UNCHANGED <<dvars, inodes, unclosed, fs_lock, op, lost>>

CreateZero(p) ==
  /\ At(p, "create_zero")
  /\ disk' = [s \in Sector |-> IF s \in op.data THEN Zeros ELSE disk[s]]
  /\ Goto(p, "create_add")
  /\ UNCHANGED <<free_map, map_file, root, inodes, unclosed, fs_lock, op, lost>>

\* dir_add.  When it fails, nothing releases the data.
CreateAdd(p) ==
  /\ At(p, "create_add")
  /\ \/ /\ \E i \in Slot : dir_add(op.name, op.inode_sector, i)
        /\ op' = NULL
        /\ Unlock(p)
        /\ Goto(p, "user")
        /\ UNCHANGED lost
     \/ /\ dir_add_fails(op.name)
        /\ op' = [op EXCEPT !.data = {}]
        /\ lost' = lost \cup op.data
        /\ Goto(p, "create_undo")
        /\ UNCHANGED fs_lock
  /\ UNCHANGED <<free_map, map_file, disk, inodes, unclosed>>

CreateUndo(p) ==
  /\ At(p, "create_undo")
  /\ free_map_release({op.inode_sector})
  /\ op' = NULL
  /\ Unlock(p)
  /\ Goto(p, "user")
  /\ UNCHANGED <<disk, root, inodes, unclosed, lost>>

-----------------------------------------------------------------------------
(***************************************************************************)
(* filesys_remove, filesys_open and the calls on descriptors               *)
(***************************************************************************)

\* dir_remove erases the entry (the rest of a free entry is never read), then marks the
\* inode it has opened.
dir_remove(n) ==
  \E i \in lookup(n) \ {NULL} :
    LET s == root[i].inode_sector
    IN  /\ root' = [root EXCEPT ![i] = NoEntry]
        /\ inodes' = inode_remove(inode_open(s), s)
        /\ op' = [inode_sector |-> s]

SysRemove(p, n) ==
  /\ At(p, "locked")
  /\ dir_remove(n)
  /\ Goto(p, "remove_close")
  /\ UNCHANGED <<free_map, map_file, disk, unclosed, fs_lock, lost>>

RemoveClose(p) ==
  /\ At(p, "remove_close")
  /\ inode_close(inodes, p, op.inode_sector, [proc EXCEPT ![p].pc = "user"])
  /\ op' = NULL
  /\ UNCHANGED <<disk, root, unclosed, lost>>

\* The descriptors of sector s, and all file structs except executables.
OpenFds == {x \in Proc \X Fd : proc[x[1]].fd[x[2]] # NULL}

FdsOf(s) == {x \in OpenFds : proc[x[1]].fd[x[2]].inode = s}

Mappers(s) == {p \in Proc : proc[p].map = s}

Users(s) == Cardinality(FdsOf(s)) + Cardinality(Mappers(s)) + unclosed[s]

Files == FoldFunction(LAMBDA x, y : x + y, 0, [s \in Sector |-> Users(s)])

file_open(s) == [inode |-> s, pos |-> 0]

\* file_read and file_write: what they return, and the file with its position advanced.
file_read(file, size, bounce) ==
  LET got == inode_read_at(disk, inodes[file.inode], size, file.pos, bounce)
  IN  [got |-> got, file |-> [file EXCEPT !.pos = @ + Len(got)]]

file_write(file, buf, bounce) ==
  LET w == inode_write_at(disk, inodes[file.inode], buf, file.pos, bounce)
  IN  [disk |-> w.disk, file |-> [file EXCEPT !.pos = @ + w.written]]

file_write_at(s, buf, ofs, bounce) == inode_write_at(disk, inodes[s], buf, ofs, bounce).disk

file_seek(file, pos) == [file EXCEPT !.pos = pos]

\* sys_open and filesys_open.
SysOpen(p, f, n) ==
  /\ At(p, "locked") /\ proc[p].fd[f] = NULL /\ Files < MaxFiles
  /\ \E s \in dir_lookup(n) :
       /\ inodes' = inode_open(s)
       /\ proc' = [proc EXCEPT ![p].fd[f] = file_open(s), ![p].pc = "user"]
  /\ Unlock(p)
  /\ UNCHANGED <<dvars, unclosed, op, lost>>

\* sys_read of a piece that lies in one page.
SysRead(p, f, size) ==
  /\ At(p, "locked") /\ proc[p].fd[f] # NULL
  /\ \E bounce \in Bounce :
       proc' = [proc EXCEPT ![p].fd[f] = file_read(@, size, bounce).file, ![p].pc = "user"]
  /\ Unlock(p)
  /\ UNCHANGED <<dvars, inodes, unclosed, op, lost>>

\* sys_write of a piece that lies in one page.
SysWrite(p, f, buf) ==
  /\ At(p, "locked") /\ proc[p].fd[f] # NULL
  /\ \E bounce \in Bounce :
       LET w == file_write(proc[p].fd[f], buf, bounce)
       IN  /\ disk' = w.disk
           /\ proc' = [proc EXCEPT ![p].fd[f] = w.file, ![p].pc = "user"]
  /\ Unlock(p)
  /\ UNCHANGED <<free_map, map_file, root, inodes, unclosed, op, lost>>

\* sys_seek; positions past the end are legal.
SysSeek(p, f, pos) ==
  /\ At(p, "locked") /\ proc[p].fd[f] # NULL
  /\ proc' = [proc EXCEPT ![p].fd[f] = file_seek(@, pos), ![p].pc = "user"]
  /\ Unlock(p)
  /\ UNCHANGED <<dvars, inodes, unclosed, op, lost>>

\* file_close of descriptor f by sys_close and syscall_exit.
CloseFd(p, f, back) ==
  /\ proc[p].fd[f] # NULL
  /\ inode_close(inodes, p, proc[p].fd[f].inode,
                 [proc EXCEPT ![p].fd[f] = NULL, ![p].pc = back])
  /\ UNCHANGED <<disk, root, unclosed, op, lost>>

SysClose(p, f) == At(p, "locked") /\ CloseFd(p, f, "user")

\* sys_mmap: file_reopen under fs_lock.  A page that cannot be had unmaps at once, and
\* unmap does not close the file.
SysMmap(p, f) ==
  /\ At(p, "locked") /\ proc[p].fd[f] # NULL /\ proc[p].map = NULL
  /\ LET s == proc[p].fd[f].inode
     IN  /\ Files < MaxFiles
         /\ inodes' = inode_reopen(inodes, s)
         /\ \/ /\ proc' = [proc EXCEPT ![p].map = s, ![p].pc = "user"]
               /\ UNCHANGED unclosed
            \/ /\ Goto(p, "user")
               /\ unclosed' = [unclosed EXCEPT ![s] = @ + 1]
  /\ Unlock(p)
  /\ UNCHANGED <<dvars, op, lost>>

-----------------------------------------------------------------------------
(***************************************************************************)
(* Entries without fs_lock, loading, exit, restart                         *)
(***************************************************************************)

\* process_execute: the parent holds fs_lock while the child, p, loads.
Exec(p) ==
  /\ At(p, "none") /\ fs_lock = NULL
  /\ fs_lock' = p
  /\ Goto(p, "load")
  /\ UNCHANGED <<dvars, inodes, unclosed, op, lost>>

\* load opens the executable and denies writes; it then succeeds, or the program is no
\* good and the process exits.
Load(p, n) ==
  /\ At(p, "load")
  /\ \E s \in dir_lookup(n), pc \in {"user", "exit"} :
       /\ inodes' = inode_deny_write(inode_open(s), s)
       /\ proc' = [proc EXCEPT ![p].bin = s, ![p].pc = pc]
  /\ Unlock(p)
  /\ UNCHANGED <<dvars, unclosed, op, lost>>

\* No such file, or no memory.
LoadFails(p) ==
  /\ At(p, "load")
  /\ Unlock(p)
  /\ Goto(p, "none")
  /\ UNCHANGED <<dvars, inodes, unclosed, op, lost>>

\* thread_exit: by sys_exit, a bad address, or a fault.
Exit(p) ==
  /\ At(p, "user")
  /\ Goto(p, "exit")
  /\ UNCHANGED <<dvars, inodes, unclosed, fs_lock, op, lost>>

\* A call names a descriptor, or a mapping, that the process does not have.
LookupFdFails(p) == Exit(p)

LookupMappingFails(p) == Exit(p)

\* syscall_exit: close the files, one lock_acquire each.
ExitLock(p) ==
  /\ At(p, "exit") /\ fs_lock = NULL
  /\ \E f \in Fd : proc[p].fd[f] # NULL
  /\ fs_lock' = p
  /\ Goto(p, "exit_locked")
  /\ UNCHANGED <<dvars, inodes, unclosed, op, lost>>

ExitClose(p) == At(p, "exit_locked") /\ \E f \in Fd : CloseFd(p, f, "exit")

NoFiles(p) == \A f \in Fd : proc[p].fd[f] = NULL

\* unmap of a page that has changed: file_write_at, without fs_lock.
ExitUnmap(p) ==
  /\ At(p, "exit") /\ NoFiles(p) /\ proc[p].map # NULL
  /\ Goto(p, "unmap")
  /\ UNCHANGED <<dvars, inodes, unclosed, fs_lock, op, lost>>

UnmapWrite(p) ==
  /\ At(p, "unmap")
  /\ \E buf \in Buffer, bounce \in Bounce :
       /\ Len(buf) >= inodes[proc[p].map].length
       /\ disk' = file_write_at(proc[p].map, buf, 0, bounce)
  /\ Goto(p, "unmapped")
  /\ UNCHANGED <<free_map, map_file, root, inodes, unclosed, fs_lock, op, lost>>

\* The pages go; unmap leaves the file open.
Unmapped(p) ==
  /\ At(p, "unmapped") \/ (At(p, "exit") /\ NoFiles(p) /\ proc[p].map # NULL)
  /\ proc' = [proc EXCEPT ![p].map = NULL, ![p].pc = "exit"]
  /\ unclosed' = [unclosed EXCEPT ![proc[p].map] = @ + 1]
  /\ UNCHANGED <<dvars, inodes, fs_lock, op, lost>>

\* process_exit: file_close of the executable, without fs_lock.
ExitBin(p) ==
  /\ At(p, "exit") /\ NoFiles(p) /\ proc[p].map = NULL
  /\ Goto(p, "bin")
  /\ UNCHANGED <<dvars, inodes, unclosed, fs_lock, op, lost>>

\* Mutant: writes are not allowed again.
CloseBin_denies(p) ==
  /\ At(p, "bin")
  /\ inode_close(inodes, p, proc[p].bin, [proc EXCEPT ![p] = NewProc])
  /\ UNCHANGED <<disk, root, unclosed, op, lost>>

CloseBin(p) ==
  /\ At(p, "bin")
  /\ inode_close(inode_allow_write(inodes, proc[p].bin), p, proc[p].bin,
                 [proc EXCEPT ![p] = NewProc])
  /\ UNCHANGED <<disk, root, unclosed, op, lost>>

Named == {root[i].inode_sector : i \in {j \in Slot : root[j].in_use}}

\* The sectors of the file whose inode is in sector s.
Sectors(s) == LET ino == IF inodes[s] # NULL THEN inodes[s] ELSE disk[s]
              IN  {s} \cup Extent(ino.start, ino.length)

\* filesys_init(false): no inode is open, and free_map_open reads the map.
free_map_open == free_map' = map_file

filesys_init == inodes' = [s \in Sector |-> NULL] /\ free_map_open

\* The machine stops and starts again.  What was marked on disk for files without a name
\* stays marked for ever.
Restart ==
  /\ filesys_init
  /\ unclosed' = [s \in Sector |-> 0]
  /\ proc' = [p \in Proc |-> NewProc]
  /\ fs_lock' = NULL
  /\ op' = NULL
  /\ lost' = map_file \ (Reserved \cup UNION {Sectors(s) : s \in Named})
  /\ UNCHANGED <<map_file, disk, root>>

\* sys_halt powers the machine off, whatever other processes are doing.
SysHalt(p) == At(p, "user") /\ Restart

\* The size of create is unsigned and the length of inode_create is not: its assertion
\* that the length is not negative panics, with the sector of the inode marked on disk.
CreatePanics(p) == At(p, "create_inode") /\ op.size = NULL /\ Restart

\* sys_munmap hands unmap the number of the mapping where it takes a pointer; list_remove
\* follows it, and the page fault in the kernel is a panic.
SysMunmap(p) == At(p, "user") /\ proc[p].map # NULL /\ Restart

Next ==
  \E p \in Proc :
    \/ Lock(p) \/ DirOpenFails(p)
    \/ \E n \in Name \cup {NULL}, size \in Size : SysCreate(p, n, size)
    \/ CreateInode(p) \/ CreateWrite(p) \/ CreateZero(p) \/ CreateAdd(p) \/ CreateUndo(p)
    \/ \E n \in Name : SysRemove(p, n) \/ Load(p, n)
    \/ RemoveClose(p) \/ FreeMapRelease(p)
    \/ \E f \in Fd :
         \/ \E n \in Name : SysOpen(p, f, n)
         \/ \E size \in ReadSize : SysRead(p, f, size)
         \/ \E buf \in Buffer : SysWrite(p, f, buf)
         \/ \E pos \in SeekPos : SysSeek(p, f, pos)
         \/ SysClose(p, f) \/ SysMmap(p, f) \/ SysFilesize(p, f) \/ SysTell(p, f)
    \/ Exec(p) \/ LoadFails(p)
    \/ Exit(p) \/ LookupFdFails(p) \/ LookupMappingFails(p) \/ ExitLock(p) \/ ExitClose(p)
    \/ ExitUnmap(p) \/ UnmapWrite(p) \/ Unmapped(p) \/ ExitBin(p) \/ CloseBin(p)
    \/ SysHalt(p) \/ CreatePanics(p) \/ SysMunmap(p)

Spec == Init /\ [][Next]_vars

-----------------------------------------------------------------------------
(***************************************************************************)
(* Properties                                                              *)
(***************************************************************************)

\* Who a sector belongs to: the file system itself, a file that has a name or is open,
\* the operation that is allocating or releasing it, or nobody since a path lost it.
Owners(s) ==
  {<<"file", i>> : i \in {j \in Sector : (j \in Named \/ inodes[j] # NULL) /\ s \in Sectors(j)}}
  \cup (IF s \in Reserved THEN {"reserved"} ELSE {})
  \cup (IF s \in lost THEN {"lost"} ELSE {})
  \cup (IF fs_lock # NULL /\ proc[fs_lock].pc \in
             {"create_inode", "create_write", "create_zero", "create_add", "create_undo"}
             /\ s \in {op.inode_sector} \cup op.data
          THEN {"create"} ELSE {})
  \cup {<<"release", p>> : p \in {q \in Proc : proc[q].rel # NULL /\ s \in proc[q].rel.data}}

\* Every marked sector has exactly one owner and every unmarked sector none, through
\* creation, removal while open, failure half-way and restart at any step: no two files
\* share a sector, nothing in use is free (the ASSERT of free_map_release), and sectors
\* are lost only by a failed dir_add and by a restart during a create or a removal or
\* while nameless files are open.
SectorsOwned ==
  \A s \in Sector : Cardinality(Owners(s)) = IF s \in free_map THEN 1 ELSE 0

\* An inode counts its users: open descriptors, running programs, mappings (those that
\* unmap forgot included) and the remove in progress; and it denies writes once for each
\* running program (the ASSERTs of inode_deny_write and inode_allow_write).
UsersCounted ==
  \A s \in Sector :
    LET bins == {p \in Proc : proc[p].bin = s}
        removing == {p \in Proc : proc[p].pc = "remove_close" /\ op.inode_sector = s}
        n == Users(s) + Cardinality(bins) + Cardinality(removing)
    IN  IF inodes[s] = NULL THEN n = 0
        ELSE inodes[s].open_cnt = n /\ inodes[s].deny_write_cnt = Cardinality(bins)

\* The promise of FileStore: through all of this, users see named byte arrays.
Store == INSTANCE FileStore WITH
  Id <- Sector,
  names <- [n \in Name |-> LET hits == {i \in Slot : root[i].in_use /\ root[i].name = n}
                           IN  IF hits = {} THEN NULL ELSE root[First(hits)].inode_sector],
  content <- LET live == Named \cup {proc[p].bin : p \in Proc} \cup {proc[p].map : p \in Proc}
                           \cup {proc[x[1]].fd[x[2]].inode : x \in OpenFds}
                 Content(ino) == [b \in 0 .. ino.length - 1 |->
                                    disk[ino.start + b \div SectorSize][b % SectorSize]]
             IN  [s \in Sector |-> IF s \notin live THEN NULL
                                 ELSE Content(IF inodes[s] # NULL THEN inodes[s] ELSE disk[s])],
  handle <- [p \in Proc |-> [f \in Fd |->
               IF proc[p].fd[f] = NULL THEN NULL
               ELSE [file |-> proc[p].fd[f].inode, pos |-> proc[p].fd[f].pos]]],
  exe <- [p \in Proc |-> proc[p].bin],
  maps <- [p \in Proc |-> proc[p].map]

ImplementsStore == Store!Spec

\* doc/filesys.texi: "callers must ensure that only one thread can be running in the file
\* system code at once".
OneThreadInFileSystem == ~Overlap

\* filesys/directory.c: "inode_read_at() will only return a short read at end of file", so
\* that filesys_create fails if the name exists.  No name stands in the directory twice.
NamesUnique ==
  \A i, j \in Slot : root[i].in_use /\ root[j].in_use /\ root[i].name = root[j].name => i = j
=============================================================================
