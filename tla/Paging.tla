------------------------------- MODULE Paging -------------------------------
(***************************************************************************)
(* Virtual memory: the frame table and its clock (vm/frame.c), the         *)
(* supplemental page table (vm/page.c), swap (vm/swap.c), the page table   *)
(* bits (userprog/pagedir.c) and their users: the fault handler, the       *)
(* system calls that lock user pages, loading, unmapping and exit.         *)
(*                                                                         *)
(* The contents of a page are a pair of the page and a version of it: 0 in *)
(* the file or all zeros, 1 the command line the kernel puts on the stack, *)
(* 2 what the process stores.                                              *)
(***************************************************************************)
EXTENDS Integers, Sequences, FiniteSets

CONSTANTS
  Proc,
  Pages,      \* the pages of each process, a sequence, its first stack page first
  Layout,     \* what the pages may be: functions from pages to Kinds
  FrameCnt,   \* frame_cnt
  Slot,       \* the pages of the swap device
  MaxFaults,  \* bound: faults and system calls in all
  NULL

Kinds == {"stack", "grown", "text", "data", "mmap"}

ListOf(t) == {Pages[t][k] : k \in 1 .. Len(Pages[t])}

Page == UNION {ListOf(t) : t \in Proc}

Owner(p) == CHOOSE t \in Proc : p \in ListOf(t)

Frame == 0 .. FrameCnt - 1
Version == 0 .. 2
Data == Page \X Version

ASSUME PagingAssumption ==
  /\ FrameCnt \in Nat \ {0} /\ MaxFaults \in Nat
  /\ Layout \subseteq [Page -> Kinds]
  /\ Pages \in [Proc -> Seq(Page) \ {<<>>}]
  /\ \A t \in Proc, k \in Layout : k[Pages[t][1]] = "stack"
  /\ \A t, u \in Proc : t # u => ListOf(t) \cap ListOf(u) = {}
  /\ NULL \notin Page /\ NULL \notin Proc /\ NULL \notin Slot
  /\ NULL \notin Frame /\ NULL \notin Data

VARIABLES
  kind,       \* what each page is, fixed when it is allocated
  page,       \* struct page of each page, and whether it is in the page table
  pte,        \* P, A and D bits of its page table entry; the frame it maps
  frame,      \* struct frame: the page it holds and the holder of its lock
  mem,        \* contents of each frame
  swap,       \* swap_bitmap and swap device: contents of each slot in use, or NULL
  disk,       \* version of each file page in the file system
  scan_lock,  \* its holder, or NULL
  hand,       \* the clock
  th,         \* program point and locals of each process
  faults,     \* faults and system calls so far
  halt,       \* why the kernel stopped, or "no"
  latest      \* history: the version each process last stored or was given

vars == <<kind, page, pte, frame, mem, swap, disk, scan_lock, hand, th, faults, halt,
          latest>>

Label == {"none", "user", "flock", "scan", "free", "clock", "clear", "save", "given",
          "set", "kernel", "unmap", "store", "dealloc", "destroy", "drop", "exited"}
Op == {"setup", "fault", "read", "write", "dealloc", "destroy", NULL}

\* The reasons: a failed assertion, a lock acquired twice, a write to a null file, or
\* an access to an address that is not present.
Halts == {"no", "assert", "relock", "nofile", "fault"}

PageRecord == [frame : Frame \cup {NULL}, sector : Slot \cup {NULL},
               private : BOOLEAN, file : BOOLEAN, alive : BOOLEAN]
PteRecord == [P : BOOLEAN, A : BOOLEAN, D : BOOLEAN, frame : Frame \cup {NULL}]
FrameRecord == [page : Page \cup {NULL}, lock : Proc \cup {NULL}]
Locals == [pc : Label, op : Op, pg : Page \cup {NULL}, f : Frame \cup {NULL}, i : Nat,
           try : 0 .. 3]

TypeOK ==
  /\ kind \in Layout
  /\ page \in [Page -> PageRecord]
  /\ pte \in [Page -> PteRecord]
  /\ frame \in [Frame -> FrameRecord]
  /\ mem \in [Frame -> Data \cup {NULL}]
  /\ swap \in [Slot -> Data \cup {NULL}]
  /\ disk \in [Page -> Version] /\ latest \in [Page -> Version]
  /\ scan_lock \in Proc \cup {NULL}
  /\ hand \in Frame
  /\ th \in [Proc -> Locals]
  /\ faults \in 0 .. MaxFaults
  /\ halt \in Halts

\* page_allocate, with what load_segment and sys_mmap change after it.  A stack page
\* beyond the first does not exist before it is touched.
Fresh(p) ==
  [frame |-> NULL, sector |-> NULL, alive |-> kind[p] # "grown",
   private |-> kind[p] \in {"data", "stack", "grown"},
   file |-> kind[p] \in {"data", "text", "mmap"}]

NoPte == [P |-> FALSE, A |-> FALSE, D |-> FALSE, frame |-> NULL]
Idle == [pc |-> "user", op |-> NULL, pg |-> NULL, f |-> NULL, i |-> 0, try |-> 0]

Init ==
  /\ kind \in Layout
  /\ page = [p \in Page |-> Fresh(p)]
  /\ pte = [p \in Page |-> NoPte]
  /\ frame = [f \in Frame |-> [page |-> NULL, lock |-> NULL]]
  /\ mem = [f \in Frame |-> NULL]
  /\ swap = [s \in Slot |-> NULL]
  /\ disk = [p \in Page |-> 0] /\ latest = [p \in Page |-> 0]
  /\ scan_lock = NULL /\ hand = 0
  /\ th = [t \in Proc |-> [Idle EXCEPT !.pc = "none"]]
  /\ faults = 0
  /\ halt = "no"

At(t, l) == halt = "no" /\ th[t].pc = l
Goto(t, l) == th' = [th EXCEPT ![t].pc = l]

\* The page table entry of p.
pagedir_set_page(p, f) ==
  pte' = [pte EXCEPT ![p] = [P |-> TRUE, A |-> FALSE, D |-> FALSE, frame |-> f]]

\* Clearing P leaves A and D in the entry.
pagedir_clear_page(p) == pte' = [pte EXCEPT ![p].P = FALSE]

pagedir_is_dirty(p) == pte[p].D

pagedir_set_accessed(p, accessed) == pte' = [pte EXCEPT ![p].A = accessed]

storage == <<mem, swap, disk, latest>>
clock == <<scan_lock, hand, faults, kind>>

-----------------------------------------------------------------------------
(***************************************************************************)
(* What a process does                                                     *)
(***************************************************************************)

\* setup_stack wants a frame for the first stack page.
SetupStack(t) ==
  LET p == Pages[t][1]
  IN  /\ At(t, "none")
      /\ th' = [th EXCEPT ![t].pc = "scan", ![t].op = "setup", ![t].pg = p]
      /\ UNCHANGED <<page, pte, frame, storage, clock, halt>>

\* An access to p by the owner, in user mode or by the kernel, while p is present.
Touch(p, write) ==
  /\ pte' = [pte EXCEPT ![p].A = TRUE, ![p].D = @ \/ write]
  /\ IF write
     THEN mem' = [mem EXCEPT ![pte[p].frame] = <<p, 2>>] /\ latest' = [latest EXCEPT ![p] = 2]
     ELSE UNCHANGED <<mem, latest>>
  /\ UNCHANGED <<swap, disk>>

UserAccess(t, p, write) ==
  /\ At(t, "user") /\ p \in ListOf(t)
  /\ pte[p].P
  /\ write => kind[p] # "text"
  /\ Touch(p, write)
  /\ UNCHANGED <<page, frame, clock, th, halt>>

\* frame_lock reads p->frame before it waits for the lock of that frame.
FrameLock(t, p, op) ==
  th' = [th EXCEPT ![t].op = op, ![t].pg = p, ![t].f = page[p].frame,
                   ![t].pc = IF page[p].frame # NULL THEN "flock"
                             ELSE IF op \in {"dealloc", "destroy"} THEN "drop" ELSE "scan"]

\* There is such a page, or it is one the stack may grow by, which is then allocated.
page_for_addr(p) ==
  /\ page[p].alive \/ kind[p] = "grown"
  /\ page' = [page EXCEPT ![p].alive = TRUE]

\* page_fault and page_in, or page_lock in a system call.
PageIn(t, p, op) ==
  /\ At(t, "user") /\ p \in ListOf(t)
  /\ op = "fault" => ~pte[p].P
  /\ op = "write" => kind[p] # "text"
  /\ page_for_addr(p)
  /\ faults < MaxFaults
  /\ faults' = faults + 1
  /\ FrameLock(t, p, op)
  /\ UNCHANGED <<pte, frame, storage, scan_lock, hand, kind, halt>>

-----------------------------------------------------------------------------
(***************************************************************************)
(* frame_lock and frame_alloc_and_lock                                     *)
(***************************************************************************)

\* Where page_in, page_lock, page_deallocate and destroy_page go on once they have
\* the lock of p's frame.
After(op, p) == IF op = "fault" THEN "set"
                ELSE IF op = "dealloc" /\ page[p].file /\ ~page[p].private THEN "clear"
                ELSE IF op \in {"dealloc", "destroy"} THEN "drop" ELSE "kernel"

\* Mutant: frame_lock does not look at p->frame again.
FrameLocked_unchecked(t) ==
  LET f == th[t].f
  IN  /\ At(t, "flock")
      /\ frame[f].lock = NULL
      /\ frame' = [frame EXCEPT ![f].lock = t]
      /\ Goto(t, After(th[t].op, th[t].pg))
      /\ UNCHANGED <<page, pte, storage, clock, halt>>

\* A frame can be taken away while frame_lock waits, but never given.
FrameLocked(t) ==
  LET f == th[t].f   p == th[t].pg   op == th[t].op
  IN  /\ At(t, "flock")
      /\ \/ /\ frame[f].lock = NULL /\ page[p].frame = f
            /\ frame' = [frame EXCEPT ![f].lock = t]
            /\ Goto(t, After(op, p))
            /\ UNCHANGED halt
         \/ /\ frame[f].lock = NULL /\ page[p].frame # f
            /\ th' = [th EXCEPT ![t].pc = IF op \in {"dealloc", "destroy"} THEN "drop" ELSE "scan",
                                ![t].f = NULL]
            /\ halt' = IF page[p].frame = NULL THEN halt ELSE "assert"
            /\ UNCHANGED frame
         \/ /\ frame[f].lock = t
            /\ halt' = "relock"
            /\ UNCHANGED <<frame, th>>
      /\ UNCHANGED <<page, pte, storage, clock>>

Scan(t) ==
  /\ At(t, "scan")
  /\ scan_lock = NULL
  /\ scan_lock' = t
  /\ th' = [th EXCEPT ![t].pc = "free", ![t].i = 0]
  /\ UNCHANGED <<page, pte, frame, storage, hand, faults, kind, halt>>

\* One frame of the first loop of try_frame_alloc_and_lock; i counts them.
FindFree(t) ==
  LET f == th[t].i
  IN  /\ At(t, "free")
      /\ IF frame[f].lock = NULL /\ frame[f].page = NULL
         THEN /\ frame' = [frame EXCEPT ![f] = [page |-> th[t].pg, lock |-> t]]
              /\ scan_lock' = NULL
              /\ th' = [th EXCEPT ![t].pc = "given", ![t].f = f, ![t].i = 0]
         ELSE /\ th' = [th EXCEPT ![t].pc = IF f + 1 < FrameCnt THEN "free" ELSE "clock",
                                  ![t].i = IF f + 1 < FrameCnt THEN f + 1 ELSE 0]
              /\ UNCHANGED <<frame, scan_lock>>
      /\ UNCHANGED <<page, pte, storage, hand, faults, kind, halt>>

\* frame_alloc_and_lock sleeps a second and tries again, three times in all; then
\* the process exits.
Retry(t) ==
  th' = [th EXCEPT ![t] = [Idle EXCEPT
           !.pc = IF th[t].try < 2 THEN "scan" ELSE "unmap",
           !.op = IF th[t].try < 2 THEN th[t].op ELSE NULL,
           !.pg = IF th[t].try < 2 THEN th[t].pg ELSE NULL,
           !.try = IF th[t].try < 2 THEN th[t].try + 1 ELSE 0]]

NextHand == IF hand + 1 >= FrameCnt THEN 0 ELSE hand + 1

page_accessed_recently(p) == pte[p].A

\* One frame of the second loop, the clock: skip it, take it, give it a second
\* chance, or evict its page.  page_accessed_recently asserts that the page has a frame
\* and that the caller holds its lock: the one lock it holds is that of f.
Clock(t) ==
  LET f == hand   victim == frame[hand].page   last == th[t].i + 1 >= 2 * FrameCnt
      Continue == /\ IF last THEN Retry(t) /\ scan_lock' = NULL
                     ELSE th' = [th EXCEPT ![t].i = @ + 1] /\ UNCHANGED scan_lock
                  /\ UNCHANGED frame
  IN  /\ At(t, "clock")
      /\ hand' = NextHand
      /\ \/ /\ frame[f].lock # NULL
            /\ Continue
            /\ UNCHANGED <<pte, halt>>
         \/ /\ frame[f].lock = NULL /\ victim = NULL
            /\ frame' = [frame EXCEPT ![f] = [page |-> th[t].pg, lock |-> t]]
            /\ scan_lock' = NULL
            /\ th' = [th EXCEPT ![t].pc = "given", ![t].f = f, ![t].i = 0]
            /\ UNCHANGED <<pte, halt>>
         \/ /\ frame[f].lock = NULL /\ victim # NULL
            /\ halt' = IF page[victim].frame = f THEN halt ELSE "assert"
            /\ IF page_accessed_recently(victim)
               THEN pagedir_set_accessed(victim, FALSE) /\ Continue
               ELSE /\ frame' = [frame EXCEPT ![f].lock = t]
                    /\ scan_lock' = NULL
                    /\ th' = [th EXCEPT ![t].pc = "clear", ![t].f = f, ![t].i = 0]
                    /\ UNCHANGED pte
      /\ UNCHANGED <<page, storage, faults, kind>>

-----------------------------------------------------------------------------
(***************************************************************************)
(* page_out                                                                *)
(***************************************************************************)

Room == {s \in Slot : swap[s] = NULL}

\* Mutant: the scan does not look at the bits.
FirstFree_any(s) == \A r \in Slot : s <= r

FirstFree(s) == s \in Room /\ \A r \in Room : s <= r

\* The page of frame f goes to swap.
swap_out(p, f) ==
  \E s \in Slot :
    /\ FirstFree(s)
    /\ swap' = [swap EXCEPT ![s] = mem[f]]
    /\ page' = [page EXCEPT ![p].sector = s, ![p].private = FALSE, ![p].file = FALSE,
                            ![p].frame = NULL]

\* page_out after the entry has been cleared, with dirty as read from it: a page
\* without a file is swapped out whether dirty or not; a dirty one is then saved
\* again, to swap if it is private and else to its file, which it may not have.
SavePage(t, p, f, dirty) ==
  LET private == page[p].private   file == page[p].file
      wants == ~file \/ (dirty /\ private)
      ok == ~dirty \/ (file /\ (private => Room # {}))
      dealloc == th[t].op = "dealloc"
  IN  IF dirty /\ ~file /\ (Room # {} \/ ~private)
      THEN halt' = "nofile" /\ UNCHANGED <<page, swap, disk, frame, th>>
      ELSE /\ UNCHANGED halt
           /\ IF wants /\ Room # {}
              THEN swap_out(p, f)
              ELSE /\ page' = IF ok THEN [page EXCEPT ![p].frame = NULL] ELSE page
                   /\ UNCHANGED swap
           /\ disk' = IF dirty /\ file /\ ~private THEN [disk EXCEPT ![p] = mem[f][2]] ELSE disk
           /\ IF dealloc THEN Goto(t, "drop") /\ UNCHANGED frame
              ELSE IF ok
              THEN /\ frame' = [frame EXCEPT ![f].page = th[t].pg]
                   /\ Goto(t, "given")
              ELSE frame' = [frame EXCEPT ![f].lock = NULL] /\ Retry(t)

\* What page_out asserts.
HoldsFrame(t, p) == page[p].frame # NULL /\ frame[page[p].frame].lock = t

\* Mutant: the dirty bit is read before the entry is cleared; i remembers it.
PageOut_dirty_first(t) ==
  LET f == th[t].f   p == frame[f].page
  IN  \/ /\ At(t, "clear")
         /\ th' = [th EXCEPT ![t].pc = "save", ![t].i = IF pte[p].D THEN 1 ELSE 0]
         /\ UNCHANGED <<page, pte, frame, storage, clock, halt>>
      \/ /\ At(t, "save")
         /\ pagedir_clear_page(p)
         /\ SavePage(t, p, f, th[t].i = 1)
         /\ UNCHANGED <<mem, clock, latest>>

\* Mutant: the entry is not cleared.
PageOut_not_cleared(t) ==
  LET f == th[t].f   p == frame[f].page
  IN  \/ /\ At(t, "clear")
         /\ Goto(t, "save")
         /\ UNCHANGED <<page, pte, frame, storage, clock, halt>>
      \/ /\ At(t, "save")
         /\ SavePage(t, p, f, pagedir_is_dirty(p))
         /\ UNCHANGED <<pte, mem, clock, latest>>

PageOut(t) ==
  LET f == th[t].f   p == frame[f].page
  IN  \/ /\ At(t, "clear")
         /\ halt' = IF HoldsFrame(t, p) THEN halt ELSE "assert"
         /\ pagedir_clear_page(p)
         /\ Goto(t, "save")
         /\ UNCHANGED <<page, frame, storage, clock>>
      \/ /\ At(t, "save")
         /\ SavePage(t, p, f, pagedir_is_dirty(p))
         /\ UNCHANGED <<pte, mem, clock, latest>>

-----------------------------------------------------------------------------
(***************************************************************************)
(* The page comes in                                                       *)
(***************************************************************************)

Unlocked(f) == [frame EXCEPT ![f].lock = NULL]

\* setup_stack clears private, puts the command line into the frame and unlocks it.
StackReady(t) ==
  LET p == th[t].pg   f == th[t].f
  IN  /\ At(t, "given") /\ th[t].op = "setup"
      /\ page' = [page EXCEPT ![p].frame = f, ![p].private = FALSE]
      /\ mem' = [mem EXCEPT ![f] = <<p, 1>>]
      /\ latest' = [latest EXCEPT ![p] = 1]
      /\ frame' = Unlocked(f)
      /\ th' = [th EXCEPT ![t] = Idle]
      /\ UNCHANGED <<pte, swap, disk, clock, halt>>

\* The contents of the slot come back and the slot is free.
swap_in(f, s) ==
  /\ mem' = [mem EXCEPT ![f] = swap[s]]
  /\ swap' = [swap EXCEPT ![s] = NULL]

\* do_page_in: from swap, which frees the slot, from the file, or zeros.
Fill(t) ==
  LET p == th[t].pg   f == th[t].f   s == page[p].sector
  IN  /\ At(t, "given") /\ th[t].op # "setup"
      /\ IF s # NULL
         THEN swap_in(f, s)
         ELSE /\ mem' = [mem EXCEPT ![f] = <<p, IF page[p].file THEN disk[p] ELSE 0>>]
              /\ UNCHANGED swap
      /\ page' = [page EXCEPT ![p].frame = f, ![p].sector = NULL]
      /\ Goto(t, "set")
      /\ UNCHANGED <<pte, frame, disk, latest, clock, halt>>

\* pagedir_set_page, which fails when there is no page for a page table.  page_in
\* unlocks the frame in either case; page_lock never does.
SetPage(t) ==
  LET p == th[t].pg   f == th[t].f   fault == th[t].op = "fault"
  IN  /\ At(t, "set")
      /\ frame' = IF fault THEN Unlocked(f) ELSE frame
      /\ \/ /\ pagedir_set_page(p, f)
            /\ th' = [th EXCEPT ![t] = IF fault THEN Idle ELSE [@ EXCEPT !.pc = "kernel"]]
            /\ halt' = IF pte[p].P THEN "assert" ELSE halt
         \/ /\ th' = [th EXCEPT ![t] = [Idle EXCEPT !.pc = "unmap"]]
            /\ UNCHANGED <<pte, halt>>
      /\ UNCHANGED <<page, storage, clock>>

\* The system call reads or writes the locked page at its user address; then
\* page_unlock.
KernelAccess(t) ==
  LET p == th[t].pg
  IN  /\ At(t, "kernel")
      /\ IF pte[p].P
         THEN /\ Touch(p, th[t].op = "write")
              /\ frame' = Unlocked(page[p].frame)
              /\ th' = [th EXCEPT ![t] = Idle]
              /\ UNCHANGED halt
         ELSE halt' = "fault" /\ UNCHANGED <<pte, storage, frame, th>>
      /\ UNCHANGED <<page, clock>>

-----------------------------------------------------------------------------
(***************************************************************************)
(* Exit: unmap, page_deallocate and page_exit                              *)
(***************************************************************************)

\* The positions of the pages of t that map a file.
Mapping(t) == {k \in 1 .. Len(Pages[t]) : kind[Pages[t][k]] = "mmap"}

\* Those that unmap has not looked at.
Ahead(t) == {k \in Mapping(t) : k > th[t].i}

Exit(t) ==
  /\ At(t, "user")
  /\ Goto(t, "unmap")
  /\ UNCHANGED <<page, pte, frame, storage, clock, halt>>

\* Mutant: a changed page is not written to the file.
Unmap_discards(t) ==
  /\ At(t, "unmap")
  /\ th' = [th EXCEPT ![t].pc = "destroy", ![t].i = 0]
  /\ UNCHANGED <<page, pte, frame, storage, clock, halt>>

\* The first loop of unmap: the dirty bit of each page, present or not.
Unmap(t) ==
  /\ At(t, "unmap")
  /\ \/ /\ Ahead(t) = {}
        /\ th' = [th EXCEPT ![t].pc = "dealloc", ![t].i = 0]
     \/ \E k \in Ahead(t) :
          /\ \A j \in Ahead(t) : k <= j
          /\ th' = IF pagedir_is_dirty(Pages[t][k]) THEN [th EXCEPT ![t].pc = "store"]
                   ELSE [th EXCEPT ![t].i = k]
  /\ UNCHANGED <<page, pte, frame, storage, clock, halt>>

\* file_write_at copies from that page to the end of the file, through user addresses
\* that are not locked.
StoreMapped(t) ==
  LET rest == {Pages[t][k] : k \in Ahead(t)}
  IN  /\ At(t, "store")
      /\ IF \A p \in rest : pte[p].P
         THEN /\ disk' = [p \in Page |-> IF p \in rest THEN mem[pte[p].frame][2] ELSE disk[p]]
              /\ pte' = [p \in Page |-> IF p \in rest THEN [pte[p] EXCEPT !.A = TRUE] ELSE pte[p]]
              /\ \E k \in Ahead(t) : /\ \A j \in Ahead(t) : k <= j
                                     /\ th' = [th EXCEPT ![t].pc = "unmap", ![t].i = k]
              /\ UNCHANGED halt
         ELSE halt' = "fault" /\ UNCHANGED <<disk, pte, th>>
      /\ UNCHANGED <<page, frame, mem, swap, latest, clock>>

\* The positions of the pages still to be given up: those of the mapping first, then all
\* the rest.
Left(t, l) == {k \in IF l = "dealloc" THEN Mapping(t) ELSE 1 .. Len(Pages[t]) :
                 page[Pages[t][k]].alive}

GiveUp(t) ==
  \E l \in {"dealloc", "destroy"} :
    /\ At(t, l)
    /\ \/ \E k \in Left(t, l) : /\ \A j \in Left(t, l) : k <= j
                               /\ FrameLock(t, Pages[t][k], l)
       \/ /\ Left(t, l) = {}
          /\ th' = [th EXCEPT ![t] =
                       [Idle EXCEPT !.pc = IF l = "dealloc" THEN "destroy" ELSE "exited"]]
    /\ UNCHANGED <<page, pte, frame, storage, clock, halt>>

frame_free(f) == frame' = [frame EXCEPT ![f] = [page |-> NULL, lock |-> NULL]]

\* frame_free, if there is a frame, and the page is gone, its entry with it.  Its
\* swap slot is not freed.
Drop(t) ==
  LET p == th[t].pg   f == th[t].f
  IN  /\ At(t, "drop")
      /\ IF f = NULL THEN UNCHANGED frame ELSE frame_free(f)
      /\ page' = [page EXCEPT ![p].alive = FALSE]
      /\ pte' = [pte EXCEPT ![p] = NoPte]
      /\ mem' = IF f = NULL THEN mem ELSE [mem EXCEPT ![f] = NULL]
      /\ th' = [th EXCEPT ![t] = [Idle EXCEPT !.pc = th[t].op]]
      /\ UNCHANGED <<swap, disk, latest, clock, halt>>

Halted ==
  /\ halt # "no" \/ \A t \in Proc : th[t].pc = "exited"
  /\ UNCHANGED vars

Kernel(t) ==
  \/ SetupStack(t) \/ FrameLocked(t) \/ Scan(t) \/ FindFree(t) \/ Clock(t) \/ PageOut(t)
  \/ StackReady(t) \/ Fill(t) \/ SetPage(t) \/ KernelAccess(t)
  \/ Unmap(t) \/ StoreMapped(t) \/ GiveUp(t) \/ Drop(t)

Next ==
  \/ \E t \in Proc :
       \/ Kernel(t) \/ Exit(t)
       \/ \E p \in Page : \/ \E w \in BOOLEAN : UserAccess(t, p, w)
                         \/ \E op \in {"fault", "read", "write"} : PageIn(t, p, op)
  \/ Halted

Spec == Init /\ [][Next]_vars
-----------------------------------------------------------------------------

Live(p) == page[p].alive /\ th[Owner(p)].pc # "destroy" /\ th[Owner(p)].op # "destroy"

\* A present entry maps a frame that belongs to its page and holds what the process
\* last stored there, wherever the page has been in between: page_out, page_in
\* and frame_lock may meet in any order.
PresentIsCurrent ==
  \A p \in Page :
    Live(p) /\ pte[p].P =>
      LET f == pte[p].frame
      IN  page[p].frame = f /\ frame[f].page = p /\ mem[f] = <<p, latest[p]>>

\* Frame table and page table agree on every frame that is not locked: a page is
\* never evicted, freed or reused through one of them only.  All variables keep their
\* types: the clock's hand stays on a frame.
TablesAgree ==
  /\ TypeOK
  /\ \A f \in Frame : frame[f].lock = NULL /\ frame[f].page # NULL =>
       page[frame[f].page].alive /\ page[frame[f].page].frame = f
  /\ \A p \in Page : page[p].alive /\ page[p].frame # NULL => frame[page[p].frame].page = p

\* A slot of the swap device belongs to one page, and a page not in memory finds
\* its own contents there.  No slot stays marked as used while its page is alive and
\* elsewhere.
SwapExact ==
  /\ \A p, q \in Page : p # q /\ page[p].sector # NULL => page[p].sector # page[q].sector
  /\ \A p \in Page : Live(p) /\ page[p].sector # NULL =>
       swap[page[p].sector] = <<p, latest[p]>>
  /\ \A s \in Slot : swap[s] # NULL => page[swap[s][1]].sector = s

\* The assertions of frame_lock, page_out, page_accessed_recently and
\* pagedir_set_page hold.
AssertsHold == halt # "assert"

\* After a process has exited, each file it mapped holds what it stored there.
MappingSaved ==
  \A t \in Proc : th[t].pc \in {"destroy", "exited"} =>
    \A p \in ListOf(t) : kind[p] = "mmap" => disk[p] = latest[p]

\* page_out saves a modified page, to swap or to its file: it never writes a page
\* without a file to one.
DirtyPageIsSaved == halt # "nofile"
=============================================================================
