---------------------------- MODULE TablesProofs ----------------------------
(***************************************************************************)
(* The frame table and the page tables agree, and the assertions of the    *)
(* paging code hold: for any number of processes, pages, frames, slots of  *)
(* the swap device and faults.                                             *)
(***************************************************************************)
EXTENDS Paging, TLAPS

-----------------------------------------------------------------------------
(***************************************************************************)
(* The inductive invariant                                                 *)
(***************************************************************************)

\* Operations that want a frame for a page, and those that give a page up.
Wants == {"setup", "fault", "read", "write"}
GivesUp == {"dealloc", "destroy"}

Giving(t) == \/ th[t].pc \in {"dealloc", "destroy", "exited"}
             \/ th[t].pc \in {"flock", "clear", "save", "drop"} /\ th[t].op \in GivesUp

\* Thread t has frame f, which holds page p, locked.
Locked(t, f, p) == f \in Frame /\ frame[f].lock = t /\ frame[f].page = p

Matched(p, f) == page[p].alive /\ page[p].frame = f

\* Only the thread that has a frame locked may have taken it from its page, or be about
\* to give it to its page.
InTransit(f) ==
  LET t == frame[f].lock
      p == frame[f].page
  IN  /\ t \in Proc /\ th[t].f = f /\ th[t].pg = p /\ th[t].pc \in {"given", "drop"}
      /\ page[p].alive /\ page[p].frame = NULL

FrameOK(f) ==
  /\ frame[f].page = NULL => frame[f].lock = NULL
  /\ frame[f].page # NULL => Matched(frame[f].page, f) \/ InTransit(f)

PageOK(p) ==
  /\ page[p].alive /\ page[p].frame # NULL => frame[page[p].frame].page = p
  /\ pte[p].P => page[p].alive /\ page[p].frame # NULL /\ pte[p].frame = page[p].frame

\* A page that is not there has never been, or its process gives its pages up.
AliveOK(t) ==
  Giving(t) \/ \A p \in ListOf(t) : \/ page[p].alive
                                    \/ kind[p] = "grown" /\ page[p].frame = NULL

\* The first stack page has been nowhere before setup_stack.
SetupOK(t) ==
  /\ th[t].pc = "none" => page[Pages[t][1]].frame = NULL /\ page[Pages[t][1]].sector = NULL
  /\ th[t].op = "setup" /\ th[t].pc \in {"scan", "free", "clock", "clear", "save", "given"}
       => page[th[t].pg].frame = NULL /\ page[th[t].pg].sector = NULL

\* The thread works on a page of its own.
OwnPage(t) ==
  th[t].pc \in {"flock", "scan", "free", "clock", "clear", "save", "given", "set", "kernel",
                "drop"}
    => th[t].pg \in ListOf(t) /\ page[th[t].pg].alive

\* frame_lock has read the page's frame, which may be taken away but not given.
FlockOK(t) ==
  th[t].pc = "flock" =>
    /\ th[t].op \in {"fault", "read", "write"} \cup GivesUp
    /\ th[t].f \in Frame /\ page[th[t].pg].frame \in {th[t].f, NULL}
    /\ th[t].op = "fault" => ~pte[th[t].pg].P

\* frame_alloc_and_lock looks for a frame for a page without one.
ScanOK(t) ==
  th[t].pc \in {"scan", "free", "clock"} =>
    /\ th[t].op \in Wants /\ page[th[t].pg].frame = NULL
    /\ th[t].pc = "free" => th[t].i < FrameCnt

\* page_out has the frame of the page it takes out locked: its own page's in
\* page_deallocate, else one for its own page.
EvictOK(t) ==
  th[t].pc \in {"clear", "save"} =>
    \E v \in Page :
      /\ Locked(t, th[t].f, v) /\ Matched(v, th[t].f)
      /\ th[t].pc = "save" => ~pte[v].P
      /\ \/ th[t].op = "dealloc" /\ v = th[t].pg
         \/ th[t].op \in Wants /\ page[th[t].pg].frame = NULL

GivenOK(t) ==
  th[t].pc = "given" =>
    /\ th[t].op \in Wants /\ page[th[t].pg].frame = NULL
    /\ Locked(t, th[t].f, th[t].pg)

\* page_in and page_lock have the page in its frame, locked.
SetOK(t) ==
  th[t].pc \in {"set", "kernel"} =>
    /\ th[t].op \in IF th[t].pc = "set" THEN {"fault", "read", "write"} ELSE {"read", "write"}
    /\ Locked(t, th[t].f, th[t].pg) /\ page[th[t].pg].frame = th[t].f
    /\ th[t].pc = "set" => ~pte[th[t].pg].P

DropOK(t) ==
  th[t].pc = "drop" =>
    /\ th[t].op \in GivesUp
    /\ \/ th[t].f = NULL /\ page[th[t].pg].frame = NULL
       \/ Locked(t, th[t].f, th[t].pg) /\ page[th[t].pg].frame \in {th[t].f, NULL}

\* What a frame or a slot holds belongs to the page that points to it, and a page has one
\* place only.
StorageOK(p) ==
  /\ page[p].alive /\ page[p].frame # NULL
       => page[p].sector = NULL /\ mem[page[p].frame] \in {p} \X Version
  /\ page[p].sector # NULL => swap[page[p].sector] \in {p} \X Version

SlotOK(s) == swap[s] # NULL => page[swap[s][1]].sector = s

ThreadOK(t) ==
  /\ AliveOK(t) /\ SetupOK(t) /\ OwnPage(t)
  /\ FlockOK(t) /\ ScanOK(t) /\ EvictOK(t) /\ GivenOK(t) /\ SetOK(t) /\ DropOK(t)

TablesInv ==
  /\ TypeOK
  /\ \A f \in Frame : FrameOK(f)
  /\ \A p \in Page : PageOK(p) /\ StorageOK(p)
  /\ \A s \in Slot : SlotOK(s)
  /\ \A t \in Proc : ThreadOK(t)
  /\ AssertsHold

-----------------------------------------------------------------------------
(***************************************************************************)
(* Threads that do not move                                                *)
(***************************************************************************)

\* No page belongs to two processes.
LEMMA OneOwner ==
  ASSUME NEW t \in Proc, NEW u \in Proc, NEW p, p \in ListOf(t), p \in ListOf(u)
  PROVE  t = u /\ p \in Page
BY PagingAssumption DEF Page

\* A process has a page for setup_stack.
LEMMA FirstPage == ASSUME NEW t \in Proc PROVE Pages[t][1] \in ListOf(t)
<1>1. Pages[t] \in Seq(Page) /\ Pages[t] # <<>>  BY PagingAssumption, Zenon
<1>2. 1 \in 1 .. Len(Pages[t])  BY <1>1
<1> QED BY <1>2, Zenon DEF ListOf

\* What a page or a frame is made of.
LEMMA Types ==
  ASSUME TypeOK
  PROVE  /\ \A p \in Page : /\ page[p] \in PageRecord /\ pte[p] \in PteRecord
                            /\ page[p].frame \in Frame \cup {NULL}
                            /\ page[p].sector \in Slot \cup {NULL}
         /\ \A f \in Frame : /\ frame[f] \in FrameRecord
                             /\ frame[f].page \in Page \cup {NULL}
                             /\ frame[f].lock \in Proc \cup {NULL}
         /\ \A t \in Proc : /\ th[t] \in Locals /\ th[t].i \in Nat
                            /\ th[t].pg \in Page \cup {NULL}
                            /\ th[t].f \in Frame \cup {NULL}
         /\ NULL \notin Page /\ NULL \notin Frame /\ NULL \notin Proc /\ NULL \notin Slot
<1>1. \A p \in Page : page[p] \in PageRecord /\ pte[p] \in PteRecord  BY Zenon DEF TypeOK
<1>2. \A f \in Frame : frame[f] \in FrameRecord  BY Zenon DEF TypeOK
<1>3. \A t \in Proc : th[t] \in Locals  BY Zenon DEF TypeOK
<1>4. NULL \notin Page /\ NULL \notin Frame /\ NULL \notin Proc /\ NULL \notin Slot
  BY PagingAssumption, Zenon
<1>5. \A p \in Page : page[p].frame \in Frame \cup {NULL} /\ page[p].sector \in Slot \cup {NULL}
  BY <1>1 DEF PageRecord
<1>6. \A f \in Frame : frame[f].page \in Page \cup {NULL} /\ frame[f].lock \in Proc \cup {NULL}
  BY <1>2 DEF FrameRecord
<1>7. \A t \in Proc : /\ th[t].i \in Nat /\ th[t].pg \in Page \cup {NULL}
                      /\ th[t].f \in Frame \cup {NULL}
  BY <1>3 DEF Locals
<1> QED BY <1>1, <1>2, <1>3, <1>4, <1>5, <1>6, <1>7, Zenon

\* A step leaves thread u alone if it leaves its frames and the pages in them, and takes
\* from its own pages at most the frame or the entry.
Spares(u) ==
  /\ th'[u] = th[u]
  /\ \A p \in ListOf(u) : /\ page'[p].alive <=> page[p].alive
                          /\ page'[p].frame \in {page[p].frame, NULL}
                          /\ page[p].frame = NULL => page'[p].sector = page[p].sector
                          /\ pte'[p].P => pte[p].P
  /\ \A f \in Frame, v \in Page :
       Locked(u, f, v) => /\ Locked(u, f, v)'
                          /\ page'[v].alive <=> page[v].alive
                          /\ page'[v].frame = page[v].frame
                          /\ pte'[v].P => pte[v].P

\* What a thread knows stays true when a step spares its page, its frame and its locals.
LEMMA SparedStays ==
  ASSUME TablesInv, kind' = kind, NEW u \in Proc, Spares(u)
  PROVE  ThreadOK(u)'
<1>1. ThreadOK(u) /\ th'[u] = th[u]  BY Zenon DEF TablesInv, Spares
<1>2. AliveOK(u)'  BY <1>1, Zenon DEF ThreadOK, AliveOK, Spares, Giving
<1>3. OwnPage(u)'  BY <1>1, Zenon DEF ThreadOK, OwnPage, Spares
<1>4. th[u].pg \in ListOf(u) => /\ th[u].pg \in Page
                                /\ page'[th[u].pg].frame \in {page[th[u].pg].frame, NULL}
                                /\ pte'[th[u].pg].P => pte[th[u].pg].P
  BY OneOwner, Zenon DEF Spares
<1>5. OwnPage(u)  BY <1>1, Zenon DEF ThreadOK
<1>0. SetupOK(u)'
  <2>1. Pages[u][1] \in ListOf(u)  BY FirstPage, Zenon
  <2>2. \A p \in ListOf(u) : page[p].frame = NULL /\ page[p].sector = NULL
                             => page'[p].frame = NULL /\ page'[p].sector = NULL
    BY Zenon DEF Spares
  <2> QED BY <1>1, <1>5, <2>1, <2>2, Zenon DEF ThreadOK, SetupOK, OwnPage
<1>6. FlockOK(u)'  BY <1>1, <1>4, <1>5, Zenon DEF ThreadOK, OwnPage, FlockOK
<1>7. ScanOK(u)'  BY <1>1, <1>4, <1>5, Zenon DEF ThreadOK, OwnPage, ScanOK
<1>8. EvictOK(u)'
  <2> SUFFICES ASSUME th[u].pc \in {"clear", "save"}  PROVE EvictOK(u)'
    BY <1>1, Zenon DEF EvictOK
  <2>1. PICK v \in Page :
          /\ Locked(u, th[u].f, v) /\ Matched(v, th[u].f)
          /\ th[u].pc = "save" => ~pte[v].P
          /\ \/ th[u].op = "dealloc" /\ v = th[u].pg
             \/ th[u].op \in Wants /\ page[th[u].pg].frame = NULL
    BY <1>1, Zenon DEF ThreadOK, EvictOK
  <2>2. th[u].f \in Frame  BY <2>1, Zenon DEF Locked
  <2>3. Locked(u, th[u].f, v)' /\ Matched(v, th[u].f)' /\ (pte'[v].P => pte[v].P)
    BY <1>1, <2>1, <2>2, Zenon DEF Spares, Matched
  <2>4. page[th[u].pg].frame = NULL => page'[th[u].pg].frame = NULL
    BY <1>4, <1>5, Zenon DEF OwnPage
  <2> QED BY <1>1, <2>1, <2>3, <2>4, Zenon DEF EvictOK
<1>9. \A f : Locked(u, f, th[u].pg) /\ th[u].pg \in Page
        => /\ Locked(u, f, th[u].pg)'
           /\ page'[th[u].pg].frame = page[th[u].pg].frame
           /\ pte'[th[u].pg].P => pte[th[u].pg].P
  BY Zenon DEF Spares, Locked
<1>10. GivenOK(u)'  BY <1>1, <1>4, <1>5, <1>9, Zenon DEF ThreadOK, OwnPage, GivenOK
<1>11. SetOK(u)'  BY <1>1, <1>4, <1>5, <1>9, Zenon DEF ThreadOK, OwnPage, SetOK
<1>12. DropOK(u)'  BY <1>1, <1>4, <1>5, <1>9, Zenon DEF ThreadOK, OwnPage, DropOK
<1> QED BY <1>0, <1>2, <1>3, <1>6, <1>7, <1>8, <1>10, <1>11, <1>12, Zenon DEF ThreadOK

-----------------------------------------------------------------------------
(***************************************************************************)
(* Steps that move no page and no frame                                    *)
(***************************************************************************)

\* The step of thread t moves no page: it may allocate one of its own, or change bits of
\* an entry, or the contents of a frame to others of the same page.
Quiet(t) ==
  /\ UNCHANGED <<kind, frame, swap>>
  /\ \A p \in Page :
       /\ page'[p].frame = page[p].frame /\ page'[p].sector = page[p].sector
       /\ \/ page'[p].alive <=> page[p].alive
          \/ page'[p].alive /\ page[p].frame = NULL /\ p \in ListOf(t)
  /\ \A u \in Proc \ {t} : th'[u] = th[u]
  /\ th[t].pc \notin {"given", "drop"}
  /\ \A p \in Page : (pte'[p].P => pte[p].P) /\ pte'[p].frame = pte[p].frame
  /\ \A p \in Page : page[p].alive /\ page[p].frame # NULL
                       => mem'[page[p].frame] \in {p} \X Version

\* The page in a frame is there.
LEMMA HeldIsAlive ==
  ASSUME TablesInv, NEW f \in Frame, frame[f].page # NULL
  PROVE  frame[f].page \in Page /\ page[frame[f].page].alive
<1>1. FrameOK(f) /\ frame[f].page \in Page  BY Types, Zenon DEF TablesInv
<1> QED BY <1>1, Zenon DEF FrameOK, Matched, InTransit

\* The contents of a slot are those of a page.
LEMMA SlotOfPage ==
  ASSUME TypeOK, NEW s \in Slot, swap[s] # NULL
  PROVE  swap[s][1] \in Page
<1>1. swap[s] \in Page \X Version  BY Zenon DEF TypeOK, Data
<1> QED BY <1>1

\* A step of t that moves no page and touches no lock of a frame.
LEMMA QuietStep ==
  ASSUME TablesInv, TypeOK', AssertsHold', NEW t \in Proc, Quiet(t), ThreadOK(t)'
  PROVE  TablesInv'
<1>1. ASSUME NEW u \in Proc PROVE ThreadOK(u)'
  <2>1. CASE u = t  BY <2>1, Zenon
  <2>2. CASE u # t
    <3>1. \A p \in ListOf(u) : p \in Page /\ p \notin ListOf(t)  BY <2>2, OneOwner, Zenon
    <3>2. \A p \in ListOf(u) : /\ page'[p].alive <=> page[p].alive
                               /\ page'[p].frame = page[p].frame
                               /\ page'[p].sector = page[p].sector
                               /\ pte'[p].P => pte[p].P
      BY <3>1, Zenon DEF Quiet
    <3>3. \A f \in Frame, v \in Page : Locked(u, f, v) => page[v].alive
      BY HeldIsAlive, Types, Zenon DEF Locked, TablesInv
    <3>4. \A f \in Frame, v \in Page :
            Locked(u, f, v) => /\ Locked(u, f, v)'
                               /\ page'[v].alive <=> page[v].alive
                               /\ page'[v].frame = page[v].frame
                               /\ pte'[v].P => pte[v].P
      <4>1. frame' = frame  BY Zenon DEF Quiet
      <4>2. \A v \in Page : page[v].alive => page'[v].alive  BY Zenon DEF Quiet
      <4> QED BY <3>3, <4>1, <4>2, Zenon DEF Quiet, Locked
    <3>5. Spares(u)  BY <2>2, <3>2, <3>4, Zenon DEF Quiet, Spares
    <3> QED BY <3>5, SparedStays, Zenon DEF Quiet
  <2> QED BY <2>1, <2>2, Zenon
<1>2. ASSUME NEW f \in Frame PROVE FrameOK(f)'
  <2>1. FrameOK(f) /\ frame'[f] = frame[f] /\ frame[f].page \in Page \cup {NULL}
    BY Types, Zenon DEF TablesInv, Quiet
  <2>2. InTransit(f) /\ frame[f].page \in Page => InTransit(f)'
    BY <2>1, Zenon DEF InTransit, Quiet
  <2>3. ASSUME NEW p \in Page, Matched(p, f) PROVE Matched(p, f)'
    BY <2>3, Zenon DEF Matched, Quiet
  <2> QED BY <2>1, <2>2, <2>3, Zenon DEF FrameOK
<1>3. ASSUME NEW p \in Page PROVE PageOK(p)' /\ StorageOK(p)'
  <2>1. PageOK(p) /\ StorageOK(p)  BY Zenon DEF TablesInv
  <2>2. /\ page'[p].frame = page[p].frame /\ page'[p].sector = page[p].sector
        /\ page'[p].alive /\ page[p].frame # NULL <=> page[p].alive /\ page[p].frame # NULL
        /\ page[p].alive => page'[p].alive
    BY Zenon DEF Quiet
  <2>3. PageOK(p)'  BY <2>1, <2>2, Zenon DEF PageOK, Quiet
  <2>4. StorageOK(p)'  BY <2>1, <2>2, Zenon DEF StorageOK, Quiet
  <2> QED BY <2>3, <2>4, Zenon
<1>4. ASSUME NEW s \in Slot PROVE SlotOK(s)'
  <2>1. SlotOK(s) /\ swap' = swap  BY Zenon DEF TablesInv, Quiet
  <2>2. swap[s] # NULL => page'[swap[s][1]].sector = page[swap[s][1]].sector
    BY SlotOfPage, Zenon DEF TablesInv, Quiet
  <2> QED BY <2>1, <2>2, Zenon DEF SlotOK
<1> QED BY <1>1, <1>2, <1>3, <1>4, Zenon DEF TablesInv

\* Outside the paging code a thread knows nothing but that its pages are there.
LEMMA Outside ==
  ASSUME NEW t \in Proc, AliveOK(t)',
         th'[t].pc \in {"user", "unmap", "store", "dealloc", "destroy", "exited"}
  PROVE  ThreadOK(t)'
BY Zenon
   DEF ThreadOK, OwnPage, FlockOK, ScanOK, EvictOK, GivenOK, SetOK, DropOK, SetupOK

\* setup_stack begins to look for a frame for the first stack page.
LEMMA SetupStackKeeps ==
  ASSUME TablesInv, NEW t \in Proc, SetupStack(t)
  PROVE  TablesInv'
<1>1. TypeOK /\ ThreadOK(t) /\ halt = "no" /\ th[t].pc = "none"
  BY Zenon DEF TablesInv, SetupStack, At
<1>2. PICK p : p = Pages[t][1]  OBVIOUS
<1>3. p \in ListOf(t) /\ p \in Page /\ kind[p] # "grown"
  <2>1. p \in ListOf(t)  BY <1>2, FirstPage, Zenon
  <2>2. kind[p] = "stack"  BY <1>1, <1>2, PagingAssumption, Zenon DEF TypeOK
  <2> QED BY <2>1, <2>2, OneOwner, Zenon
<1>4. /\ th'[t].pc = "scan" /\ th'[t].op = "setup" /\ th'[t].pg = p
      /\ \A u \in Proc \ {t} : th'[u] = th[u]
      /\ UNCHANGED <<page, pte, frame, mem, swap, disk, latest, scan_lock, hand, faults, kind,
                     halt>>
  BY <1>1, <1>2, Types, Zenon DEF SetupStack, TypeOK, Locals, storage, clock
<1>5. TypeOK'
  <2>1. [th[t] EXCEPT !.pc = "scan", !.op = "setup", !.pg = p] \in Locals
    BY <1>1, <1>3, Types, ZenonT(60) DEF Locals, Label, Op
  <2>2. th' \in [Proc -> Locals]
    BY <1>1, <1>2, <2>1, Zenon DEF SetupStack, TypeOK
  <2> QED BY <1>1, <1>4, <2>2, Zenon DEF TypeOK
<1>6. AliveOK(t) /\ ~Giving(t)  BY <1>1, Zenon DEF ThreadOK, Giving
<1>7. page[p].alive /\ page[p].frame = NULL /\ page[p].sector = NULL
  BY <1>1, <1>2, <1>3, <1>6, Zenon DEF AliveOK, ThreadOK, SetupOK
<1>8. AliveOK(t)'  BY <1>4, <1>6, Zenon DEF AliveOK
<1>9. ThreadOK(t)'
  BY <1>3, <1>4, <1>7, <1>8, Zenon
     DEF ThreadOK, OwnPage, FlockOK, ScanOK, EvictOK, GivenOK, SetOK, DropOK, SetupOK, Wants
<1>10. Quiet(t)
  BY <1>1, <1>4, Zenon DEF Quiet, TablesInv, StorageOK
<1> QED BY <1>1, <1>4, <1>5, <1>9, <1>10, QuietStep, Zenon DEF AssertsHold

\* Two pages that are there do not share a frame.
LEMMA OneFrame ==
  ASSUME TablesInv, NEW p \in Page, NEW q \in Page, page[p].alive, page[q].alive,
         page[p].frame # NULL, page[q].frame = page[p].frame
  PROVE  p = q
BY Zenon DEF TablesInv, PageOK

\* An access to a present page leaves the tables as they are.
LEMMA TouchChanges ==
  ASSUME TablesInv, NEW p \in Page, pte[p].P, NEW write \in BOOLEAN, Touch(p, write)
  PROVE  /\ pte' \in [Page -> PteRecord] /\ mem' \in [Frame -> Data \cup {NULL}]
         /\ latest' \in [Page -> Version] /\ UNCHANGED <<swap, disk>>
         /\ \A q \in Page : pte'[q].P = pte[q].P /\ pte'[q].frame = pte[q].frame
         /\ \A q \in Page : page[q].alive /\ page[q].frame # NULL
                              => mem'[page[q].frame] \in {q} \X Version
<1>1. /\ TypeOK /\ page[p].alive /\ page[p].frame \in Frame /\ pte[p].frame = page[p].frame
      /\ page[p].frame # NULL /\ pte[p] \in PteRecord
  BY Types, Zenon DEF TablesInv, PageOK
<1>2. 2 \in Version  BY DEF Version
<1>3. PICK r : r = [pte[p] EXCEPT !.A = TRUE, !.D = @ \/ write]  BY Zenon
<1>4. r \in PteRecord /\ r.P = pte[p].P /\ r.frame = pte[p].frame
  BY <1>1, <1>3, Zenon DEF PteRecord
<1>5. pte' = [pte EXCEPT ![p] = r]  BY <1>1, <1>3, Zenon DEF Touch, TypeOK
<1>6. pte' \in [Page -> PteRecord] /\ \A q \in Page : pte'[q].P = pte[q].P /\ pte'[q].frame = pte[q].frame
  BY <1>1, <1>4, <1>5, Zenon DEF TypeOK
<1>7. CASE ~write
  BY <1>1, <1>6, <1>7, Zenon DEF Touch, TypeOK, TablesInv, StorageOK
<1>8. CASE write
  <2>1. mem' = [mem EXCEPT ![page[p].frame] = <<p, 2>>] /\ latest' = [latest EXCEPT ![p] = 2]
    BY <1>1, <1>8, Zenon DEF Touch
  <2>2. <<p, 2>> \in Data /\ <<p, 2>> \in {p} \X Version  BY <1>2, Zenon DEF Data
  <2>3. mem' \in [Frame -> Data \cup {NULL}] /\ latest' \in [Page -> Version]
    BY <1>1, <1>2, <2>1, <2>2, Zenon DEF TypeOK
  <2>4. ASSUME NEW q \in Page, page[q].alive, page[q].frame # NULL
        PROVE  mem'[page[q].frame] \in {q} \X Version
    <3>1. page[q].frame \in Frame  BY <1>1, <2>4, Types, Zenon
    <3>2. CASE page[q].frame = page[p].frame
      <4>1. q = p  BY <1>1, <2>4, <3>2, OneFrame, Zenon
      <4> QED BY <1>1, <2>1, <2>2, <4>1, Zenon DEF TypeOK
    <3>3. CASE page[q].frame # page[p].frame
      BY <1>1, <2>1, <2>4, <3>1, <3>3, Zenon DEF TypeOK, TablesInv, StorageOK
    <3> QED BY <3>2, <3>3, Zenon
  <2> QED BY <1>6, <2>3, <2>4, Zenon DEF Touch
<1> QED BY <1>7, <1>8, Zenon

\* The processor uses a present entry, and sets its A and D bits.
LEMMA UserAccessKeeps ==
  ASSUME TablesInv, NEW t \in Proc, NEW p \in Page, NEW w \in BOOLEAN, UserAccess(t, p, w)
  PROVE  TablesInv'
<1>1. /\ TypeOK /\ ThreadOK(t) /\ halt = "no" /\ th[t].pc = "user" /\ pte[p].P /\ Touch(p, w)
      /\ UNCHANGED <<page, frame, scan_lock, hand, faults, kind, th, halt>>
  BY Zenon DEF TablesInv, UserAccess, At, clock
<1>2. /\ pte' \in [Page -> PteRecord] /\ mem' \in [Frame -> Data \cup {NULL}]
      /\ latest' \in [Page -> Version] /\ UNCHANGED <<swap, disk>>
      /\ \A q \in Page : pte'[q].P = pte[q].P /\ pte'[q].frame = pte[q].frame
      /\ \A q \in Page : page[q].alive /\ page[q].frame # NULL
                           => mem'[page[q].frame] \in {q} \X Version
  BY <1>1, TouchChanges, Zenon
<1>3. TypeOK'  BY <1>1, <1>2, Zenon DEF TypeOK
<1>4. AliveOK(t)'  BY <1>1, Zenon DEF ThreadOK, AliveOK, Giving
<1>5. ThreadOK(t)'  BY <1>1, <1>4, Outside, Zenon
<1>6. Quiet(t)  BY <1>1, <1>2, Zenon DEF Quiet
<1> QED BY <1>1, <1>3, <1>5, <1>6, QuietStep, Zenon DEF AssertsHold

\* frame_lock reads the frame of the page.
LEMMA FrameLockSets ==
  ASSUME TypeOK, NEW t \in Proc, NEW p \in Page, NEW op \in Op, FrameLock(t, p, op)
  PROVE  /\ th' \in [Proc -> Locals] /\ \A u \in Proc \ {t} : th'[u] = th[u]
         /\ th'[t].op = op /\ th'[t].pg = p /\ th'[t].f = page[p].frame
         /\ th'[t].pc = IF page[p].frame # NULL THEN "flock"
                        ELSE IF op \in {"dealloc", "destroy"} THEN "drop" ELSE "scan"
<1>1. th[t] \in Locals /\ page[p].frame \in Frame \cup {NULL}  BY Types, Zenon
<1>2. PICK l \in Label : l = IF page[p].frame # NULL THEN "flock"
                             ELSE IF op \in {"dealloc", "destroy"} THEN "drop" ELSE "scan"
  BY Zenon DEF Label
<1>3. PICK r : r = [th[t] EXCEPT !.op = op, !.pg = p, !.f = page[p].frame, !.pc = l]  BY Zenon
<1>4. r \in Locals /\ r.op = op /\ r.pg = p /\ r.f = page[p].frame /\ r.pc = l
  BY <1>1, <1>3, Zenon DEF Locals
<1>5. th' = [th EXCEPT ![t] = r]  BY <1>2, <1>3, Zenon DEF FrameLock, TypeOK
<1> QED BY <1>2, <1>4, <1>5, Zenon DEF TypeOK

\* A page fault or page_lock begins: the page is there, or the stack grows by it.
LEMMA PageInKeeps ==
  ASSUME TablesInv, NEW t \in Proc, NEW p \in Page, NEW op \in {"fault", "read", "write"},
         PageIn(t, p, op)
  PROVE  TablesInv'
<1>1. /\ TypeOK /\ ThreadOK(t) /\ halt = "no" /\ th[t].pc = "user" /\ p \in ListOf(t)
      /\ op = "fault" => ~pte[p].P
      /\ page' = [page EXCEPT ![p].alive = TRUE]
      /\ faults < MaxFaults /\ faults' = faults + 1 /\ FrameLock(t, p, op)
      /\ UNCHANGED <<pte, frame, mem, swap, disk, latest, scan_lock, hand, kind, halt>>
  BY Zenon DEF TablesInv, PageIn, At, page_for_addr, storage
<1>2. /\ page' \in [Page -> PageRecord] /\ page'[p].alive
      /\ page'[p].frame = page[p].frame /\ page'[p].sector = page[p].sector
      /\ \A q \in Page \ {p} : page'[q] = page[q]
  <2>1. PICK r : r = [page[p] EXCEPT !.alive = TRUE]  BY Zenon
  <2>2. r \in PageRecord /\ r.alive /\ r.frame = page[p].frame /\ r.sector = page[p].sector
    BY <1>1, <2>1, Types, Zenon DEF PageRecord
  <2>3. page' = [page EXCEPT ![p] = r]  BY <1>1, <2>1, Zenon DEF TypeOK
  <2> QED BY <1>1, <2>2, <2>3, Zenon DEF TypeOK
<1>3. /\ th' \in [Proc -> Locals] /\ \A u \in Proc \ {t} : th'[u] = th[u]
      /\ th'[t].op = op /\ th'[t].pg = p /\ th'[t].f = page[p].frame
      /\ th'[t].pc = IF page[p].frame # NULL THEN "flock" ELSE "scan"
  <2>1. op \in Op /\ op \notin {"dealloc", "destroy"}  BY Zenon DEF Op
  <2> QED BY <1>1, <2>1, FrameLockSets, Zenon
<1>4. TypeOK'
  <2>1. faults' \in 0 .. MaxFaults  BY <1>1, PagingAssumption DEF TypeOK
  <2> QED BY <1>1, <1>2, <1>3, <2>1, Zenon DEF TypeOK
<1>5. AliveOK(t) /\ ~Giving(t)  BY <1>1, Zenon DEF ThreadOK, Giving
<1>6. page[p].alive \/ page[p].frame = NULL  BY <1>1, <1>5, Zenon DEF AliveOK
<1>7. AliveOK(t)'
  <2>1. \A q \in ListOf(t) : q \in Page  BY OneOwner, Zenon
  <2> QED BY <1>1, <1>2, <1>3, <1>5, <2>1, Zenon DEF AliveOK
<1>8. page[p].frame \in Frame \cup {NULL}  BY <1>1, Types, Zenon
<1>9. ThreadOK(t)'
  BY <1>1, <1>2, <1>3, <1>7, <1>8, Zenon
     DEF ThreadOK, OwnPage, FlockOK, ScanOK, EvictOK, GivenOK, SetOK, DropOK, SetupOK, Wants
<1>10. Quiet(t)
  BY <1>1, <1>2, <1>3, <1>6, Zenon DEF Quiet, TablesInv, StorageOK
<1> QED BY <1>1, <1>4, <1>9, <1>10, QuietStep, Zenon DEF AssertsHold

-----------------------------------------------------------------------------
(***************************************************************************)
(* Steps that move pages and frames                                        *)
(***************************************************************************)

\* The step of thread t changes the frames in F, which no other thread has locked, and the
\* pages in V, which are its own or come out of a frame in F.
Works(t, F, V) ==
  /\ kind' = kind
  /\ \A u \in Proc \ {t} : th'[u] = th[u]
  /\ \A f \in F : frame[f].lock \in {t, NULL}
  /\ \A f \in Frame \ F : /\ frame'[f] = frame[f]
                          /\ frame[f].lock = t
                               => th[t].f # f \/ th[t].pc \notin {"given", "drop"}
  /\ \A p \in Page \ V :
       /\ page'[p] = page[p]
       /\ (pte'[p].P => pte[p].P) /\ pte'[p].frame = pte[p].frame
       /\ page[p].alive /\ page[p].frame # NULL
            => frame'[page[p].frame].page = p /\ mem'[page[p].frame] \in {p} \X Version
       /\ page[p].sector # NULL => swap'[page[p].sector] \in {p} \X Version
  /\ \A p \in V :
       /\ page[p].frame \in F \cup {NULL}
       /\ \/ p \in ListOf(t)
          \/ /\ page[p].frame \in F /\ page'[p].frame \in {page[p].frame, NULL}
             /\ (page'[p].alive <=> page[p].alive) /\ (pte'[p].P => pte[p].P)

\* The pages in V are in no frame that another thread has locked.
LEMMA NotAnothers ==
  ASSUME TablesInv, NEW t \in Proc, NEW F \in SUBSET Frame, NEW V \in SUBSET Page,
         Works(t, F, V), NEW f \in Frame \ F, NEW p \in V, frame[f].page = p
  PROVE  FALSE
<1>1. FrameOK(f) /\ p \in Page /\ p # NULL /\ f # NULL  BY Types, Zenon DEF TablesInv
<1>2. page[p].frame \in F \cup {NULL}  BY Zenon DEF Works
<1>3. ~Matched(p, f)  BY <1>1, <1>2, Zenon DEF Matched
<1>4. InTransit(f)  BY <1>1, <1>3, Zenon DEF FrameOK
<1>5. PICK u \in Proc : u = frame[f].lock  BY <1>4, Zenon DEF InTransit
<1>6. th[u].f = f /\ th[u].pg = p /\ th[u].pc \in {"given", "drop"} /\ page[p].frame = NULL
  BY <1>4, <1>5, Zenon DEF InTransit
<1>7. u # t  BY <1>5, <1>6, Zenon DEF Works
<1>8. p \in ListOf(u)  BY <1>6, Zenon DEF TablesInv, ThreadOK, OwnPage
<1>9. p \notin ListOf(t)  BY <1>7, <1>8, OneOwner, Zenon
<1>10. page[p].frame \in F  BY <1>9, Zenon DEF Works
<1>11. NULL \notin F  BY Types, Zenon DEF TablesInv
<1> QED BY <1>6, <1>10, <1>11, Zenon

\* A step of t works on the frames in F and the pages in V only.
LEMMA WorkStep ==
  ASSUME TablesInv, TypeOK', AssertsHold', NEW t \in Proc, NEW F \in SUBSET Frame,
         NEW V \in SUBSET Page, Works(t, F, V), ThreadOK(t)', \A f \in F : FrameOK(f)',
         \A p \in V : PageOK(p)' /\ StorageOK(p)', \A s \in Slot : SlotOK(s)'
  PROVE  TablesInv'
<1>1. ASSUME NEW u \in Proc PROVE ThreadOK(u)'
  <2>1. CASE u = t  BY <2>1, Zenon
  <2>2. CASE u # t
    <3>1. \A p \in ListOf(u) : p \in Page /\ p \notin ListOf(t)  BY <2>2, OneOwner, Zenon
    <3>2. ASSUME NEW p \in ListOf(u)
          PROVE  /\ page'[p].alive <=> page[p].alive
                 /\ page'[p].frame \in {page[p].frame, NULL}
                 /\ page[p].frame = NULL => page'[p].sector = page[p].sector
                 /\ pte'[p].P => pte[p].P
      <4>0. NULL \notin F  BY Types, Zenon DEF TablesInv
      <4>1. CASE p \in V
        <5>1. p \notin ListOf(t)  BY <3>1, Zenon
        <5>2. /\ page[p].frame \in F /\ page'[p].frame \in {page[p].frame, NULL}
              /\ (page'[p].alive <=> page[p].alive) /\ (pte'[p].P => pte[p].P)
          BY <4>1, <5>1, Zenon DEF Works
        <5> QED BY <4>0, <5>2, Zenon
      <4>2. CASE p \notin V  BY <3>1, <4>2, Zenon DEF Works
      <4> QED BY <4>1, <4>2, Zenon
    <3>3. ASSUME NEW f \in Frame, NEW v \in Page, Locked(u, f, v)
          PROVE  /\ Locked(u, f, v)'
                 /\ page'[v].alive <=> page[v].alive
                 /\ page'[v].frame = page[v].frame
                 /\ pte'[v].P => pte[v].P
      <4>1. frame[f].lock = u /\ frame[f].page = v  BY <3>3, Zenon DEF Locked
      <4>2. f \notin F
        <5>1. u # NULL  BY Types, Zenon DEF TablesInv
        <5> QED BY <2>2, <4>1, <5>1, Zenon DEF Works
      <4>3. v \notin V  BY <4>1, <4>2, NotAnothers, ZenonT(60)
      <4>4. frame'[f] = frame[f]  BY <4>2, Zenon DEF Works
      <4>5. page'[v] = page[v] /\ (pte'[v].P => pte[v].P)  BY <4>3, Zenon DEF Works
      <4> QED BY <3>3, <4>4, <4>5, Zenon DEF Locked
    <3>4. Spares(u) /\ kind' = kind  BY <2>2, <3>2, <3>3, Zenon DEF Works, Spares
    <3> QED BY <3>4, SparedStays, Zenon
  <2> QED BY <2>1, <2>2, Zenon
<1>2. ASSUME NEW f \in Frame PROVE FrameOK(f)'
  <2>1. CASE f \in F  BY <2>1, Zenon
  <2>2. CASE f \notin F
    <3>1. /\ FrameOK(f) /\ frame'[f] = frame[f] /\ frame[f].page \in Page \cup {NULL}
          /\ frame[f].lock = t => th[t].f # f \/ th[t].pc \notin {"given", "drop"}
      BY <2>2, Types, Zenon DEF TablesInv, Works
    <3>2. CASE frame[f].page = NULL  BY <3>1, <3>2, Zenon DEF FrameOK
    <3>3. CASE frame[f].page # NULL
      <4>1. PICK p \in Page : p = frame[f].page  BY <3>1, <3>3, Zenon
      <4>2. p \notin V  BY <2>2, <4>1, NotAnothers, Zenon
      <4>3. page'[p] = page[p]  BY <4>2, Zenon DEF Works
      <4>4. Matched(p, f) => Matched(p, f)'  BY <4>3, Zenon DEF Matched
      <4>5. InTransit(f) => InTransit(f)'
        <5> SUFFICES ASSUME InTransit(f) PROVE InTransit(f)'  OBVIOUS
        <5>1. PICK u \in Proc : u = frame[f].lock  BY Zenon DEF InTransit
        <5>2. u # t  BY <3>1, <5>1, Zenon DEF InTransit
        <5>3. th'[u] = th[u]  BY <5>2, Zenon DEF Works
        <5> QED BY <3>1, <4>1, <4>3, <5>1, <5>3, Zenon DEF InTransit
      <4> QED BY <3>1, <3>3, <4>1, <4>4, <4>5, Zenon DEF FrameOK
    <3> QED BY <3>2, <3>3, Zenon
  <2> QED BY <2>1, <2>2, Zenon
<1>3. ASSUME NEW p \in Page PROVE PageOK(p)' /\ StorageOK(p)'
  <2>1. CASE p \in V  BY <2>1, Zenon
  <2>2. CASE p \notin V
    <3>1. PageOK(p) /\ StorageOK(p)  BY Zenon DEF TablesInv
    <3>2. /\ page'[p] = page[p]
          /\ (pte'[p].P => pte[p].P) /\ pte'[p].frame = pte[p].frame
          /\ page[p].alive /\ page[p].frame # NULL
               => frame'[page[p].frame].page = p /\ mem'[page[p].frame] \in {p} \X Version
          /\ page[p].sector # NULL => swap'[page[p].sector] \in {p} \X Version
      BY <2>2, Zenon DEF Works
    <3>3. PageOK(p)'  BY <3>1, <3>2, Zenon DEF PageOK
    <3>4. StorageOK(p)'  BY <3>1, <3>2, Zenon DEF StorageOK
    <3> QED BY <3>3, <3>4, Zenon
  <2> QED BY <2>1, <2>2, Zenon
<1> QED BY <1>1, <1>2, <1>3, Zenon DEF TablesInv

-----------------------------------------------------------------------------
(***************************************************************************)
(* The actions that move no page and no frame                              *)
(***************************************************************************)

\* What an assignment to the locals of a thread does.
LEMMA Assigned ==
  ASSUME TypeOK, NEW t \in Proc, NEW r \in Locals, th' = [th EXCEPT ![t] = r]
  PROVE  th' \in [Proc -> Locals] /\ th'[t] = r /\ \A u \in Proc \ {t} : th'[u] = th[u]
BY Zenon DEF TypeOK

\* Only the thread's locals, the clock and bits of page table entries change.
LEMMA LocalStep ==
  ASSUME TablesInv, TypeOK', AssertsHold', NEW t \in Proc,
         UNCHANGED <<kind, page, frame, swap, mem>>,
         \A u \in Proc \ {t} : th'[u] = th[u], th[t].pc \notin {"given", "drop"},
         \A p \in Page : (pte'[p].P => pte[p].P) /\ pte'[p].frame = pte[p].frame,
         ThreadOK(t)'
  PROVE  TablesInv'
<1>1. \A p \in Page : page[p].alive /\ page[p].frame # NULL
                        => mem'[page[p].frame] \in {p} \X Version
  BY Zenon DEF TablesInv, StorageOK
<1>2. Quiet(t)  BY <1>1, Zenon DEF Quiet
<1> QED BY <1>2, QuietStep, Zenon

\* Nothing changes but the reason why the kernel stopped.
LEMMA StillStep ==
  ASSUME TablesInv, TypeOK', AssertsHold', UNCHANGED <<kind, page, pte, frame, swap, mem, th>>
  PROVE  TablesInv'
<1>1. \A f \in Frame : FrameOK(f)'
  BY Zenon DEF TablesInv, FrameOK, Matched, InTransit
<1>2. \A p \in Page : PageOK(p)' /\ StorageOK(p)'
  BY Zenon DEF TablesInv, PageOK, StorageOK
<1>3. \A s \in Slot : SlotOK(s)'  BY Zenon DEF TablesInv, SlotOK
<1>4. ASSUME NEW u \in Proc PROVE ThreadOK(u)'
  <2>1. \A f, v : Locked(u, f, v) => Locked(u, f, v)'  BY Zenon DEF Locked
  <2>2. Spares(u)  BY <2>1, Zenon DEF Spares
  <2> QED BY <2>2, SparedStays, Zenon
<1> QED BY <1>1, <1>2, <1>3, <1>4, Zenon DEF TablesInv

\* The pages of a thread stay there while it does not begin to give them up.
LEMMA AliveStays ==
  ASSUME NEW t \in Proc, ThreadOK(t), UNCHANGED <<kind, page>>,
         th'[t].pc # "none", Giving(t) => Giving(t)'
  PROVE  AliveOK(t)'
BY Zenon DEF ThreadOK, AliveOK

\* The first stack page stays where it is while setup_stack waits for a frame.
LEMMA SetupStays ==
  ASSUME NEW t \in Proc, ThreadOK(t), th[t].pc \in {"scan", "free", "clock", "clear", "save"},
         NEW p, p = th[t].pg, page'[p] = page[p],
         th'[t].pc # "none", th'[t].op = th[t].op, th'[t].pg = p
  PROVE  SetupOK(t)'
<1>1. th[t].op = "setup" => page[p].frame = NULL /\ page[p].sector = NULL
  BY Zenon DEF ThreadOK, SetupOK
<1> QED BY <1>1, Zenon DEF SetupOK

\* frame_alloc_and_lock tries again, or fails.
LEMMA Retries ==
  ASSUME TypeOK, NEW t \in Proc, Retry(t)
  PROVE  /\ th' \in [Proc -> Locals] /\ \A u \in Proc \ {t} : th'[u] = th[u]
         /\ \/ th'[t].pc = "scan" /\ th'[t].op = th[t].op /\ th'[t].pg = th[t].pg
            \/ th'[t].pc = "unmap" /\ th'[t].i = 0
<1>0. 0 \in Nat /\ 0 \in 0 .. 3  OBVIOUS
<1>1. th[t] \in Locals /\ 0 \in Nat /\ 0 \in 0 .. 3  BY <1>0, Types, Zenon
<1>2. th[t].op \in Op /\ th[t].pg \in Page \cup {NULL} /\ th[t].try \in 0 .. 3
  BY <1>1 DEF Locals
<1>3. CASE th[t].try < 2
  <2>1. th[t].try + 1 \in 0 .. 3  BY <1>2, <1>3
  <2>2. PICK n \in 0 .. 3 : n = th[t].try + 1  BY <2>1
  <2>3. PICK r : r = [Idle EXCEPT !.pc = "scan", !.op = th[t].op, !.pg = th[t].pg, !.try = n]
    BY Zenon
  <2>4. r \in Locals /\ r.pc = "scan" /\ r.op = th[t].op /\ r.pg = th[t].pg
    BY <1>1, <1>2, <2>3, Zenon DEF Idle, Locals, Label, Op
  <2>5. th' = [th EXCEPT ![t] = r]  BY <1>3, <2>2, <2>3, Zenon DEF Retry
  <2> QED BY <2>4, <2>5, Assigned, Zenon
<1>4. CASE ~(th[t].try < 2)
  <2>1. PICK r : r = [Idle EXCEPT !.pc = "unmap", !.op = NULL, !.pg = NULL, !.try = 0]
    BY Zenon
  <2>2. r \in Locals /\ r.pc = "unmap" /\ r.i = 0
    BY <1>1, <2>1, Zenon DEF Idle, Locals, Label, Op
  <2>3. th' = [th EXCEPT ![t] = r]  BY <1>4, <2>1, Zenon DEF Retry
  <2> QED BY <2>2, <2>3, Assigned, Zenon
<1> QED BY <1>3, <1>4, Zenon

\* frame_alloc_and_lock acquires scan_lock.
LEMMA ScanKeeps ==
  ASSUME TablesInv, NEW t \in Proc, Scan(t)
  PROVE  TablesInv'
<1>1. /\ TypeOK /\ ThreadOK(t) /\ halt = "no" /\ th[t].pc = "scan" /\ scan_lock' = t
      /\ UNCHANGED <<page, pte, frame, mem, swap, disk, latest, hand, faults, kind, halt>>
  BY Zenon DEF TablesInv, Scan, At, storage
<1>2. PICK r : r = [th[t] EXCEPT !.pc = "free", !.i = 0]  BY Zenon
<1>3. r \in Locals /\ r.pc = "free" /\ r.i = 0 /\ r.op = th[t].op /\ r.pg = th[t].pg
  BY <1>1, <1>2, Types, Zenon DEF Locals, Label
<1>4. th' = [th EXCEPT ![t] = r]  BY <1>1, <1>2, Zenon DEF Scan, TypeOK
<1>5. th' \in [Proc -> Locals] /\ th'[t] = r /\ \A u \in Proc \ {t} : th'[u] = th[u]
  BY <1>1, <1>3, <1>4, Assigned, Zenon
<1>6. TypeOK'  BY <1>1, <1>5, Zenon DEF TypeOK
<1>7. AliveOK(t)'  BY <1>1, <1>3, <1>5, AliveStays, Zenon DEF Giving
<1>8. th'[t].i < FrameCnt  BY <1>3, <1>5, PagingAssumption
<1>9. ThreadOK(t)'
  BY <1>1, <1>3, <1>5, <1>7, <1>8, Zenon
     DEF ThreadOK, OwnPage, FlockOK, ScanOK, EvictOK, GivenOK, SetOK, DropOK, SetupOK
<1> QED BY <1>1, <1>5, <1>6, <1>9, LocalStep, Zenon DEF AssertsHold

\* A thread whose call of frame_alloc_and_lock goes on or fails knows what it did.
LEMMA StillScans ==
  ASSUME NEW t \in Proc, ThreadOK(t), th[t].pc \in {"free", "clock"}, UNCHANGED <<kind, page>>,
         \/ /\ th'[t].pc \in {"scan", "free", "clock"}
            /\ th'[t].op = th[t].op /\ th'[t].pg = th[t].pg
            /\ th'[t].pc = "free" => th'[t].i < FrameCnt
         \/ th'[t].pc = "unmap"
  PROVE  ThreadOK(t)'
<1>1. AliveOK(t)'  BY AliveStays, Zenon DEF Giving
<1>2. CASE th'[t].pc = "unmap"  BY <1>1, <1>2, Outside, Zenon
<1>3. CASE th'[t].pc \in {"scan", "free", "clock"} /\ th'[t].pc # "unmap"
  BY <1>1, <1>3, Zenon
     DEF ThreadOK, OwnPage, FlockOK, ScanOK, EvictOK, GivenOK, SetOK, DropOK, SetupOK
<1> QED BY <1>2, <1>3, Zenon

\* The first loop looks at one frame and goes on to the next one or to the clock.
LEMMA SkipKeeps ==
  ASSUME TablesInv, NEW t \in Proc, FindFree(t),
         ~(frame[th[t].i].lock = NULL /\ frame[th[t].i].page = NULL)
  PROVE  TablesInv'
<1>1. /\ TypeOK /\ ThreadOK(t) /\ halt = "no" /\ th[t].pc = "free"
      /\ UNCHANGED <<page, pte, frame, mem, swap, disk, latest, scan_lock, hand, faults, kind,
                     halt>>
  BY Zenon DEF TablesInv, FindFree, At, storage
<1>2. PICK i \in Nat, l \in {"free", "clock"} :
        /\ l = IF th[t].i + 1 < FrameCnt THEN "free" ELSE "clock"
        /\ i = IF th[t].i + 1 < FrameCnt THEN th[t].i + 1 ELSE 0
        /\ l = "free" => i < FrameCnt
  <2>1. th[t].i \in Nat /\ FrameCnt \in Nat  BY <1>1, Types, PagingAssumption, Zenon
  <2>2. CASE th[t].i + 1 < FrameCnt  BY <2>1, <2>2
  <2>3. CASE ~(th[t].i + 1 < FrameCnt)  BY <2>1, <2>3
  <2> QED BY <2>2, <2>3, Zenon
<1>3. PICK r : r = [th[t] EXCEPT !.pc = l, !.i = i]  BY Zenon
<1>4. r \in Locals /\ r.pc = l /\ r.i = i /\ r.op = th[t].op /\ r.pg = th[t].pg
  BY <1>1, <1>2, <1>3, Types, ZenonT(60) DEF Locals, Label
<1>5. th' = [th EXCEPT ![t] = r]  BY <1>1, <1>2, <1>3, Zenon DEF FindFree, TypeOK
<1>6. th' \in [Proc -> Locals] /\ th'[t] = r /\ \A u \in Proc \ {t} : th'[u] = th[u]
  BY <1>1, <1>4, <1>5, Assigned, Zenon
<1>7. TypeOK'  BY <1>1, <1>6, Zenon DEF TypeOK
<1>8. ThreadOK(t)'  BY <1>1, <1>2, <1>4, <1>6, StillScans, Zenon
<1> QED BY <1>1, <1>6, <1>7, <1>8, LocalStep, Zenon DEF AssertsHold

\* The next position of the clock's hand is on a frame.
LEMMA HandMoves == ASSUME TypeOK PROVE NextHand \in Frame
<1>1. hand \in 0 .. FrameCnt - 1 /\ FrameCnt \in Nat \ {0}
  BY PagingAssumption, Zenon DEF TypeOK, Frame
<1> QED BY <1>1 DEF NextHand, Frame

\* The clock skips a frame: it is locked, or its page has a second chance.
LEMMA ClockSkips ==
  ASSUME TablesInv, NEW t \in Proc, At(t, "clock"), hand' = NextHand, halt' # "assert",
         halt' \in Halts,
         IF th[t].i + 1 >= 2 * FrameCnt THEN Retry(t) /\ scan_lock' = NULL
         ELSE th' = [th EXCEPT ![t].i = @ + 1] /\ UNCHANGED scan_lock,
         pte' \in [Page -> PteRecord],
         \A p \in Page : (pte'[p].P => pte[p].P) /\ pte'[p].frame = pte[p].frame,
         UNCHANGED <<frame, page, storage, faults, kind>>
  PROVE  TablesInv'
<1>1. /\ TypeOK /\ ThreadOK(t) /\ th[t].pc = "clock"
      /\ UNCHANGED <<page, frame, mem, swap, disk, latest, faults, kind>>
  BY Zenon DEF TablesInv, At, storage
<1>2. /\ th' \in [Proc -> Locals] /\ \A u \in Proc \ {t} : th'[u] = th[u]
      /\ \/ th'[t].pc \in {"scan", "clock"} /\ th'[t].op = th[t].op /\ th'[t].pg = th[t].pg
         \/ th'[t].pc = "unmap"
      /\ scan_lock' \in {NULL, scan_lock}
  <2>1. CASE th[t].i + 1 >= 2 * FrameCnt  BY <1>1, <2>1, Retries, Zenon
  <2>2. CASE ~(th[t].i + 1 >= 2 * FrameCnt)
    <3>1. th[t].i \in Nat /\ th[t] \in Locals  BY <1>1, Types, Zenon
    <3>2. PICK i \in Nat : i = th[t].i + 1  BY <3>1
    <3>3. PICK r : r = [th[t] EXCEPT !.i = i]  BY Zenon
    <3>4. r \in Locals /\ r.pc = "clock" /\ r.op = th[t].op /\ r.pg = th[t].pg
      BY <1>1, <3>1, <3>3, Zenon DEF Locals
    <3>5. th' = [th EXCEPT ![t] = r]  BY <1>1, <2>2, <3>2, <3>3, Zenon DEF TypeOK
    <3> QED BY <1>1, <2>2, <3>4, <3>5, Assigned, Zenon
  <2> QED BY <2>1, <2>2, Zenon
<1>3. hand' \in Frame  BY <1>1, HandMoves, Zenon
<1>4. TypeOK'  BY <1>1, <1>2, <1>3, Zenon DEF TypeOK
<1>5. ThreadOK(t)'  BY <1>1, <1>2, StillScans, Zenon
<1> QED BY <1>1, <1>2, <1>4, <1>5, LocalStep, Zenon DEF AssertsHold

\* A process begins to exit.
LEMMA ExitKeeps ==
  ASSUME TablesInv, NEW t \in Proc, Exit(t)
  PROVE  TablesInv'
<1>1. /\ TypeOK /\ ThreadOK(t) /\ halt = "no" /\ th[t].pc = "user"
      /\ UNCHANGED <<page, pte, frame, mem, swap, disk, latest, scan_lock, hand, faults, kind,
                     halt>>
  BY Zenon DEF TablesInv, Exit, At, storage, clock
<1>2. PICK r : r = [th[t] EXCEPT !.pc = "unmap"]  BY Zenon
<1>3. r \in Locals /\ r.pc = "unmap"  BY <1>1, <1>2, Types, ZenonT(60) DEF Locals, Label
<1>4. th' = [th EXCEPT ![t] = r]  BY <1>1, <1>2, Zenon DEF Exit, Goto, TypeOK
<1>5. th' \in [Proc -> Locals] /\ th'[t] = r /\ \A u \in Proc \ {t} : th'[u] = th[u]
  BY <1>1, <1>3, <1>4, Assigned, Zenon
<1>6. TypeOK'  BY <1>1, <1>5, Zenon DEF TypeOK
<1>7. AliveOK(t)'  BY <1>1, <1>3, <1>5, AliveStays, Zenon DEF Giving
<1>8. ThreadOK(t)'  BY <1>3, <1>5, <1>7, Outside, Zenon
<1> QED BY <1>1, <1>5, <1>6, <1>8, LocalStep, Zenon DEF AssertsHold

\* The first loop of unmap looks at the dirty bit of a page.
LEMMA UnmapKeeps ==
  ASSUME TablesInv, NEW t \in Proc, Unmap(t)
  PROVE  TablesInv'
<1>1. /\ TypeOK /\ ThreadOK(t) /\ halt = "no" /\ th[t].pc = "unmap"
      /\ UNCHANGED <<page, pte, frame, mem, swap, disk, latest, scan_lock, hand, faults, kind,
                     halt>>
  BY Zenon DEF TablesInv, Unmap, At, storage, clock
<1>2. PICK r \in Locals : /\ th' = [th EXCEPT ![t] = r]
                          /\ r.pc \in {"unmap", "store", "dealloc"}
  <2>1. th[t] \in Locals /\ 0 \in Nat /\ Ahead(t) \subseteq Nat
    <3>1. th[t] \in Locals  BY <1>1, Types, Zenon
    <3>2. 0 \in Nat /\ 1 .. Len(Pages[t]) \subseteq Nat  OBVIOUS
    <3> QED BY <3>1, <3>2, Zenon DEF Ahead, Mapping
  <2>2. CASE th' = [th EXCEPT ![t].pc = "dealloc", ![t].i = 0]
    <3>1. PICK r : r = [th[t] EXCEPT !.pc = "dealloc", !.i = 0]  BY Zenon
    <3>2. r \in Locals /\ r.pc = "dealloc"  BY <2>1, <3>1, Zenon DEF Locals, Label
    <3> QED BY <1>1, <2>2, <3>1, <3>2, Zenon DEF TypeOK
  <2>3. CASE th' = [th EXCEPT ![t].pc = "store"]
    <3>1. PICK r : r = [th[t] EXCEPT !.pc = "store"]  BY Zenon
    <3>2. r \in Locals /\ r.pc = "store"  BY <2>1, <3>1, Zenon DEF Locals, Label
    <3> QED BY <1>1, <2>3, <3>1, <3>2, Zenon DEF TypeOK
  <2>4. CASE \E k \in Ahead(t) : th' = [th EXCEPT ![t].i = k]
    <3>1. PICK k \in Nat : th' = [th EXCEPT ![t].i = k]  BY <2>1, <2>4, Zenon
    <3>2. PICK r : r = [th[t] EXCEPT !.i = k]  BY Zenon
    <3>3. r \in Locals /\ r.pc = "unmap"  BY <1>1, <2>1, <3>2, Zenon DEF Locals
    <3> QED BY <1>1, <3>1, <3>2, <3>3, Zenon DEF TypeOK
  <2> QED BY <2>2, <2>3, <2>4, Zenon DEF Unmap
<1>3. th' \in [Proc -> Locals] /\ th'[t] = r /\ \A u \in Proc \ {t} : th'[u] = th[u]
  BY <1>1, <1>2, Assigned, Zenon
<1>4. TypeOK'  BY <1>1, <1>3, Zenon DEF TypeOK
<1>5. AliveOK(t)'  BY <1>1, <1>2, <1>3, AliveStays, Zenon DEF Giving
<1>6. ThreadOK(t)'  BY <1>2, <1>3, <1>5, Outside, Zenon
<1> QED BY <1>1, <1>3, <1>4, <1>6, LocalStep, Zenon DEF AssertsHold

\* file_write_at reads the pages of the mapping through user addresses.
LEMMA StoreMappedKeeps ==
  ASSUME TablesInv, NEW t \in Proc, StoreMapped(t)
  PROVE  TablesInv'
<1>1. /\ TypeOK /\ ThreadOK(t) /\ halt = "no" /\ th[t].pc = "store"
      /\ UNCHANGED <<page, frame, mem, swap, latest, scan_lock, hand, faults, kind>>
  BY Zenon DEF TablesInv, StoreMapped, At, clock
<1>2. PICK rest : rest = {Pages[t][k] : k \in Ahead(t)}  BY Zenon
<1>3. CASE ~\A p \in rest : pte[p].P
  <2>1. halt' = "fault" /\ UNCHANGED <<disk, pte, th>>
    BY <1>2, <1>3, Zenon DEF StoreMapped
  <2>2. TypeOK'  BY <1>1, <2>1, Zenon DEF TypeOK, Halts
  <2> QED BY <1>1, <2>1, <2>2, StillStep, Zenon DEF AssertsHold
<1>4. CASE \A p \in rest : pte[p].P
  <2>1. /\ disk' = [p \in Page |-> IF p \in rest THEN mem[pte[p].frame][2] ELSE disk[p]]
        /\ pte' = [p \in Page |-> IF p \in rest THEN [pte[p] EXCEPT !.A = TRUE] ELSE pte[p]]
        /\ \E k \in Ahead(t) : th' = [th EXCEPT ![t].pc = "unmap", ![t].i = k]
        /\ halt' = halt
    BY <1>2, <1>4, Zenon DEF StoreMapped
  <2>2. ASSUME NEW p \in Page
        PROVE  /\ disk'[p] \in Version
               /\ pte'[p] \in PteRecord
               /\ (pte'[p].P => pte[p].P) /\ pte'[p].frame = pte[p].frame
    <3>1. pte[p] \in PteRecord  BY <1>1, Types, Zenon
    <3>2. CASE p \in rest
      <4>1. disk'[p] = mem[pte[p].frame][2] /\ pte'[p] = [pte[p] EXCEPT !.A = TRUE]
        BY <2>1, <3>2, Zenon
      <4>2. mem[page[p].frame] \in {p} \X Version /\ pte[p].frame = page[p].frame
        BY <1>4, <3>2, ZenonT(60) DEF TablesInv, PageOK, StorageOK
      <4>3. disk'[p] \in Version  BY <4>1, <4>2
      <4> QED BY <3>1, <4>1, <4>3, Zenon DEF PteRecord
    <3>3. CASE p \notin rest
      <4>1. disk'[p] = disk[p] /\ pte'[p] = pte[p]  BY <2>1, <3>3, Zenon
      <4> QED BY <1>1, <3>1, <4>1, Zenon DEF TypeOK
    <3> QED BY <3>2, <3>3, Zenon
  <2>3. disk' \in [Page -> Version]
    <3>1. disk' = [p \in Page |-> disk'[p]]  BY <2>1, Zenon
    <3> QED BY <2>2, <3>1, Zenon
  <2>4. pte' \in [Page -> PteRecord]
    <3>1. pte' = [p \in Page |-> pte'[p]]  BY <2>1, Zenon
    <3> QED BY <2>2, <3>1, Zenon
  <2>5. Ahead(t) \subseteq Nat
    <3>1. 1 .. Len(Pages[t]) \subseteq Nat  OBVIOUS
    <3> QED BY <3>1, Zenon DEF Ahead, Mapping
  <2>6. PICK k \in Nat : th' = [th EXCEPT ![t].pc = "unmap", ![t].i = k]
    BY <2>1, <2>5, Zenon
  <2>7. PICK r : r = [th[t] EXCEPT !.pc = "unmap", !.i = k]  BY Zenon
  <2>8. r \in Locals /\ r.pc = "unmap"  BY <1>1, <2>7, Types, ZenonT(60) DEF Locals, Label
  <2>9. th' = [th EXCEPT ![t] = r]  BY <1>1, <2>6, <2>7, Zenon DEF TypeOK
  <2>10. th' \in [Proc -> Locals] /\ th'[t] = r /\ \A u \in Proc \ {t} : th'[u] = th[u]
    BY <1>1, <2>8, <2>9, Assigned, Zenon
  <2>11. TypeOK'  BY <1>1, <2>1, <2>3, <2>4, <2>10, Zenon DEF TypeOK
  <2>12. AliveOK(t)'  BY <1>1, <2>8, <2>10, AliveStays, Zenon DEF Giving
  <2>13. ThreadOK(t)'  BY <2>8, <2>10, <2>12, Outside, Zenon
  <2> QED BY <1>1, <2>1, <2>2, <2>10, <2>11, <2>13, LocalStep, Zenon DEF AssertsHold
<1> QED BY <1>3, <1>4, Zenon

\* unmap or page_exit begins with its next page, or is done.
LEMMA GiveUpKeeps ==
  ASSUME TablesInv, NEW t \in Proc, GiveUp(t)
  PROVE  TablesInv'
<1>1. PICK l \in {"dealloc", "destroy"} :
        /\ At(t, l)
        /\ \/ \E k \in Left(t, l) : FrameLock(t, Pages[t][k], l)
           \/ th' = [th EXCEPT ![t] =
                       [Idle EXCEPT !.pc = IF l = "dealloc" THEN "destroy" ELSE "exited"]]
        /\ UNCHANGED <<page, pte, frame, mem, swap, disk, latest, scan_lock, hand, faults, kind,
                       halt>>
  BY Zenon DEF GiveUp, storage, clock
<1>2. TypeOK /\ ThreadOK(t) /\ halt = "no" /\ th[t].pc = l /\ Giving(t)
  BY <1>1, Zenon DEF TablesInv, At, Giving
<1>3. CASE \E k \in Left(t, l) : FrameLock(t, Pages[t][k], l)
  <2>1. PICK p \in ListOf(t) : page[p].alive /\ FrameLock(t, p, l)
    BY <1>3, Zenon DEF Left, Mapping, ListOf
  <2>2. p \in Page /\ l \in Op /\ l \in GivesUp  BY OneOwner, Zenon DEF Op, GivesUp
  <2>3. /\ th' \in [Proc -> Locals] /\ \A u \in Proc \ {t} : th'[u] = th[u]
        /\ th'[t].op = l /\ th'[t].pg = p /\ th'[t].f = page[p].frame
        /\ th'[t].pc = IF page[p].frame # NULL THEN "flock" ELSE "drop"
    BY <1>2, <2>1, <2>2, FrameLockSets, Zenon
  <2>4. TypeOK'  BY <1>1, <1>2, <2>3, Zenon DEF TypeOK
  <2>5. AliveOK(t)'  BY <1>1, <1>2, <2>2, <2>3, AliveStays, Zenon DEF Giving
  <2>6. page[p].frame \in Frame \cup {NULL}  BY <1>2, <2>2, Types, Zenon
  <2>7. l # "fault"  BY Zenon
  <2>8. ThreadOK(t)'
    BY <1>1, <2>1, <2>2, <2>3, <2>5, <2>6, <2>7, Zenon
       DEF ThreadOK, OwnPage, FlockOK, ScanOK, EvictOK, GivenOK, SetOK, DropOK, SetupOK
  <2> QED BY <1>1, <1>2, <2>3, <2>4, <2>8, LocalStep, Zenon DEF AssertsHold
<1>4. CASE th' = [th EXCEPT ![t] =
                    [Idle EXCEPT !.pc = IF l = "dealloc" THEN "destroy" ELSE "exited"]]
  <2>1. PICK m \in {"destroy", "exited"} : m = IF l = "dealloc" THEN "destroy" ELSE "exited"
    BY Zenon
  <2>2. PICK r : r = [Idle EXCEPT !.pc = m]  BY Zenon
  <2>3. 0 \in Nat /\ 0 \in 0 .. 3  OBVIOUS
  <2>4. r \in Locals /\ r.pc = m  BY <2>2, <2>3, Zenon DEF Idle, Locals, Label, Op
  <2>5. th' = [th EXCEPT ![t] = r]  BY <1>4, <2>1, <2>2, Zenon
  <2>6. th' \in [Proc -> Locals] /\ th'[t] = r /\ \A u \in Proc \ {t} : th'[u] = th[u]
    BY <1>2, <2>4, <2>5, Assigned, Zenon
  <2>7. TypeOK'  BY <1>1, <1>2, <2>6, Zenon DEF TypeOK
  <2>8. AliveOK(t)'  BY <1>1, <1>2, <2>4, <2>6, AliveStays, Zenon DEF Giving
  <2>9. ThreadOK(t)'  BY <2>4, <2>6, <2>8, Outside, Zenon
  <2> QED BY <1>1, <1>2, <2>6, <2>7, <2>9, LocalStep, Zenon DEF AssertsHold
<1> QED BY <1>1, <1>3, <1>4, Zenon

-----------------------------------------------------------------------------
(***************************************************************************)
(* The actions that lock or take a frame                                   *)
(***************************************************************************)

\* The locals of a thread that is back in user mode.
LEMMA IdleTypes == Idle \in Locals /\ Idle.pc = "user"
<1>1. 0 \in Nat /\ 0 \in 0 .. 3  OBVIOUS
<1> QED BY <1>1, Zenon DEF Idle, Locals, Label, Op

\* What locking a frame does to the frame table.
LEMMA Locking ==
  ASSUME TypeOK, NEW t \in Proc, NEW f \in Frame, frame' = [frame EXCEPT ![f].lock = t]
  PROVE  /\ frame' \in [Frame -> FrameRecord]
         /\ frame'[f].lock = t /\ frame'[f].page = frame[f].page
         /\ \A g \in Frame \ {f} : frame'[g] = frame[g]
<1>1. PICK r : r = [frame[f] EXCEPT !.lock = t]  BY Zenon
<1>2. r \in FrameRecord /\ r.lock = t /\ r.page = frame[f].page
  BY <1>1, Types, Zenon DEF FrameRecord
<1>3. frame' = [frame EXCEPT ![f] = r]  BY <1>1, Zenon DEF TypeOK
<1> QED BY <1>2, <1>3, Zenon DEF TypeOK

\* What unlocking a frame does.
LEMMA Unlocking ==
  ASSUME TypeOK, NEW f \in Frame, frame' = [frame EXCEPT ![f].lock = NULL]
  PROVE  /\ frame' \in [Frame -> FrameRecord]
         /\ frame'[f].lock = NULL /\ frame'[f].page = frame[f].page
         /\ \A g \in Frame \ {f} : frame'[g] = frame[g]
<1>1. PICK r : r = [frame[f] EXCEPT !.lock = NULL]  BY Zenon
<1>2. r \in FrameRecord /\ r.lock = NULL /\ r.page = frame[f].page
  BY <1>1, Types, Zenon DEF FrameRecord
<1>3. frame' = [frame EXCEPT ![f] = r]  BY <1>1, Zenon DEF TypeOK
<1> QED BY <1>2, <1>3, Zenon DEF TypeOK

\* The lock of a frame changes hands between its thread and nobody, and no page moves.
LEMMA LockStep ==
  ASSUME TablesInv, TypeOK', AssertsHold', NEW t \in Proc, NEW f \in Frame,
         UNCHANGED <<kind, page, swap>>,
         \A p \in Page : (pte'[p].P => pte[p].P) /\ pte'[p].frame = pte[p].frame,
         \A p \in Page : page[p].alive /\ page[p].frame # NULL
                            => mem'[page[p].frame] \in {p} \X Version,
         frame[f].lock \in {t, NULL}, frame[f].page # NULL, Matched(frame[f].page, f),
         frame'[f].page = frame[f].page, \A g \in Frame \ {f} : frame'[g] = frame[g],
         \A u \in Proc \ {t} : th'[u] = th[u], th[t].pc \notin {"given", "drop"}, ThreadOK(t)'
  PROVE  TablesInv'
<1>1. \A p \in Page :
        /\ page[p].alive /\ page[p].frame # NULL
             => frame'[page[p].frame].page = p /\ mem'[page[p].frame] \in {p} \X Version
        /\ page[p].sector # NULL => swap'[page[p].sector] \in {p} \X Version
  <2> TAKE p \in Page
  <2>1. PageOK(p) /\ StorageOK(p) /\ page[p].frame \in Frame \cup {NULL}
    BY Types, Zenon DEF TablesInv
  <2>2. page[p].frame # NULL => frame'[page[p].frame].page = frame[page[p].frame].page
    BY <2>1, Zenon
  <2> QED BY <2>1, <2>2, Zenon DEF PageOK, StorageOK
<1>2. Works(t, {f}, {})  BY <1>1, Zenon DEF Works
<1>3. FrameOK(f)'  BY Zenon DEF FrameOK, Matched
<1>4. \A s \in Slot : SlotOK(s)'  BY Zenon DEF TablesInv, SlotOK
<1>5. {f} \in SUBSET Frame /\ {} \in SUBSET Page  BY Zenon
<1>6. \A g \in {f} : FrameOK(g)'  BY <1>3, Zenon
<1>7. \A p \in {} : PageOK(p)' /\ StorageOK(p)'  BY Zenon
<1> QED BY <1>2, <1>4, <1>5, <1>6, <1>7, WorkStep, ZenonT(60)

\* frame_lock has acquired the lock, and looks again whether the page is still in the
\* frame.
LEMMA FrameLockedKeeps ==
  ASSUME TablesInv, NEW t \in Proc, FrameLocked(t)
  PROVE  TablesInv'
<1>0. PICK f, p, op : f = th[t].f /\ p = th[t].pg /\ op = th[t].op  BY Zenon
<1>1. /\ TypeOK /\ ThreadOK(t) /\ halt = "no" /\ th[t].pc = "flock" /\ th[t] \in Locals
      /\ UNCHANGED <<page, pte, mem, swap, disk, latest, scan_lock, hand, faults, kind>>
  BY Types, Zenon DEF TablesInv, FrameLocked, At, storage, clock
<1>2. /\ p \in ListOf(t) /\ p \in Page /\ page[p].alive /\ f \in Frame
      /\ page[p].frame \in {f, NULL} /\ op \in {"fault", "read", "write"} \cup GivesUp
      /\ op = "fault" => ~pte[p].P
  BY <1>0, <1>1, OneOwner, Zenon DEF ThreadOK, OwnPage, FlockOK
<1>3. CASE /\ frame[f].lock = NULL /\ page[p].frame = f
           /\ frame' = [frame EXCEPT ![f].lock = t]
           /\ Goto(t, After(op, p)) /\ halt' = halt
  <2>1. frame[f].page = p /\ p # NULL /\ f # NULL
    BY <1>1, <1>2, <1>3, Types, Zenon DEF TablesInv, PageOK
  <2>2. /\ frame' \in [Frame -> FrameRecord]
        /\ frame'[f].lock = t /\ frame'[f].page = p
        /\ \A g \in Frame \ {f} : frame'[g] = frame[g]
    BY <1>1, <1>2, <1>3, <2>1, Locking, ZenonT(60)
  <2>3. PICK l \in {"set", "clear", "drop", "kernel"} : l = After(op, p)  BY Zenon DEF After
  <2>4. PICK r : r = [th[t] EXCEPT !.pc = l]  BY Zenon
  <2>5. r \in Locals /\ r.pc = l /\ r.op = op /\ r.pg = p /\ r.f = f
    BY <1>0, <1>1, <2>4, Zenon DEF Locals, Label
  <2>6. th' = [th EXCEPT ![t] = r]  BY <1>1, <1>3, <2>3, <2>4, Zenon DEF Goto, TypeOK
  <2>7. th' \in [Proc -> Locals] /\ th'[t] = r /\ \A u \in Proc \ {t} : th'[u] = th[u]
    BY <1>1, <2>5, <2>6, Assigned, Zenon
  <2>8. TypeOK'  BY <1>1, <1>3, <2>2, <2>7, Zenon DEF TypeOK
  <2>9. Locked(t, f, p)'  BY <1>2, <2>2, Zenon DEF Locked
  <2>10. /\ l = "set" => op = "fault"
         /\ l = "clear" => op = "dealloc"
         /\ l = "drop" => op \in GivesUp
         /\ l = "kernel" => op \in {"read", "write"}
    BY <1>2, <2>3, Zenon DEF After, GivesUp
  <2>11. AliveOK(t)'
    <3>1. Giving(t) => Giving(t)'
      <4>1. Giving(t) => op \in GivesUp  BY <1>0, <1>1, Zenon DEF Giving
      <4>2. op \in GivesUp => l \in {"clear", "drop"}  BY <2>3, Zenon DEF After, GivesUp
      <4> QED BY <2>5, <2>7, <4>1, <4>2, Zenon DEF Giving
    <3> QED BY <1>1, <2>5, <2>7, <3>1, AliveStays, Zenon
  <2>12. OwnPage(t)' /\ FlockOK(t)' /\ ScanOK(t)' /\ GivenOK(t)' /\ SetupOK(t)'
    <3>1. op # "setup"  BY <1>2, Zenon DEF GivesUp
    <3> QED BY <1>1, <1>2, <2>5, <2>7, <3>1, Zenon
            DEF OwnPage, FlockOK, ScanOK, GivenOK, SetupOK
  <2>13. EvictOK(t)'
    BY <1>1, <1>2, <1>3, <2>5, <2>7, <2>9, <2>10, Zenon DEF EvictOK, Matched
  <2>14. SetOK(t)'
    BY <1>1, <1>2, <1>3, <2>5, <2>7, <2>9, <2>10, Zenon DEF SetOK
  <2>15. DropOK(t)'
    BY <1>1, <1>2, <1>3, <2>5, <2>7, <2>9, <2>10, Zenon DEF DropOK
  <2>16. ThreadOK(t)'  BY <2>11, <2>12, <2>13, <2>14, <2>15, Zenon DEF ThreadOK
  <2>17. /\ frame[f].page # NULL /\ Matched(frame[f].page, f)
         /\ frame'[f].page = frame[f].page /\ frame[f].lock \in {t, NULL}
    BY <1>2, <1>3, <2>1, <2>2, Zenon DEF Matched
  <2>18. AssertsHold' /\ th[t].pc \notin {"given", "drop"}
    BY <1>1, <1>3, Zenon DEF AssertsHold
  <2>19. \A q \in Page : page[q].alive /\ page[q].frame # NULL
                           => mem'[page[q].frame] \in {q} \X Version
    BY <1>1, Zenon DEF TablesInv, StorageOK
  <2> QED BY <1>1, <1>2, <2>2, <2>7, <2>8, <2>16, <2>17, <2>18, <2>19, LockStep, Zenon
<1>4. CASE /\ page[p].frame # f
           /\ th' = [th EXCEPT ![t].pc = IF op \in {"dealloc", "destroy"} THEN "drop" ELSE "scan",
                               ![t].f = NULL]
           /\ halt' = IF page[p].frame = NULL THEN halt ELSE "assert"
           /\ frame' = frame
  <2>1. page[p].frame = NULL /\ halt' = "no"  BY <1>1, <1>2, <1>4, Zenon
  <2>2. PICK l \in {"drop", "scan"} :
          /\ l = IF op \in {"dealloc", "destroy"} THEN "drop" ELSE "scan"
          /\ l = "drop" <=> op \in GivesUp
    BY Zenon DEF GivesUp
  <2>3. PICK r : r = [th[t] EXCEPT !.pc = l, !.f = NULL]  BY Zenon
  <2>4. r \in Locals /\ r.pc = l /\ r.op = op /\ r.pg = p /\ r.f = NULL
    BY <1>0, <1>1, <2>3, Zenon DEF Locals, Label
  <2>5. th' = [th EXCEPT ![t] = r]  BY <1>1, <1>4, <2>2, <2>3, Zenon DEF TypeOK
  <2>6. th' \in [Proc -> Locals] /\ th'[t] = r /\ \A u \in Proc \ {t} : th'[u] = th[u]
    BY <1>1, <2>4, <2>5, Assigned, Zenon
  <2>7. TypeOK'  BY <1>1, <1>4, <2>1, <2>6, Zenon DEF TypeOK, Halts
  <2>8. AliveOK(t)'
    <3>1. Giving(t) => Giving(t)'  BY <1>0, <1>1, <2>2, <2>4, <2>6, Zenon DEF Giving
    <3> QED BY <1>1, <2>4, <2>6, <3>1, AliveStays, Zenon
  <2>9. ThreadOK(t)'
    BY <1>1, <1>2, <2>1, <2>2, <2>4, <2>6, <2>8, Zenon
       DEF ThreadOK, OwnPage, FlockOK, ScanOK, EvictOK, GivenOK, SetOK, DropOK, SetupOK, Wants
  <2> QED BY <1>1, <1>4, <2>1, <2>6, <2>7, <2>9, LocalStep, Zenon DEF AssertsHold
<1>5. CASE halt' = "relock" /\ UNCHANGED <<frame, th>>
  <2>1. TypeOK'  BY <1>1, <1>5, Zenon DEF TypeOK, Halts
  <2> QED BY <1>1, <1>5, <2>1, StillStep, Zenon DEF AssertsHold
<1> QED BY <1>0, <1>3, <1>4, <1>5, Zenon DEF FrameLocked

\* The page a thread works on.
LEMMA Own ==
  ASSUME TablesInv, NEW t \in Proc,
         th[t].pc \in {"flock", "scan", "free", "clock", "clear", "save", "given", "set",
                       "kernel", "drop"}
  PROVE  /\ th[t].pg \in ListOf(t) /\ th[t].pg \in Page /\ th[t].pg # NULL
         /\ page[th[t].pg].alive
<1>1. th[t].pg \in ListOf(t) /\ page[th[t].pg].alive
  BY Zenon DEF TablesInv, ThreadOK, OwnPage
<1>2. th[t].pg \in Page  BY <1>1, OneOwner, Zenon
<1> QED BY <1>1, <1>2, Types, Zenon DEF TablesInv

\* A free frame is locked and taken for the thread's page.
LEMMA TakeStep ==
  ASSUME TablesInv, NEW t \in Proc, NEW f \in Frame, th[t].pc \in {"free", "clock"},
         frame[f].lock = NULL, frame[f].page = NULL,
         frame' = [frame EXCEPT ![f] = [page |-> th[t].pg, lock |-> t]],
         th' = [th EXCEPT ![t].pc = "given", ![t].f = f, ![t].i = 0],
         scan_lock' \in Proc \cup {NULL}, hand' \in Frame, halt = "no",
         UNCHANGED <<kind, page, pte, mem, swap, disk, latest, faults, halt>>
  PROVE  TablesInv'
<1>1. PICK p : p = th[t].pg  BY Zenon
<1>2. /\ TypeOK /\ ThreadOK(t) /\ th[t] \in Locals /\ 0 \in Nat
      /\ p \in ListOf(t) /\ p \in Page /\ p # NULL /\ page[p].alive
      /\ page[p].frame = NULL /\ th[t].op \in Wants
  <2>1. 0 \in Nat  OBVIOUS
  <2>2. p \in ListOf(t) /\ p \in Page /\ p # NULL /\ page[p].alive  BY <1>1, Own, Zenon
  <2>3. TypeOK /\ ThreadOK(t)  BY Zenon DEF TablesInv
  <2>4. page[p].frame = NULL /\ th[t].op \in Wants  BY <1>1, <2>3, Zenon DEF ThreadOK, ScanOK
  <2>5. th[t] \in Locals  BY <2>3, Types, Zenon
  <2> QED BY <2>1, <2>2, <2>3, <2>4, <2>5, Zenon
<1>3. PICK r : r = [th[t] EXCEPT !.pc = "given", !.f = f, !.i = 0]  BY Zenon
<1>4. r \in Locals /\ r.pc = "given" /\ r.f = f /\ r.op = th[t].op /\ r.pg = p
  BY <1>1, <1>2, <1>3, Zenon DEF Locals, Label
<1>5. th' = [th EXCEPT ![t] = r]  BY <1>2, <1>3, Zenon DEF TypeOK
<1>6. th' \in [Proc -> Locals] /\ th'[t] = r /\ \A u \in Proc \ {t} : th'[u] = th[u]
  BY <1>2, <1>4, <1>5, Assigned, Zenon
<1>7. /\ frame' \in [Frame -> FrameRecord] /\ frame'[f].page = p /\ frame'[f].lock = t
      /\ \A g \in Frame \ {f} : frame'[g] = frame[g]
  <2>1. PICK c : c = [page |-> p, lock |-> t]  BY Zenon
  <2>2. c \in FrameRecord /\ c.page = p /\ c.lock = t  BY <1>2, <2>1, Zenon DEF FrameRecord
  <2>3. frame' = [frame EXCEPT ![f] = c]  BY <1>1, <2>1, Zenon
  <2> QED BY <1>2, <2>2, <2>3, ZenonT(60) DEF TypeOK
<1>8. TypeOK' /\ AssertsHold'  BY <1>2, <1>6, <1>7, Zenon DEF TypeOK, AssertsHold
<1>9. Locked(t, f, p)'  BY <1>7, Zenon DEF Locked
<1>10. AliveOK(t)'  BY <1>2, <1>4, <1>6, AliveStays, Zenon DEF Giving
<1>11. ThreadOK(t)'
  <2>1. SetupOK(t)'  BY <1>1, <1>2, <1>4, <1>6, SetupStays, Zenon
  <2> QED BY <1>2, <1>4, <1>6, <1>9, <1>10, <2>1, Zenon
          DEF ThreadOK, OwnPage, FlockOK, ScanOK, EvictOK, GivenOK, SetOK, DropOK
<1>12. FrameOK(f)'  BY <1>2, <1>4, <1>6, <1>7, Zenon DEF FrameOK, InTransit
<1>13. \A q \in Page :
         /\ page[q].alive /\ page[q].frame # NULL
              => frame'[page[q].frame].page = q /\ mem'[page[q].frame] \in {q} \X Version
         /\ page[q].sector # NULL => swap'[page[q].sector] \in {q} \X Version
  <2> TAKE q \in Page
  <2>1. PageOK(q) /\ StorageOK(q) /\ page[q].frame \in Frame \cup {NULL} /\ q # NULL
    BY <1>2, Types, Zenon DEF TablesInv
  <2>2. page[q].alive /\ page[q].frame # NULL => frame'[page[q].frame].page = q
    BY <1>7, <2>1, Zenon DEF PageOK
  <2> QED BY <2>1, <2>2, Zenon DEF StorageOK
<1>14. Works(t, {f}, {})  BY <1>6, <1>7, <1>13, Zenon DEF Works
<1>15. \A s \in Slot : SlotOK(s)'  BY Zenon DEF TablesInv, SlotOK
<1>16. {f} \in SUBSET Frame /\ {} \in SUBSET Page  BY Zenon
<1>17. \A g \in {f} : FrameOK(g)'  BY <1>12, Zenon
<1>18. \A q \in {} : PageOK(q)' /\ StorageOK(q)'  BY Zenon
<1> QED BY <1>8, <1>11, <1>14, <1>15, <1>16, <1>17, <1>18, WorkStep, Zenon

\* The first loop of try_frame_alloc_and_lock takes a free frame, or goes on.
LEMMA FindFreeKeeps ==
  ASSUME TablesInv, NEW t \in Proc, FindFree(t)
  PROVE  TablesInv'
<1>1. CASE ~(frame[th[t].i].lock = NULL /\ frame[th[t].i].page = NULL)
  BY <1>1, SkipKeeps, Zenon
<1>2. CASE frame[th[t].i].lock = NULL /\ frame[th[t].i].page = NULL
  <2>1. /\ TypeOK /\ halt = "no" /\ th[t].pc = "free"
        /\ frame' = [frame EXCEPT ![th[t].i] = [page |-> th[t].pg, lock |-> t]]
        /\ scan_lock' = NULL
        /\ th' = [th EXCEPT ![t].pc = "given", ![t].f = th[t].i, ![t].i = 0]
        /\ UNCHANGED <<page, pte, mem, swap, disk, latest, hand, faults, kind, halt>>
    BY <1>2, Zenon DEF TablesInv, FindFree, At, storage
  <2>2. th[t].i \in Frame
    <3>1. th[t].i \in Nat /\ th[t].i < FrameCnt /\ FrameCnt \in Nat
      BY <2>1, Types, PagingAssumption, Zenon DEF TablesInv, ThreadOK, ScanOK
    <3> QED BY <3>1 DEF Frame
  <2>3. hand \in Frame  BY <2>1, Zenon DEF TypeOK
  <2>4. PICK f \in Frame : f = th[t].i  BY <2>2, Zenon
  <2>5. /\ frame[f].lock = NULL /\ frame[f].page = NULL
        /\ frame' = [frame EXCEPT ![f] = [page |-> th[t].pg, lock |-> t]]
        /\ th' = [th EXCEPT ![t].pc = "given", ![t].f = f, ![t].i = 0]
    BY <1>2, <2>1, <2>4, Zenon
  <2> QED BY <2>1, <2>3, <2>5, TakeStep, Zenon
<1> QED BY <1>1, <1>2, Zenon

\* The page in an unlocked frame is matched with it.
LEMMA Unclaimed ==
  ASSUME TablesInv, NEW f \in Frame, frame[f].lock = NULL, frame[f].page # NULL
  PROVE  frame[f].page \in Page /\ Matched(frame[f].page, f)
<1>1. FrameOK(f) /\ frame[f].page \in Page /\ NULL \notin Proc
  BY Types, Zenon DEF TablesInv
<1> QED BY <1>1, Zenon DEF FrameOK, InTransit

\* The clock locks the frame of the page it is going to evict.
LEMMA VictimStep ==
  ASSUME TablesInv, NEW t \in Proc, NEW f \in Frame, NEW v \in Page, th[t].pc = "clock",
         frame[f].lock = NULL, frame[f].page = v, Matched(v, f), v # NULL,
         frame' = [frame EXCEPT ![f].lock = t],
         th' = [th EXCEPT ![t].pc = "clear", ![t].f = f, ![t].i = 0],
         scan_lock' \in Proc \cup {NULL}, hand' \in Frame, halt = "no",
         UNCHANGED <<kind, page, pte, mem, swap, disk, latest, faults, halt>>
  PROVE  TablesInv'
<1>1. TypeOK /\ ThreadOK(t)  BY Zenon DEF TablesInv
<1>2. 0 \in Nat  OBVIOUS
<1>3. th[t] \in Locals /\ th[t].op \in Wants /\ page[th[t].pg].frame = NULL
  BY <1>1, Types, Zenon DEF ThreadOK, ScanOK
<1>4. PICK r : r = [th[t] EXCEPT !.pc = "clear", !.f = f, !.i = 0]  BY Zenon
<1>5. r \in Locals /\ r.pc = "clear" /\ r.f = f /\ r.op = th[t].op /\ r.pg = th[t].pg
  BY <1>2, <1>3, <1>4, Zenon DEF Locals, Label
<1>6. th' = [th EXCEPT ![t] = r]  BY <1>1, <1>4, Zenon DEF TypeOK
<1>7. th' \in [Proc -> Locals] /\ th'[t] = r /\ \A u \in Proc \ {t} : th'[u] = th[u]
  BY <1>1, <1>5, <1>6, Assigned, Zenon
<1>8. /\ frame' \in [Frame -> FrameRecord] /\ frame'[f].lock = t /\ frame'[f].page = v
      /\ \A g \in Frame \ {f} : frame'[g] = frame[g]
  BY <1>1, Locking, Zenon
<1>9. TypeOK' /\ AssertsHold'  BY <1>1, <1>7, <1>8, Zenon DEF TypeOK, AssertsHold
<1>10. Locked(t, f, v)' /\ Matched(v, f)'  BY <1>8, Zenon DEF Locked, Matched
<1>11. AliveOK(t)'  BY <1>1, <1>5, <1>7, AliveStays, Zenon DEF Giving
<1>12. EvictOK(t)'  BY <1>3, <1>5, <1>7, <1>10, ZenonT(60) DEF EvictOK
<1>13. OwnPage(t)'  BY <1>1, <1>5, <1>7, Zenon DEF ThreadOK, OwnPage
<1>14. ThreadOK(t)'
  <2>1. SetupOK(t)'  BY <1>1, <1>5, <1>7, SetupStays, Zenon
  <2> QED BY <1>5, <1>7, <1>11, <1>12, <1>13, <2>1, Zenon
          DEF ThreadOK, FlockOK, ScanOK, GivenOK, SetOK, DropOK
<1>15. frame[f].page # NULL /\ Matched(frame[f].page, f) /\ frame'[f].page = frame[f].page
  BY <1>8, Zenon
<1>16. \A p \in Page : page[p].alive /\ page[p].frame # NULL
                         => mem'[page[p].frame] \in {p} \X Version
  BY Zenon DEF TablesInv, StorageOK
<1> QED BY <1>7, <1>8, <1>9, <1>14, <1>15, <1>16, LockStep, Zenon

\* The clock skips a frame, takes a free one, or has found the page to evict.
LEMMA ClockKeeps ==
  ASSUME TablesInv, NEW t \in Proc, Clock(t)
  PROVE  TablesInv'
<1>1. PICK f \in Frame : f = hand /\ NextHand \in Frame
  BY HandMoves, Zenon DEF TablesInv, TypeOK
<1>2. /\ TypeOK /\ At(t, "clock") /\ halt = "no" /\ th[t].pc = "clock" /\ hand' = NextHand
      /\ UNCHANGED <<page, storage, faults, kind>>
      /\ UNCHANGED <<mem, swap, disk, latest>>
  BY Zenon DEF TablesInv, Clock, At, storage
<1>3. CASE /\ IF th[t].i + 1 >= 2 * FrameCnt THEN Retry(t) /\ scan_lock' = NULL
              ELSE th' = [th EXCEPT ![t].i = @ + 1] /\ UNCHANGED scan_lock
           /\ UNCHANGED <<frame, pte, halt>>
  <2>1. pte' \in [Page -> PteRecord] /\ halt' \in Halts  BY <1>2, <1>3, Zenon DEF TypeOK
  <2> QED BY <1>2, <1>3, <2>1, ClockSkips, Zenon
<1>4. CASE /\ frame[f].lock = NULL /\ frame[f].page = NULL
           /\ frame' = [frame EXCEPT ![f] = [page |-> th[t].pg, lock |-> t]]
           /\ scan_lock' = NULL
           /\ th' = [th EXCEPT ![t].pc = "given", ![t].f = f, ![t].i = 0]
           /\ UNCHANGED <<pte, halt>>
  BY <1>1, <1>2, <1>4, TakeStep, Zenon
<1>5. ASSUME frame[f].lock = NULL, frame[f].page # NULL,
             halt' = IF page[frame[f].page].frame = f THEN halt ELSE "assert"
      PROVE  /\ frame[f].page \in Page /\ Matched(frame[f].page, f)
             /\ halt' = halt
  <2>1. frame[f].page \in Page /\ Matched(frame[f].page, f)  BY <1>5, Unclaimed, Zenon
  <2>2. f # NULL  BY <1>2, Types, Zenon
  <2> QED BY <1>5, <2>1, <2>2, Zenon DEF Matched
<1>6. CASE /\ frame[f].lock = NULL /\ frame[f].page # NULL
           /\ halt' = IF page[frame[f].page].frame = f THEN halt ELSE "assert"
           /\ pagedir_set_accessed(frame[f].page, FALSE)
           /\ IF th[t].i + 1 >= 2 * FrameCnt THEN Retry(t) /\ scan_lock' = NULL
              ELSE th' = [th EXCEPT ![t].i = @ + 1] /\ UNCHANGED scan_lock
           /\ UNCHANGED frame
  <2>1. PICK v \in Page : v = frame[f].page /\ halt' = halt  BY <1>5, <1>6, Zenon
  <2>2. PICK r : r = [pte[v] EXCEPT !.A = FALSE]  BY Zenon
  <2>3. r \in PteRecord /\ r.P = pte[v].P /\ r.frame = pte[v].frame
    BY <1>2, <2>2, Types, Zenon DEF PteRecord
  <2>4. pte' = [pte EXCEPT ![v] = r]
    BY <1>2, <1>6, <2>1, <2>2, Zenon DEF pagedir_set_accessed, TypeOK
  <2>5. /\ pte' \in [Page -> PteRecord]
        /\ \A p \in Page : (pte'[p].P => pte[p].P) /\ pte'[p].frame = pte[p].frame
    BY <1>2, <2>3, <2>4, Zenon DEF TypeOK
  <2>6. halt' # "assert" /\ halt' \in Halts  BY <1>2, <2>1, Zenon DEF TypeOK
  <2> QED BY <1>2, <1>6, <2>5, <2>6, ClockSkips, Zenon
<1>7. CASE /\ frame[f].lock = NULL /\ frame[f].page # NULL
           /\ halt' = IF page[frame[f].page].frame = f THEN halt ELSE "assert"
           /\ frame' = [frame EXCEPT ![f].lock = t]
           /\ scan_lock' = NULL
           /\ th' = [th EXCEPT ![t].pc = "clear", ![t].f = f, ![t].i = 0]
           /\ UNCHANGED pte
  <2>1. PICK v \in Page : v = frame[f].page /\ Matched(v, f) /\ halt' = halt
    BY <1>5, <1>7, Zenon
  <2> QED BY <1>1, <1>2, <1>7, <2>1, VictimStep, Zenon
<1> QED BY <1>1, <1>3, <1>4, <1>6, <1>7, Zenon DEF Clock

-----------------------------------------------------------------------------
(***************************************************************************)
(* page_out                                                                *)
(***************************************************************************)

\* page_out has cleared the entry of the page.
LEMMA ClearKeeps ==
  ASSUME TablesInv, NEW t \in Proc, At(t, "clear"), pagedir_clear_page(frame[th[t].f].page),
         halt' = IF HoldsFrame(t, frame[th[t].f].page) THEN halt ELSE "assert",
         Goto(t, "save"), UNCHANGED <<page, frame, storage, clock>>
  PROVE  TablesInv'
<1>0. /\ TypeOK /\ ThreadOK(t) /\ halt = "no" /\ th[t].pc = "clear"
      /\ UNCHANGED <<page, frame, mem, swap, disk, latest, scan_lock, hand, faults, kind>>
  BY Zenon DEF TablesInv, At, storage, clock
<1>1. /\ TypeOK /\ ThreadOK(t) /\ halt = "no" /\ th[t].pc = "clear"
      /\ UNCHANGED <<page, frame, mem, swap, disk, latest, scan_lock, hand, faults, kind, halt>>
  <2>1. PICK v \in Page : Locked(t, th[t].f, v) /\ Matched(v, th[t].f)
    BY <1>0, Zenon DEF ThreadOK, EvictOK
  <2>2. HoldsFrame(t, frame[th[t].f].page)
    BY <1>0, <2>1, Types, Zenon DEF HoldsFrame, Locked, Matched
  <2> QED BY <1>0, <2>2, Zenon
<1>2. PICK v \in Page :
        /\ Locked(t, th[t].f, v) /\ Matched(v, th[t].f)
        /\ \/ th[t].op = "dealloc" /\ v = th[t].pg
           \/ th[t].op \in Wants /\ page[th[t].pg].frame = NULL
  BY <1>1, Zenon DEF ThreadOK, EvictOK
<1>3. PICK c : c = [pte[v] EXCEPT !.P = FALSE]  BY Zenon
<1>4. c \in PteRecord /\ ~c.P /\ c.frame = pte[v].frame
  BY <1>1, <1>3, Types, Zenon DEF PteRecord
<1>5. pte' = [pte EXCEPT ![v] = c]
  BY <1>1, <1>2, <1>3, Zenon DEF Locked, pagedir_clear_page, TypeOK
<1>6. /\ pte' \in [Page -> PteRecord] /\ ~pte'[v].P
      /\ \A p \in Page : (pte'[p].P => pte[p].P) /\ pte'[p].frame = pte[p].frame
  BY <1>1, <1>4, <1>5, Zenon DEF TypeOK
<1>7. PICK r : r = [th[t] EXCEPT !.pc = "save"]  BY Zenon
<1>8. r \in Locals /\ r.pc = "save" /\ r.f = th[t].f /\ r.op = th[t].op /\ r.pg = th[t].pg
  BY <1>1, <1>7, Types, ZenonT(60) DEF Locals, Label
<1>9. th' = [th EXCEPT ![t] = r]  BY <1>1, <1>7, Zenon DEF Goto, TypeOK
<1>10. th' \in [Proc -> Locals] /\ th'[t] = r /\ \A u \in Proc \ {t} : th'[u] = th[u]
  BY <1>1, <1>8, <1>9, Assigned, Zenon
<1>11. TypeOK' /\ AssertsHold'  BY <1>1, <1>6, <1>10, Zenon DEF TypeOK, AssertsHold
<1>12. AliveOK(t)'
  <2>1. Giving(t) => Giving(t)'  BY <1>1, <1>8, <1>10, Zenon DEF Giving
  <2> QED BY <1>1, <1>8, <1>10, <2>1, AliveStays, Zenon
<1>13. PICK f : f = th[t].f  BY Zenon
<1>14. EvictOK(t)'
  <2>1. Locked(t, f, v)' /\ Matched(v, f)'  BY <1>1, <1>2, <1>13, Zenon DEF Locked, Matched
  <2>2. th'[t].f = f  BY <1>8, <1>10, <1>13, Zenon
  <2> QED BY <1>1, <1>2, <1>6, <1>8, <1>10, <2>1, <2>2, Zenon DEF EvictOK
<1>15. OwnPage(t)'  BY <1>1, <1>8, <1>10, Zenon DEF ThreadOK, OwnPage
<1>16. ThreadOK(t)'
  <2>1. SetupOK(t)'  BY <1>1, <1>8, <1>10, SetupStays, Zenon
  <2> QED BY <1>8, <1>10, <1>12, <1>14, <1>15, <2>1, Zenon
          DEF ThreadOK, FlockOK, ScanOK, GivenOK, SetOK, DropOK
<1> QED BY <1>1, <1>6, <1>10, <1>11, <1>16, LocalStep, Zenon

\* Page v leaves memory: for its file, or for a slot that was free.
Leaves(v) ==
  /\ page' \in [Page -> PageRecord] /\ swap' \in [Slot -> Data \cup {NULL}]
  /\ page'[v].frame = NULL /\ (page'[v].alive <=> page[v].alive)
  /\ \A q \in Page \ {v} : page'[q] = page[q]
  /\ \A q \in Page : page'[q].sector # NULL => swap'[page'[q].sector] \in {q} \X Version
  /\ \A s \in Slot : SlotOK(s)'

\* To its file, or it is not saved at all.
LEMMA LeavesUnswapped ==
  ASSUME TablesInv, NEW v \in Page, page' = [page EXCEPT ![v].frame = NULL], swap' = swap
  PROVE  Leaves(v)
<1>1. TypeOK  BY Zenon DEF TablesInv
<1>2. PICK r : r = [page[v] EXCEPT !.frame = NULL]  BY Zenon
<1>3. r \in PageRecord /\ r.frame = NULL /\ r.alive = page[v].alive /\ r.sector = page[v].sector
  BY <1>1, <1>2, Types, Zenon DEF PageRecord
<1>4. page' = [page EXCEPT ![v] = r]  BY <1>1, <1>2, Zenon DEF TypeOK
<1>5. /\ page' \in [Page -> PageRecord] /\ page'[v] = r
      /\ \A q \in Page \ {v} : page'[q] = page[q]
  BY <1>1, <1>3, <1>4, ZenonT(60) DEF TypeOK
<1>6. \A q \in Page : page'[q].sector = page[q].sector  BY <1>3, <1>5, Zenon
<1>7. \A q \in Page : page'[q].sector # NULL => swap'[page'[q].sector] \in {q} \X Version
  BY <1>6, Zenon DEF TablesInv, StorageOK
<1>8. ASSUME NEW s \in Slot PROVE SlotOK(s)'
  BY <1>1, <1>6, SlotOfPage, Zenon DEF TablesInv, SlotOK
<1> QED BY <1>1, <1>3, <1>5, <1>7, <1>8, Zenon DEF Leaves, TypeOK

\* To a slot, which is not another page's.
LEMMA LeavesForSwap ==
  ASSUME TablesInv, NEW v \in Page, NEW f \in Frame, Matched(v, f), swap_out(v, f)
  PROVE  Leaves(v)
<1>1. TypeOK /\ f # NULL  BY Types, Zenon DEF TablesInv
<1>2. PICK s \in Slot :
        /\ swap[s] = NULL /\ swap' = [swap EXCEPT ![s] = mem[f]]
        /\ page' = [page EXCEPT ![v].sector = s, ![v].private = FALSE, ![v].file = FALSE,
                                ![v].frame = NULL]
  BY Zenon DEF swap_out, FirstFree, Room
<1>3. page[v].sector = NULL /\ mem[f] \in {v} \X Version
  BY <1>1, Zenon DEF TablesInv, StorageOK, Matched
<1>4. mem[f] \in Data /\ mem[f][1] = v /\ NULL \notin Data /\ mem[f] # NULL
  <2>1. mem[f] \in Page \X Version /\ mem[f][1] = v  BY <1>3
  <2> QED BY <2>1, PagingAssumption, Zenon DEF Data
<1>5. PICK r : r = [page[v] EXCEPT !.sector = s, !.private = FALSE, !.file = FALSE,
                                   !.frame = NULL]
  BY Zenon
<1>6. r \in PageRecord /\ r.frame = NULL /\ r.alive = page[v].alive /\ r.sector = s
  BY <1>1, <1>5, Types, Zenon DEF PageRecord
<1>7. page' = [page EXCEPT ![v] = r]  BY <1>1, <1>2, <1>5, Zenon DEF TypeOK
<1>8. /\ page' \in [Page -> PageRecord] /\ page'[v] = r
      /\ \A q \in Page \ {v} : page'[q] = page[q]
  BY <1>1, <1>6, <1>7, Zenon DEF TypeOK
<1>9. /\ swap' \in [Slot -> Data \cup {NULL}] /\ swap'[s] = mem[f]
      /\ \A z \in Slot \ {s} : swap'[z] = swap[z]
  BY <1>1, <1>2, <1>4, Zenon DEF TypeOK
<1>10. ASSUME NEW q \in Page, page'[q].sector # NULL
       PROVE  swap'[page'[q].sector] \in {q} \X Version
  <2>1. CASE q = v  BY <1>3, <1>6, <1>8, <1>9, <2>1, Zenon
  <2>2. CASE q # v
    <3>1. page'[q] = page[q] /\ page[q].sector \in Slot
      BY <1>1, <1>8, <1>10, <2>2, Types, Zenon
    <3>2. swap[page[q].sector] \in {q} \X Version
      BY <1>10, <3>1, Zenon DEF TablesInv, StorageOK
    <3>3. swap[page[q].sector] \in Page \X Version  BY <3>2
    <3>4. page[q].sector # s  BY <1>2, <1>4, <3>3, Zenon DEF Data
    <3> QED BY <1>9, <3>1, <3>2, <3>4, Zenon
  <2> QED BY <2>1, <2>2, Zenon
<1>11. ASSUME NEW z \in Slot PROVE SlotOK(z)'
  <2>1. CASE z = s  BY <1>4, <1>6, <1>8, <1>9, <2>1, Zenon DEF SlotOK
  <2>2. CASE z # s
    <3>1. swap'[z] = swap[z] /\ SlotOK(z)  BY <1>9, <2>2, Zenon DEF TablesInv
    <3>2. swap[z] # NULL => /\ swap[z][1] \in Page /\ page[swap[z][1]].sector = z
                            /\ swap[z][1] # v
      <4>1. z # NULL  BY <1>1, Types, Zenon
      <4> QED BY <1>1, <1>3, <3>1, <4>1, SlotOfPage, Zenon DEF SlotOK
    <3> QED BY <1>8, <3>1, <3>2, Zenon DEF SlotOK
  <2> QED BY <2>1, <2>2, Zenon
<1> QED BY <1>6, <1>8, <1>9, <1>10, <1>11, Zenon DEF Leaves

\* The page has left the frame, which page_out holds for page_deallocate or for the page
\* that wants it.
LEMMA GoneStep ==
  ASSUME TablesInv, TypeOK', AssertsHold', NEW t \in Proc, NEW f \in Frame, NEW v \in Page,
         NEW p \in Page, Locked(t, f, v), Matched(v, f), ~pte[v].P, Leaves(v),
         th[t].pc = "save", th'[t].f = f, th'[t].pg = p, th'[t].pc \in {"given", "drop"},
         page'[p].alive, page'[p].frame = NULL, frame'[f].lock = t, frame'[f].page = p,
         \A g \in Frame \ {f} : frame'[g] = frame[g], UNCHANGED <<kind, pte, mem>>,
         \A u \in Proc \ {t} : th'[u] = th[u], ThreadOK(t)'
  PROVE  TablesInv'
<1>1. TypeOK /\ p # NULL /\ f # NULL /\ frame[f].lock = t /\ page[v].frame = f /\ page[v].alive
  BY Types, Zenon DEF TablesInv, Locked, Matched
<1>2. FrameOK(f)'  BY <1>1, Zenon DEF FrameOK, InTransit
<1>3. /\ page'[v].frame = NULL /\ (page'[v].alive <=> page[v].alive)
      /\ \A q \in Page \ {v} : page'[q] = page[q]
      /\ \A q \in Page : page'[q].sector # NULL => swap'[page'[q].sector] \in {q} \X Version
      /\ \A s \in Slot : SlotOK(s)'
  BY Zenon DEF Leaves
<1>4. PageOK(v)' /\ StorageOK(v)'  BY <1>3, Zenon DEF PageOK, StorageOK
<1>5. ASSUME NEW q \in Page \ {v}
      PROVE  /\ page'[q] = page[q]
             /\ (pte'[q].P => pte[q].P) /\ pte'[q].frame = pte[q].frame
             /\ page[q].alive /\ page[q].frame # NULL
                  => frame'[page[q].frame].page = q /\ mem'[page[q].frame] \in {q} \X Version
             /\ page[q].sector # NULL => swap'[page[q].sector] \in {q} \X Version
  <2>1. PageOK(q) /\ StorageOK(q) /\ page[q].frame \in Frame \cup {NULL} /\ page'[q] = page[q]
    BY <1>1, <1>3, Types, Zenon DEF TablesInv
  <2>2. page[q].alive /\ page[q].frame # NULL => page[q].frame # f  BY <1>1, OneFrame, Zenon
  <2>3. page[q].alive /\ page[q].frame # NULL => frame'[page[q].frame].page = q
    BY <2>1, <2>2, Zenon DEF PageOK
  <2>4. page[q].alive /\ page[q].frame # NULL => mem'[page[q].frame] \in {q} \X Version
    BY <2>1, Zenon DEF StorageOK
  <2>5. page[q].sector # NULL => swap'[page[q].sector] \in {q} \X Version
    <3>1. page'[q].sector # NULL => swap'[page'[q].sector] \in {q} \X Version  BY <1>3, Zenon
    <3> QED BY <2>1, <3>1, Zenon
  <2> QED BY <2>1, <2>3, <2>4, <2>5, Zenon
<1>6. /\ page[v].frame \in {f} /\ page'[v].frame \in {page[v].frame, NULL}
      /\ (page'[v].alive <=> page[v].alive) /\ (pte'[v].P => pte[v].P)
  BY <1>1, <1>3, Zenon
<1>7. Works(t, {f}, {v})
  <2>1. \A g \in {f} : frame[g].lock \in {t, NULL}  BY <1>1, Zenon
  <2>2. \A g \in Frame \ {f} : /\ frame'[g] = frame[g]
                               /\ frame[g].lock = t => th[t].pc \notin {"given", "drop"}
    BY Zenon
  <2> QED BY <1>5, <1>6, <2>1, <2>2, Zenon DEF Works
<1>8. {f} \in SUBSET Frame /\ {v} \in SUBSET Page  BY Zenon
<1>9. \A g \in {f} : FrameOK(g)'  BY <1>2, Zenon
<1>10. \A q \in {v} : PageOK(q)' /\ StorageOK(q)'  BY <1>4, Zenon
<1>11. \A s \in Slot : SlotOK(s)'  BY <1>3, Zenon
<1> QED BY <1>7, <1>8, <1>9, <1>10, <1>11, WorkStep, Zenon

\* What page_out does with the page, once it is clear that the kernel goes on: a page
\* that is not saved stays.
LEMMA SavesOrStays ==
  ASSUME TablesInv, NEW t \in Proc, NEW f \in Frame, NEW v \in Page, Matched(v, f),
         NEW dirty \in BOOLEAN, SavePage(t, v, f, dirty), halt = "no", halt' # "nofile",
         NEW p, p = th[t].pg
  PROVE  /\ halt' = halt /\ disk' \in [Page -> Version]
         /\ \/ /\ Leaves(v)
               /\ \/ /\ th[t].op = "dealloc" /\ Goto(t, "drop") /\ UNCHANGED frame
                  \/ /\ th[t].op # "dealloc" /\ Goto(t, "given")
                     /\ frame' = [frame EXCEPT ![f].page = p]
            \/ /\ UNCHANGED <<page, swap>>
               /\ \/ /\ th[t].op = "dealloc" /\ Goto(t, "drop") /\ UNCHANGED frame
                  \/ /\ th[t].op # "dealloc" /\ Retry(t)
                     /\ frame' = [frame EXCEPT ![f].lock = NULL]
<1> DEFINE private == page[v].private
           file == page[v].file
           wants == ~file \/ (dirty /\ private)
           ok == ~dirty \/ (file /\ (private => Room # {}))
<1>1. ~(dirty /\ ~file /\ (Room # {} \/ ~private))  BY Zenon DEF SavePage
<1>2. /\ halt' = halt
      /\ IF wants /\ Room # {}
         THEN swap_out(v, f)
         ELSE /\ page' = IF ok THEN [page EXCEPT ![v].frame = NULL] ELSE page
              /\ UNCHANGED swap
      /\ disk' = IF dirty /\ file /\ ~private THEN [disk EXCEPT ![v] = mem[f][2]] ELSE disk
      /\ IF th[t].op = "dealloc" THEN Goto(t, "drop") /\ UNCHANGED frame
         ELSE IF ok
         THEN /\ frame' = [frame EXCEPT ![f].page = p]
              /\ Goto(t, "given")
         ELSE frame' = [frame EXCEPT ![f].lock = NULL] /\ Retry(t)
  BY <1>1, Zenon DEF SavePage
<1>3. disk' \in [Page -> Version]
  <2>1. TypeOK /\ f # NULL  BY Types, Zenon DEF TablesInv
  <2>2. mem[f] \in {v} \X Version  BY <2>1, Zenon DEF TablesInv, StorageOK, Matched
  <2>3. mem[f][2] \in Version  BY <2>2
  <2> QED BY <1>2, <2>1, <2>3, Zenon DEF TypeOK
<1>4. CASE ok
  <2>1. Leaves(v)
    <3>1. CASE wants /\ Room # {}  BY <1>2, <3>1, LeavesForSwap, Zenon
    <3>2. CASE ~(wants /\ Room # {})
      BY <1>2, <1>4, <3>2, LeavesUnswapped, Zenon
    <3> QED BY <3>1, <3>2, Zenon
  <2> HIDE DEF ok, wants
  <2> QED BY <1>2, <1>3, <1>4, <2>1, Zenon
<1>5. CASE ~ok
  <2>1. ~(wants /\ Room # {})  BY <1>1, <1>5, Zenon
  <2> HIDE DEF ok, wants
  <2> QED BY <1>2, <1>3, <1>5, <2>1, Zenon
<1> QED BY <1>4, <1>5, Zenon

\* page_out saves the page it has taken the entry of, or the eviction fails.
LEMMA SaveKeeps ==
  ASSUME TablesInv, NEW t \in Proc, At(t, "save"), NEW dirty \in BOOLEAN,
         SavePage(t, frame[th[t].f].page, th[t].f, dirty), UNCHANGED <<pte, mem, clock, latest>>
  PROVE  TablesInv'
<1>1. /\ TypeOK /\ ThreadOK(t) /\ halt = "no" /\ th[t].pc = "save" /\ th[t] \in Locals
      /\ UNCHANGED <<pte, mem, latest, scan_lock, hand, faults, kind>>
  BY Types, Zenon DEF TablesInv, At, clock
<1>2. PICK v \in Page, f \in Frame :
        /\ f = th[t].f /\ Locked(t, f, v) /\ Matched(v, f) /\ ~pte[v].P
        /\ \/ th[t].op = "dealloc" /\ v = th[t].pg
           \/ th[t].op \in Wants /\ page[th[t].pg].frame = NULL
  BY <1>1, Zenon DEF ThreadOK, EvictOK, Locked
<1>3. /\ frame[f].page = v /\ frame[f].lock = t /\ page[v].frame = f /\ page[v].alive
      /\ v # NULL /\ f # NULL
  BY <1>1, <1>2, Types, Zenon DEF Locked, Matched
<1>4. SavePage(t, v, f, dirty)  BY <1>2, <1>3, Zenon
<1>5. PICK p \in Page : p = th[t].pg /\ p \in ListOf(t) /\ page[p].alive
  BY <1>1, Own, Zenon
<1>6. CASE halt' = "nofile"
  <2>1. UNCHANGED <<page, swap, disk, frame, th>>
    <3>1. halt' # halt  BY <1>1, <1>6, Zenon
    <3> QED BY <1>4, <3>1, Zenon DEF SavePage
  <2>2. TypeOK'  BY <1>1, <1>6, <2>1, Zenon DEF TypeOK, Halts
  <2> QED BY <1>1, <1>6, <2>1, <2>2, StillStep, Zenon DEF AssertsHold
<1>7. CASE halt' # "nofile"
  <2>0. Matched(v, f) /\ halt = "no" /\ p = th[t].pg  BY <1>1, <1>2, <1>5, Zenon
  <2>1. /\ halt' = halt /\ disk' \in [Page -> Version]
        /\ \/ /\ Leaves(v)
              /\ \/ /\ th[t].op = "dealloc" /\ Goto(t, "drop") /\ UNCHANGED frame
                 \/ /\ th[t].op # "dealloc" /\ Goto(t, "given")
                    /\ frame' = [frame EXCEPT ![f].page = p]
           \/ /\ UNCHANGED <<page, swap>>
              /\ \/ /\ th[t].op = "dealloc" /\ Goto(t, "drop") /\ UNCHANGED frame
                 \/ /\ th[t].op # "dealloc" /\ Retry(t)
                    /\ frame' = [frame EXCEPT ![f].lock = NULL]
    BY <1>4, <1>7, <2>0, SavesOrStays, SMTT(30)
  <2>2. AssertsHold'  BY <1>1, <2>1, Zenon DEF AssertsHold
  <2>3. ASSUME NEW l \in {"drop", "given"}, Goto(t, l)
        PROVE  /\ th' \in [Proc -> Locals] /\ \A u \in Proc \ {t} : th'[u] = th[u]
               /\ th'[t].pc = l /\ th'[t].op = th[t].op /\ th'[t].pg = p /\ th'[t].f = f
    <3>1. PICK r : r = [th[t] EXCEPT !.pc = l]  BY Zenon
    <3>2. r \in Locals /\ r.pc = l /\ r.op = th[t].op /\ r.pg = p /\ r.f = f
      BY <1>1, <1>2, <1>5, <3>1, Zenon DEF Locals, Label
    <3>3. th' = [th EXCEPT ![t] = r]  BY <1>1, <2>3, <3>1, Zenon DEF Goto, TypeOK
    <3> QED BY <1>1, <3>2, <3>3, Assigned, Zenon
  <2>4. CASE Leaves(v) /\ th[t].op = "dealloc" /\ Goto(t, "drop") /\ UNCHANGED frame
    <3>1. v = p  BY <1>2, <1>5, <2>4, Zenon DEF Wants
    <3>2. /\ th' \in [Proc -> Locals] /\ \A u \in Proc \ {t} : th'[u] = th[u]
          /\ th'[t].pc = "drop" /\ th'[t].op = "dealloc" /\ th'[t].pg = p /\ th'[t].f = f
      BY <2>3, <2>4, Zenon
    <3>3. TypeOK'  BY <1>1, <2>1, <2>4, <3>2, Zenon DEF TypeOK, Leaves
    <3>4. page'[p].alive /\ page'[p].frame = NULL  BY <1>3, <2>4, <3>1, Zenon DEF Leaves
    <3>5. Locked(t, f, p)'  BY <1>2, <2>4, <3>1, Zenon DEF Locked
    <3>6. ThreadOK(t)'
      <4>1. AliveOK(t)'  BY <3>2, Zenon DEF AliveOK, Giving, GivesUp
      <4> QED BY <1>5, <3>2, <3>4, <3>5, <4>1, Zenon
              DEF ThreadOK, OwnPage, FlockOK, ScanOK, EvictOK, GivenOK, SetOK, DropOK, SetupOK, GivesUp
    <3>7. frame'[f].lock = t /\ frame'[f].page = p /\ \A g \in Frame \ {f} : frame'[g] = frame[g]
      BY <1>3, <2>4, <3>1, Zenon
    <3> QED BY <1>1, <1>2, <2>2, <2>4, <3>2, <3>3, <3>4, <3>6, <3>7, GoneStep, Zenon
  <2>5. CASE /\ Leaves(v) /\ th[t].op # "dealloc" /\ Goto(t, "given")
             /\ frame' = [frame EXCEPT ![f].page = p]
    <3>1. th[t].op \in Wants /\ page[p].frame = NULL /\ v # p
      BY <1>2, <1>3, <1>5, <2>5, Zenon
    <3>2. /\ th' \in [Proc -> Locals] /\ \A u \in Proc \ {t} : th'[u] = th[u]
          /\ th'[t].pc = "given" /\ th'[t].op = th[t].op /\ th'[t].pg = p /\ th'[t].f = f
      BY <2>3, <2>5, Zenon
    <3>3. /\ frame' \in [Frame -> FrameRecord] /\ frame'[f].lock = t /\ frame'[f].page = p
          /\ \A g \in Frame \ {f} : frame'[g] = frame[g]
      <4>1. PICK c : c = [frame[f] EXCEPT !.page = p]  BY Zenon
      <4>2. c \in FrameRecord /\ c.lock = t /\ c.page = p
        BY <1>1, <1>3, <4>1, Types, Zenon DEF FrameRecord
      <4>3. frame' = [frame EXCEPT ![f] = c]  BY <1>1, <2>5, <4>1, Zenon DEF TypeOK
      <4> QED BY <1>1, <4>2, <4>3, Zenon DEF TypeOK
    <3>4. TypeOK'  BY <1>1, <2>1, <2>5, <3>2, <3>3, ZenonT(60) DEF TypeOK, Leaves
    <3>5. page'[p].alive /\ page'[p].frame = NULL  BY <1>5, <2>5, <3>1, Zenon DEF Leaves
    <3>6. Locked(t, f, p)'  BY <3>3, Zenon DEF Locked
    <3>7. AliveOK(t)'
      <4>1. ~Giving(t) /\ AliveOK(t)
        BY <1>1, <3>1, Zenon DEF ThreadOK, Giving, Wants, GivesUp
      <4>2. \A q \in ListOf(t) : q \in Page  BY OneOwner, Zenon
      <4>3. \A q \in ListOf(t) : \/ page'[q].alive
                                 \/ kind[q] = "grown" /\ page'[q].frame = NULL
        BY <2>5, <4>1, <4>2, ZenonT(60) DEF Leaves, AliveOK
      <4> QED BY <1>1, <3>2, <4>3, Zenon DEF AliveOK
    <3>8. ThreadOK(t)'
      <4>1. page'[p] = page[p]  BY <2>5, <3>1, Zenon DEF Leaves
      <4>2. SetupOK(t)'  BY <1>1, <1>5, <3>2, <4>1, SetupStays, Zenon
      <4> QED BY <1>5, <3>1, <3>2, <3>5, <3>6, <3>7, <4>2, Zenon
              DEF ThreadOK, OwnPage, FlockOK, ScanOK, EvictOK, GivenOK, SetOK, DropOK
    <3> QED BY <1>1, <1>2, <2>2, <2>5, <3>2, <3>3, <3>4, <3>5, <3>8, GoneStep, Zenon
  <2>6. CASE /\ UNCHANGED <<page, swap>> /\ th[t].op = "dealloc" /\ Goto(t, "drop")
             /\ UNCHANGED frame
    <3>1. v = p  BY <1>2, <1>5, <2>6, Zenon DEF Wants
    <3>2. /\ th' \in [Proc -> Locals] /\ \A u \in Proc \ {t} : th'[u] = th[u]
          /\ th'[t].pc = "drop" /\ th'[t].op = "dealloc" /\ th'[t].pg = p /\ th'[t].f = f
      BY <2>3, <2>6, Zenon
    <3>3. TypeOK'  BY <1>1, <2>1, <2>6, <3>2, ZenonT(60) DEF TypeOK
    <3>4. Locked(t, f, p)' /\ page'[p].frame = f
      BY <1>2, <1>3, <2>6, <3>1, Zenon DEF Locked
    <3>5. ThreadOK(t)'
      <4>1. AliveOK(t)'  BY <3>2, Zenon DEF AliveOK, Giving, GivesUp
      <4>2. page'[p].alive  BY <1>5, <2>6, ZenonT(60)
      <4> QED BY <1>5, <3>2, <3>4, <4>1, <4>2, ZenonT(60)
              DEF ThreadOK, OwnPage, FlockOK, ScanOK, EvictOK, GivenOK, SetOK, DropOK, SetupOK, GivesUp
    <3> QED BY <1>1, <2>2, <2>6, <3>2, <3>3, <3>5, LocalStep, Zenon
  <2>7. CASE /\ UNCHANGED <<page, swap>> /\ th[t].op # "dealloc" /\ Retry(t)
             /\ frame' = [frame EXCEPT ![f].lock = NULL]
    <3>1. th[t].op \in Wants /\ page[p].frame = NULL  BY <1>2, <1>5, <2>7, Zenon
    <3>2. /\ th' \in [Proc -> Locals] /\ \A u \in Proc \ {t} : th'[u] = th[u]
          /\ \/ th'[t].pc = "scan" /\ th'[t].op = th[t].op /\ th'[t].pg = p
             \/ th'[t].pc = "unmap"
      BY <1>1, <1>5, <2>7, Retries, Zenon
    <3>3. /\ frame' \in [Frame -> FrameRecord] /\ frame'[f].page = v
          /\ \A g \in Frame \ {f} : frame'[g] = frame[g]
      BY <1>1, <1>3, <2>7, Unlocking, Zenon
    <3>4. TypeOK'  BY <1>1, <2>1, <2>7, <3>2, <3>3, ZenonT(60) DEF TypeOK
    <3>5. ~Giving(t)  BY <1>1, <3>1, Zenon DEF Giving, Wants, GivesUp
    <3>6. AliveOK(t)'  BY <1>1, <2>7, <3>2, <3>5, AliveStays, Zenon
    <3>7. ThreadOK(t)'
      <4>1. CASE th'[t].pc = "unmap"  BY <3>6, <4>1, Outside, Zenon
      <4>2. CASE th'[t].pc = "scan" /\ th'[t].op = th[t].op /\ th'[t].pg = p
        <5>1. SetupOK(t)'  BY <1>1, <1>5, <2>7, <4>2, SetupStays, ZenonT(60)
        <5> QED BY <1>5, <2>7, <3>1, <3>6, <4>2, <5>1, ZenonT(60)
                DEF ThreadOK, OwnPage, FlockOK, ScanOK, EvictOK, GivenOK, SetOK, DropOK
      <4> QED BY <3>2, <4>1, <4>2, Zenon
    <3>8. /\ frame[f].page # NULL /\ Matched(frame[f].page, f)
          /\ frame'[f].page = frame[f].page /\ frame[f].lock \in {t, NULL}
      BY <1>2, <1>3, <3>3, Zenon
    <3>9. \A q \in Page : page[q].alive /\ page[q].frame # NULL
                            => mem'[page[q].frame] \in {q} \X Version
      BY <1>1, Zenon DEF TablesInv, StorageOK
    <3> QED BY <1>1, <2>2, <2>7, <3>2, <3>3, <3>4, <3>7, <3>8, <3>9, LockStep, ZenonT(60)
  <2> QED BY <2>1, <2>4, <2>5, <2>6, <2>7, Zenon
<1> QED BY <1>6, <1>7, Zenon

\* Both steps of page_out.
LEMMA PageOutKeeps ==
  ASSUME TablesInv, NEW t \in Proc, PageOut(t)
  PROVE  TablesInv'
<1>1. CASE /\ At(t, "clear") /\ pagedir_clear_page(frame[th[t].f].page) /\ Goto(t, "save")
           /\ halt' = IF HoldsFrame(t, frame[th[t].f].page) THEN halt ELSE "assert"
           /\ UNCHANGED <<page, frame, storage, clock>>
  BY <1>1, ClearKeeps, Zenon
<1>2. CASE /\ At(t, "save") /\ UNCHANGED <<pte, mem, clock, latest>>
           /\ SavePage(t, frame[th[t].f].page, th[t].f, pte[frame[th[t].f].page].D)
  <2>1. TypeOK /\ ThreadOK(t) /\ th[t].pc = "save"  BY <1>2, Zenon DEF TablesInv, At
  <2>2. frame[th[t].f].page \in Page
    BY <2>1, Zenon DEF ThreadOK, EvictOK, Locked
  <2>3. PICK c \in PteRecord : c = pte[frame[th[t].f].page]  BY <2>1, <2>2, Types, Zenon
  <2>4. c.D \in BOOLEAN  BY Zenon DEF PteRecord
  <2> QED BY <1>2, <2>3, <2>4, SaveKeeps, Zenon
<1> QED BY <1>1, <1>2, Zenon DEF PageOut, pagedir_is_dirty

-----------------------------------------------------------------------------
(***************************************************************************)
(* The page comes in                                                       *)
(***************************************************************************)

\* The page arrives in the frame its thread has locked for it.
LEMMA ArriveStep ==
  ASSUME TablesInv, TypeOK', AssertsHold', NEW t \in Proc, NEW f \in Frame, NEW p \in Page,
         p \in ListOf(t), th[t].f = f, Locked(t, f, p), page[p].frame = NULL,
         page'[p].frame = f, page'[p].alive, page'[p].sector = NULL,
         \A q \in Page \ {p} : page'[q] = page[q],
         mem'[f] \in {p} \X Version, \A g \in Frame \ {f} : mem'[g] = mem[g],
         frame'[f].page = p, \A g \in Frame \ {f} : frame'[g] = frame[g],
         \A q \in Page \ {p} : page[q].sector # NULL
                                 => swap'[page[q].sector] \in {q} \X Version,
         \A s \in Slot : SlotOK(s)', UNCHANGED <<kind, pte>>,
         \A u \in Proc \ {t} : th'[u] = th[u], ThreadOK(t)'
  PROVE  TablesInv'
<1>1. TypeOK /\ p # NULL /\ f # NULL /\ frame[f].lock = t /\ frame[f].page = p
  BY Types, Zenon DEF TablesInv, Locked
<1>2. FrameOK(f)'  BY <1>1, Zenon DEF FrameOK, Matched
<1>3. ~pte[p].P  BY Zenon DEF TablesInv, PageOK
<1>4. PageOK(p)' /\ StorageOK(p)'  BY <1>3, Zenon DEF PageOK, StorageOK
<1>5. ASSUME NEW q \in Page \ {p}
      PROVE  /\ page'[q] = page[q]
             /\ (pte'[q].P => pte[q].P) /\ pte'[q].frame = pte[q].frame
             /\ page[q].alive /\ page[q].frame # NULL
                  => frame'[page[q].frame].page = q /\ mem'[page[q].frame] \in {q} \X Version
             /\ page[q].sector # NULL => swap'[page[q].sector] \in {q} \X Version
  <2>1. PageOK(q) /\ StorageOK(q) /\ page[q].frame \in Frame \cup {NULL}
    BY <1>1, Types, Zenon DEF TablesInv
  <2>2. page[q].alive /\ page[q].frame # NULL
          => page[q].frame \in Frame \ {f} /\ frame[page[q].frame].page = q
    BY <1>1, <2>1, Zenon DEF PageOK
  <2>3. page[q].alive /\ page[q].frame # NULL => frame'[page[q].frame].page = q
    BY <2>2, Zenon
  <2>4. page[q].alive /\ page[q].frame # NULL => mem'[page[q].frame] \in {q} \X Version
    BY <2>1, <2>2, ZenonT(60) DEF StorageOK
  <2> QED BY <2>3, <2>4, Zenon
<1>6. Works(t, {f}, {p})
  <2>1. \A g \in {f} : frame[g].lock \in {t, NULL}  BY <1>1, Zenon
  <2>2. \A g \in Frame \ {f} : /\ frame'[g] = frame[g]
                               /\ frame[g].lock = t
                                    => th[t].f # g \/ th[t].pc \notin {"given", "drop"}
    BY Zenon
  <2> QED BY <1>5, <2>1, <2>2, Zenon DEF Works
<1>7. {f} \in SUBSET Frame /\ {p} \in SUBSET Page  BY Zenon
<1>8. \A g \in {f} : FrameOK(g)'  BY <1>2, Zenon
<1>9. \A q \in {p} : PageOK(q)' /\ StorageOK(q)'  BY <1>4, Zenon
<1> QED BY <1>6, <1>7, <1>8, <1>9, WorkStep, Zenon

\* What a thread that has been given a frame knows.
LEMMA Given ==
  ASSUME TablesInv, NEW t \in Proc, th[t].pc = "given"
  PROVE  \E p \in Page, f \in Frame :
           /\ p = th[t].pg /\ f = th[t].f /\ p \in ListOf(t) /\ page[p].alive
           /\ page[p].frame = NULL /\ Locked(t, f, p) /\ th[t].op \in Wants
           /\ frame[f].page = p /\ frame[f].lock = t /\ ~pte[p].P
<1>1. PICK p \in Page : p = th[t].pg /\ p \in ListOf(t) /\ page[p].alive  BY Own, Zenon
<1>2. th[t].op \in Wants /\ page[p].frame = NULL /\ Locked(t, th[t].f, p)
  BY <1>1, Zenon DEF TablesInv, ThreadOK, GivenOK
<1>3. ~pte[p].P  BY <1>2, Zenon DEF TablesInv, PageOK
<1> QED BY <1>1, <1>2, <1>3, Zenon DEF Locked

\* setup_stack has its frame.
LEMMA StackReadyKeeps ==
  ASSUME TablesInv, NEW t \in Proc, StackReady(t)
  PROVE  TablesInv'
<1>1. /\ TypeOK /\ ThreadOK(t) /\ halt = "no" /\ th[t].pc = "given" /\ th[t].op = "setup"
      /\ th' = [th EXCEPT ![t] = Idle]
      /\ UNCHANGED <<pte, swap, disk, scan_lock, hand, faults, kind, halt>>
  BY Zenon DEF TablesInv, StackReady, At, clock
<1>2. PICK p \in Page, f \in Frame :
        /\ p = th[t].pg /\ f = th[t].f /\ p \in ListOf(t) /\ page[p].alive
        /\ page[p].frame = NULL /\ Locked(t, f, p) /\ th[t].op \in Wants
        /\ frame[f].page = p /\ frame[f].lock = t /\ ~pte[p].P
  BY <1>1, Given, Zenon
<1>3. /\ page' = [page EXCEPT ![p].frame = f, ![p].private = FALSE]
      /\ mem' = [mem EXCEPT ![f] = <<p, 1>>]
      /\ latest' = [latest EXCEPT ![p] = 1]
      /\ frame' = [frame EXCEPT ![f].lock = NULL]
  BY <1>2, Zenon DEF StackReady, Unlocked
<1>4. page[p].sector = NULL  BY <1>1, <1>2, Zenon DEF ThreadOK, SetupOK
<1>5. /\ page' \in [Page -> PageRecord] /\ page'[p].frame = f /\ page'[p].alive
      /\ page'[p].sector = NULL /\ \A q \in Page \ {p} : page'[q] = page[q]
  <2>1. PICK r : r = [page[p] EXCEPT !.frame = f, !.private = FALSE]  BY Zenon
  <2>0. page[p] \in PageRecord /\ page[p].alive  BY <1>1, <1>2, Types, Zenon
  <2>2. r \in PageRecord /\ r.frame = f /\ r.alive /\ r.sector = NULL
    BY <1>4, <2>0, <2>1, Zenon DEF PageRecord
  <2>3. page' = [page EXCEPT ![p] = r]  BY <1>1, <1>3, <2>1, Zenon DEF TypeOK
  <2> QED BY <1>1, <2>2, <2>3, Zenon DEF TypeOK
<1>6. /\ mem' \in [Frame -> Data \cup {NULL}] /\ latest' \in [Page -> Version]
      /\ mem'[f] \in {p} \X Version /\ \A g \in Frame \ {f} : mem'[g] = mem[g]
  <2>1. 1 \in Version  BY DEF Version
  <2>2. <<p, 1>> \in Data /\ <<p, 1>> \in {p} \X Version  BY <2>1, Zenon DEF Data
  <2> QED BY <1>1, <1>3, <2>1, <2>2, Zenon DEF TypeOK
<1>7. /\ frame' \in [Frame -> FrameRecord] /\ frame'[f].page = p
      /\ \A g \in Frame \ {f} : frame'[g] = frame[g]
  BY <1>1, <1>2, <1>3, Unlocking, Zenon
<1>8. th' \in [Proc -> Locals] /\ th'[t].pc = "user" /\ \A u \in Proc \ {t} : th'[u] = th[u]
  BY <1>1, IdleTypes, Assigned, Zenon
<1>9. TypeOK' /\ AssertsHold'
  BY <1>1, <1>5, <1>6, <1>7, <1>8, Zenon DEF TypeOK, AssertsHold
<1>10. ThreadOK(t)'
  <2>1. AliveOK(t) /\ ~Giving(t)  BY <1>1, Zenon DEF ThreadOK, Giving
  <2>2. \A q \in ListOf(t) : q \in Page  BY OneOwner, Zenon
  <2>3. AliveOK(t)'  BY <1>1, <1>5, <2>1, <2>2, Zenon DEF AliveOK
  <2> QED BY <1>8, <2>3, Outside, Zenon
<1>11. \A q \in Page : page'[q].sector = page[q].sector  BY <1>4, <1>5, Zenon
<1>12. \A s \in Slot : SlotOK(s)'
  BY <1>1, <1>11, SlotOfPage, Zenon DEF TablesInv, SlotOK
<1>13. \A q \in Page \ {p} : page[q].sector # NULL
                               => swap'[page[q].sector] \in {q} \X Version
  BY <1>1, Zenon DEF TablesInv, StorageOK
<1>14. th[t].f = f  BY <1>2, Zenon
<1> QED BY <1>1, <1>2, <1>5, <1>6, <1>7, <1>8, <1>9, <1>10, <1>12, <1>13, <1>14, ArriveStep, ZenonT(60)

\* do_page_in has its frame and puts the contents there.
LEMMA FillKeeps ==
  ASSUME TablesInv, NEW t \in Proc, Fill(t)
  PROVE  TablesInv'
<1>1. /\ TypeOK /\ ThreadOK(t) /\ halt = "no" /\ th[t].pc = "given" /\ th[t].op # "setup"
      /\ Goto(t, "set")
      /\ UNCHANGED <<pte, frame, disk, latest, scan_lock, hand, faults, kind, halt>>
  BY Zenon DEF TablesInv, Fill, At, clock
<1>2. PICK p \in Page, f \in Frame :
        /\ p = th[t].pg /\ f = th[t].f /\ p \in ListOf(t) /\ page[p].alive
        /\ page[p].frame = NULL /\ Locked(t, f, p) /\ th[t].op \in Wants
        /\ frame[f].page = p /\ frame[f].lock = t /\ ~pte[p].P
  BY <1>1, Given, Zenon
<1>3. /\ IF page[p].sector # NULL
         THEN swap_in(f, page[p].sector)
         ELSE /\ mem' = [mem EXCEPT ![f] = <<p, IF page[p].file THEN disk[p] ELSE 0>>]
              /\ UNCHANGED swap
      /\ page' = [page EXCEPT ![p].frame = f, ![p].sector = NULL]
  BY <1>2, Zenon DEF Fill
<1>4. /\ page' \in [Page -> PageRecord] /\ page'[p].frame = f /\ page'[p].alive
      /\ page'[p].sector = NULL /\ \A q \in Page \ {p} : page'[q] = page[q]
  <2>1. PICK r : r = [page[p] EXCEPT !.frame = f, !.sector = NULL]  BY Zenon
  <2>0. page[p] \in PageRecord /\ page[p].alive  BY <1>1, <1>2, Types, Zenon
  <2>2. r \in PageRecord /\ r.frame = f /\ r.alive /\ r.sector = NULL
    BY <2>0, <2>1, Zenon DEF PageRecord
  <2>3. page' = [page EXCEPT ![p] = r]  BY <1>1, <1>3, <2>1, Zenon DEF TypeOK
  <2> QED BY <1>1, <2>2, <2>3, Zenon DEF TypeOK
<1>5. /\ mem' \in [Frame -> Data \cup {NULL}] /\ swap' \in [Slot -> Data \cup {NULL}]
      /\ mem'[f] \in {p} \X Version /\ \A g \in Frame \ {f} : mem'[g] = mem[g]
      /\ \A q \in Page \ {p} : page[q].sector # NULL
                                 => swap'[page[q].sector] \in {q} \X Version
      /\ \A s \in Slot : SlotOK(s)'
  <2>1. CASE page[p].sector = NULL
    <3>1. PICK n \in Version : n = IF page[p].file THEN disk[p] ELSE 0
      <4>1. 0 \in Version  BY DEF Version
      <4> QED BY <1>1, <4>1, Zenon DEF TypeOK
    <3>2. mem' = [mem EXCEPT ![f] = <<p, n>>] /\ swap' = swap  BY <1>3, <2>1, <3>1, Zenon
    <3>3. <<p, n>> \in Data /\ <<p, n>> \in {p} \X Version  BY Zenon DEF Data
    <3>4. \A q \in Page : page'[q].sector = page[q].sector  BY <1>4, <2>1, Zenon
    <3>5. \A s \in Slot : SlotOK(s)'
      BY <1>1, <3>2, <3>4, SlotOfPage, Zenon DEF TablesInv, SlotOK
    <3>6. \A q \in Page \ {p} : page[q].sector # NULL
                                  => swap'[page[q].sector] \in {q} \X Version
      BY <3>2, Zenon DEF TablesInv, StorageOK
    <3> QED BY <1>1, <3>2, <3>3, <3>5, <3>6, Zenon DEF TypeOK
  <2>2. CASE page[p].sector # NULL
    <3>1. PICK s \in Slot : s = page[p].sector  BY <1>1, <2>2, Types, Zenon
    <3>2. mem' = [mem EXCEPT ![f] = swap[s]] /\ swap' = [swap EXCEPT ![s] = NULL]
      BY <1>3, <2>2, <3>1, Zenon DEF swap_in
    <3>3. swap[s] \in {p} \X Version  BY <2>2, <3>1, Zenon DEF TablesInv, StorageOK
    <3>4. swap[s] \in Data /\ swap[s][1] = p  BY <3>3 DEF Data
    <3>5. swap'[s] = NULL /\ \A z \in Slot \ {s} : swap'[z] = swap[z]
      BY <1>1, <3>2, Zenon DEF TypeOK
    <3>6. ASSUME NEW q \in Page \ {p}, page[q].sector # NULL
          PROVE  swap'[page[q].sector] \in {q} \X Version
      <4>1. page[q].sector \in Slot /\ swap[page[q].sector] \in {q} \X Version
        BY <1>1, <3>6, Types, ZenonT(60) DEF TablesInv, StorageOK
      <4>2. swap[page[q].sector][1] = q  BY <4>1
      <4>3. page[q].sector # s  BY <3>4, <4>2, Zenon
      <4> QED BY <3>5, <4>1, <4>3, Zenon
    <3>7. ASSUME NEW z \in Slot PROVE SlotOK(z)'
      <4>1. CASE z = s  BY <3>5, <4>1, Zenon DEF SlotOK
      <4>2. CASE z # s
        <5>1. swap'[z] = swap[z] /\ SlotOK(z)  BY <3>5, <4>2, Zenon DEF TablesInv
        <5>2. swap[z] # NULL => /\ swap[z][1] \in Page /\ page[swap[z][1]].sector = z
                                /\ swap[z][1] # p
          BY <1>1, <3>1, <4>2, <5>1, SlotOfPage, ZenonT(60) DEF SlotOK
        <5> QED BY <1>4, <5>1, <5>2, Zenon DEF SlotOK
      <4> QED BY <4>1, <4>2, Zenon
    <3> QED BY <1>1, <3>2, <3>3, <3>4, <3>6, <3>7, ZenonT(60) DEF TypeOK
  <2> QED BY <2>1, <2>2, Zenon
<1>6. PICK r : r = [th[t] EXCEPT !.pc = "set"]  BY Zenon
<1>7. r \in Locals /\ r.pc = "set" /\ r.f = f /\ r.pg = p /\ r.op = th[t].op
  <2>1. th[t] \in Locals /\ th[t].f = f /\ th[t].pg = p  BY <1>1, <1>2, Types, ZenonT(60)
  <2> QED BY <1>6, <2>1, Zenon DEF Locals, Label
<1>8. th' = [th EXCEPT ![t] = r]  BY <1>1, <1>6, Zenon DEF Goto, TypeOK
<1>9. th' \in [Proc -> Locals] /\ th'[t] = r /\ \A u \in Proc \ {t} : th'[u] = th[u]
  BY <1>1, <1>7, <1>8, Assigned, Zenon
<1>10. TypeOK' /\ AssertsHold'
  BY <1>1, <1>4, <1>5, <1>9, ZenonT(60) DEF TypeOK, AssertsHold
<1>11. ThreadOK(t)'
  <2>1. AliveOK(t) /\ ~Giving(t)  BY <1>1, ZenonT(60) DEF ThreadOK, Giving
  <2>2. \A q \in ListOf(t) : q \in Page  BY OneOwner, Zenon
  <2>3. AliveOK(t)'  BY <1>1, <1>4, <2>1, <2>2, ZenonT(60) DEF AliveOK
  <2>4. Locked(t, f, p)'  BY <1>1, <1>2, Zenon DEF Locked
  <2>5. th[t].op \in {"fault", "read", "write"}  BY <1>1, <1>2, Zenon DEF Wants
  <2>6. SetOK(t)' /\ OwnPage(t)'
    BY <1>1, <1>2, <1>4, <1>7, <1>9, <2>4, <2>5, Zenon DEF SetOK, OwnPage
  <2> QED BY <1>7, <1>9, <2>3, <2>6, ZenonT(60)
          DEF ThreadOK, FlockOK, ScanOK, EvictOK, GivenOK, DropOK, SetupOK
<1>12. th[t].f = f /\ frame'[f].page = p /\ \A g \in Frame \ {f} : frame'[g] = frame[g]
  BY <1>1, <1>2, Zenon
<1> QED BY <1>1, <1>2, <1>4, <1>5, <1>9, <1>10, <1>11, <1>12, ArriveStep, ZenonT(60)

\* The entry of a page in the frame its thread has locked is set, or is not.
LEMMA SetPageKeeps ==
  ASSUME TablesInv, NEW t \in Proc, SetPage(t)
  PROVE  TablesInv'
<1>1. /\ TypeOK /\ ThreadOK(t) /\ halt = "no" /\ th[t].pc = "set" /\ th[t] \in Locals
      /\ UNCHANGED <<page, mem, swap, disk, latest, scan_lock, hand, faults, kind>>
  BY Types, Zenon DEF TablesInv, SetPage, At, storage, clock
<1>2. PICK p \in Page : p = th[t].pg /\ p \in ListOf(t) /\ page[p].alive  BY <1>1, Own, Zenon
<1>3. PICK f \in Frame :
        /\ f = th[t].f /\ Locked(t, f, p) /\ page[p].frame = f /\ ~pte[p].P
        /\ th[t].op \in {"fault", "read", "write"}
  BY <1>1, <1>2, Zenon DEF ThreadOK, SetOK, Locked
<1>4. frame[f].lock = t /\ frame[f].page = p /\ p # NULL /\ f # NULL
  BY <1>1, <1>3, Types, Zenon DEF Locked
<1>5. /\ frame' \in [Frame -> FrameRecord] /\ frame'[f].page = p
      /\ \A g \in Frame \ {f} : frame'[g] = frame[g]
      /\ th[t].op # "fault" => frame'[f].lock = t
  <2>1. CASE th[t].op = "fault"
    <3>1. frame' = [frame EXCEPT ![f].lock = NULL]  BY <1>3, <2>1, Zenon DEF SetPage, Unlocked
    <3> QED BY <1>1, <1>4, <2>1, <3>1, Unlocking, Zenon
  <2>2. CASE th[t].op # "fault"
    <3>1. frame' = frame  BY <2>2, Zenon DEF SetPage
    <3> QED BY <1>1, <1>4, <3>1, Zenon DEF TypeOK
  <2> QED BY <2>1, <2>2, Zenon
<1>6. /\ pte' \in [Page -> PteRecord] /\ \A q \in Page \ {p} : pte'[q] = pte[q]
      /\ pte'[p].P => pte'[p].frame = f
      /\ halt' = "no"
      /\ \/ pagedir_set_page(p, f)
            /\ th' = [th EXCEPT ![t] = IF th[t].op = "fault" THEN Idle
                                       ELSE [th[t] EXCEPT !.pc = "kernel"]]
         \/ th' = [th EXCEPT ![t] = [Idle EXCEPT !.pc = "unmap"]]
  <2>1. CASE /\ pagedir_set_page(p, f)
             /\ th' = [th EXCEPT ![t] = IF th[t].op = "fault" THEN Idle
                                        ELSE [@ EXCEPT !.pc = "kernel"]]
             /\ halt' = IF pte[p].P THEN "assert" ELSE halt
    <3>1. PICK c : c = [P |-> TRUE, A |-> FALSE, D |-> FALSE, frame |-> f]  BY Zenon
    <3>2. c \in PteRecord /\ c.frame = f  BY <3>1, Zenon DEF PteRecord
    <3>3. pte' = [pte EXCEPT ![p] = c]  BY <2>1, <3>1, Zenon DEF pagedir_set_page
    <3>4. /\ pte' \in [Page -> PteRecord] /\ \A q \in Page \ {p} : pte'[q] = pte[q]
          /\ pte'[p].frame = f
      BY <1>1, <3>2, <3>3, ZenonT(60) DEF TypeOK
    <3>5. th' = [th EXCEPT ![t] = IF th[t].op = "fault" THEN Idle
                                  ELSE [th[t] EXCEPT !.pc = "kernel"]]
      BY <1>1, <2>1, Zenon DEF TypeOK
    <3> QED BY <1>1, <1>3, <2>1, <3>4, <3>5, Zenon
  <2>2. CASE th' = [th EXCEPT ![t] = [Idle EXCEPT !.pc = "unmap"]] /\ UNCHANGED <<pte, halt>>
    BY <1>1, <1>3, <2>2, ZenonT(60) DEF TypeOK
  <2> QED BY <1>2, <1>3, <2>1, <2>2, ZenonT(60) DEF SetPage
<1>7. PICK r \in Locals :
        /\ th' = [th EXCEPT ![t] = r]
        /\ \/ r.pc \in {"user", "unmap"}
           \/ /\ r.pc = "kernel" /\ r.op = th[t].op /\ r.pg = p /\ r.f = f
              /\ th[t].op # "fault"
  <2>1. CASE th[t].op = "fault" /\ th' = [th EXCEPT ![t] = Idle]
    BY <2>1, IdleTypes, Zenon
  <2>2. CASE th[t].op # "fault" /\ th' = [th EXCEPT ![t] = [th[t] EXCEPT !.pc = "kernel"]]
    <3>1. PICK r : r = [th[t] EXCEPT !.pc = "kernel"]  BY Zenon
    <3>2. r \in Locals /\ r.pc = "kernel" /\ r.op = th[t].op /\ r.pg = p /\ r.f = f
      BY <1>1, <1>2, <1>3, <3>1, ZenonT(60) DEF Locals, Label
    <3> QED BY <2>2, <3>1, <3>2, Zenon
  <2>3. CASE th' = [th EXCEPT ![t] = [Idle EXCEPT !.pc = "unmap"]]
    <3>1. PICK r : r = [Idle EXCEPT !.pc = "unmap"]  BY Zenon
    <3>2. r \in Locals /\ r.pc = "unmap"  BY <3>1, IdleTypes, ZenonT(60) DEF Locals, Label
    <3> QED BY <2>3, <3>1, <3>2, Zenon
  <2> QED BY <1>6, <2>1, <2>2, <2>3, ZenonT(60)
<1>8. th' \in [Proc -> Locals] /\ th'[t] = r /\ \A u \in Proc \ {t} : th'[u] = th[u]
  BY <1>1, <1>7, Assigned, ZenonT(60)
<1>9. TypeOK' /\ AssertsHold'
  BY <1>1, <1>5, <1>6, <1>8, Zenon DEF TypeOK, AssertsHold, Halts
<1>10. ThreadOK(t)'
  <2>1. ~Giving(t) /\ th'[t].pc # "none"  BY <1>1, <1>7, <1>8, Zenon DEF Giving
  <2>2. AliveOK(t)'  BY <1>1, <2>1, AliveStays, Zenon
  <2>3. CASE r.pc \in {"user", "unmap"}  BY <1>8, <2>2, <2>3, Outside, ZenonT(60)
  <2>4. CASE /\ r.pc = "kernel" /\ r.op = th[t].op /\ r.pg = p /\ r.f = f
             /\ th[t].op # "fault"
    <3>1. Locked(t, f, p)'  BY <1>5, <2>4, Zenon DEF Locked
    <3>2. th[t].op \in {"read", "write"}  BY <1>3, <2>4, Zenon
    <3>3. SetOK(t)' /\ OwnPage(t)'
      BY <1>1, <1>2, <1>3, <1>8, <2>4, <3>1, <3>2, ZenonT(60) DEF SetOK, OwnPage
    <3> QED BY <1>8, <2>2, <2>4, <3>3, ZenonT(60)
            DEF ThreadOK, FlockOK, ScanOK, EvictOK, GivenOK, DropOK, SetupOK
  <2> QED BY <1>7, <2>3, <2>4, ZenonT(60)
<1>11. FrameOK(f)'  BY <1>1, <1>2, <1>3, <1>4, <1>5, Zenon DEF FrameOK, Matched
<1>12. PageOK(p)' /\ StorageOK(p)'
  <2>1. StorageOK(p)'  BY <1>1, Zenon DEF TablesInv, StorageOK
  <2> QED BY <1>1, <1>2, <1>3, <1>4, <1>5, <1>6, <2>1, ZenonT(60) DEF PageOK
<1>13. ASSUME NEW q \in Page \ {p}
       PROVE  /\ page'[q] = page[q]
              /\ (pte'[q].P => pte[q].P) /\ pte'[q].frame = pte[q].frame
              /\ page[q].alive /\ page[q].frame # NULL
                   => frame'[page[q].frame].page = q /\ mem'[page[q].frame] \in {q} \X Version
              /\ page[q].sector # NULL => swap'[page[q].sector] \in {q} \X Version
  <2>1. PageOK(q) /\ StorageOK(q) /\ page[q].frame \in Frame \cup {NULL}
    BY <1>1, Types, Zenon DEF TablesInv
  <2>2. page[q].alive /\ page[q].frame # NULL => frame'[page[q].frame].page = q
    BY <1>4, <1>5, <2>1, Zenon DEF PageOK
  <2>3. /\ page[q].alive /\ page[q].frame # NULL => mem'[page[q].frame] \in {q} \X Version
        /\ page[q].sector # NULL => swap'[page[q].sector] \in {q} \X Version
    BY <1>1, <2>1, Zenon DEF StorageOK
  <2> QED BY <1>1, <1>6, <2>2, <2>3, Zenon
<1>14. Works(t, {f}, {p})
  <2>1. \A g \in {f} : frame[g].lock \in {t, NULL}  BY <1>4, Zenon
  <2>2. \A g \in Frame \ {f} : /\ frame'[g] = frame[g]
                               /\ frame[g].lock = t
                                    => th[t].f # g \/ th[t].pc \notin {"given", "drop"}
    BY <1>1, <1>5, Zenon
  <2>3. kind' = kind /\ p \in ListOf(t) /\ page[p].frame \in {f} \cup {NULL}
    BY <1>1, <1>2, <1>3, Zenon
  <2> QED BY <1>8, <1>13, <2>1, <2>2, <2>3, ZenonT(60) DEF Works
<1>15. {f} \in SUBSET Frame /\ {p} \in SUBSET Page  BY Zenon
<1>16. \A g \in {f} : FrameOK(g)'  BY <1>11, Zenon
<1>17. \A q \in {p} : PageOK(q)' /\ StorageOK(q)'  BY <1>12, Zenon
<1>18. \A s \in Slot : SlotOK(s)'  BY <1>1, Zenon DEF TablesInv, SlotOK
<1> QED BY <1>9, <1>10, <1>14, <1>15, <1>16, <1>17, <1>18, WorkStep, ZenonT(60)

\* The kernel has used a page that page_lock locked, and unlocks it.
LEMMA KernelAccessKeeps ==
  ASSUME TablesInv, NEW t \in Proc, KernelAccess(t)
  PROVE  TablesInv'
<1>1. /\ TypeOK /\ ThreadOK(t) /\ halt = "no" /\ th[t].pc = "kernel"
      /\ UNCHANGED <<page, scan_lock, hand, faults, kind>>
  BY Zenon DEF TablesInv, KernelAccess, At, clock
<1>2. PICK p \in Page : p = th[t].pg /\ p \in ListOf(t) /\ page[p].alive  BY <1>1, Own, Zenon
<1>3. PICK f \in Frame : Locked(t, f, p) /\ page[p].frame = f
  BY <1>1, <1>2, Zenon DEF ThreadOK, SetOK, Locked
<1>4. frame[f].lock = t /\ frame[f].page = p /\ p # NULL /\ f # NULL /\ Matched(p, f)
  BY <1>1, <1>2, <1>3, Types, Zenon DEF Locked, Matched
<1>5. CASE ~pte[p].P
  <2>1. halt' = "fault" /\ UNCHANGED <<pte, mem, swap, disk, latest, frame, th>>
    BY <1>2, <1>5, Zenon DEF KernelAccess, storage
  <2>2. TypeOK' /\ AssertsHold'  BY <1>1, <2>1, Zenon DEF TypeOK, Halts, AssertsHold
  <2> QED BY <1>1, <2>1, <2>2, StillStep, Zenon
<1>6. CASE pte[p].P
  <2>2. /\ Touch(p, th[t].op = "write") /\ frame' = [frame EXCEPT ![f].lock = NULL]
        /\ th' = [th EXCEPT ![t] = Idle] /\ halt' = halt
    BY <1>2, <1>3, <1>6, Zenon DEF KernelAccess, Unlocked
  <2>3. (th[t].op = "write") \in BOOLEAN  BY Zenon
  <2>4. /\ pte' \in [Page -> PteRecord] /\ mem' \in [Frame -> Data \cup {NULL}]
        /\ latest' \in [Page -> Version] /\ UNCHANGED <<swap, disk>>
        /\ \A q \in Page : pte'[q].P = pte[q].P /\ pte'[q].frame = pte[q].frame
        /\ \A q \in Page : page[q].alive /\ page[q].frame # NULL
                             => mem'[page[q].frame] \in {q} \X Version
    BY <1>6, <2>2, <2>3, TouchChanges, Zenon
  <2>5. /\ frame' \in [Frame -> FrameRecord] /\ frame'[f].page = frame[f].page
        /\ \A g \in Frame \ {f} : frame'[g] = frame[g]
    BY <1>1, <2>2, Unlocking, Zenon
  <2>6. th' \in [Proc -> Locals] /\ th'[t].pc = "user" /\ \A u \in Proc \ {t} : th'[u] = th[u]
    BY <1>1, <2>2, IdleTypes, Assigned, Zenon
  <2>7. TypeOK' /\ AssertsHold'
    BY <1>1, <2>2, <2>4, <2>5, <2>6, Zenon DEF TypeOK, AssertsHold
  <2>8. AliveOK(t)'  BY <1>1, <2>6, AliveStays, Zenon DEF Giving
  <2>9. ThreadOK(t)'  BY <2>6, <2>8, Outside, Zenon
  <2>10. frame[f].page # NULL /\ Matched(frame[f].page, f) /\ frame[f].lock \in {t, NULL}
    BY <1>4, Zenon
  <2>11. \A q \in Page : (pte'[q].P => pte[q].P) /\ pte'[q].frame = pte[q].frame
    BY <2>4, Zenon
  <2>12. UNCHANGED <<kind, page, swap>> /\ th[t].pc \notin {"given", "drop"}
    BY <1>1, <2>4, Zenon
  <2> QED BY <2>4, <2>5, <2>6, <2>7, <2>9, <2>10, <2>11, <2>12, LockStep, Zenon
<1> QED BY <1>5, <1>6, Zenon

\* page_deallocate or destroy_page forgets the page and frees its frame.
LEMMA DropKeeps ==
  ASSUME TablesInv, NEW t \in Proc, Drop(t)
  PROVE  TablesInv'
<1>1. /\ TypeOK /\ ThreadOK(t) /\ halt = "no" /\ th[t].pc = "drop" /\ th[t].op \in GivesUp
      /\ UNCHANGED <<swap, disk, latest, scan_lock, hand, faults, kind, halt>>
  BY Zenon DEF TablesInv, ThreadOK, DropOK, Drop, At, clock
<1>2. PICK p \in Page : p = th[t].pg /\ p \in ListOf(t) /\ page[p].alive  BY <1>1, Own, Zenon
<1>3. /\ page' = [page EXCEPT ![p].alive = FALSE] /\ pte' = [pte EXCEPT ![p] = NoPte]
      /\ th' = [th EXCEPT ![t] = [Idle EXCEPT !.pc = th[t].op]]
  BY <1>2, Zenon DEF Drop
<1>4. /\ page' \in [Page -> PageRecord] /\ page'[p].alive = FALSE
      /\ page'[p].frame = page[p].frame /\ page'[p].sector = page[p].sector
      /\ \A q \in Page \ {p} : page'[q] = page[q]
  <2>1. PICK r : r = [page[p] EXCEPT !.alive = FALSE]  BY Zenon
  <2>2. page[p] \in PageRecord  BY <1>1, Types, Zenon
  <2>3. /\ r \in PageRecord /\ r.frame = page[p].frame /\ r.alive = FALSE
        /\ r.sector = page[p].sector
    BY <2>1, <2>2, Zenon DEF PageRecord
  <2>4. page' = [page EXCEPT ![p] = r]  BY <1>1, <1>3, <2>1, Zenon DEF TypeOK
  <2> QED BY <1>1, <2>3, <2>4, Zenon DEF TypeOK
<1>5. pte' \in [Page -> PteRecord] /\ ~pte'[p].P /\ \A q \in Page \ {p} : pte'[q] = pte[q]
  <2>1. NoPte \in PteRecord /\ ~NoPte.P  BY Zenon DEF NoPte, PteRecord
  <2> QED BY <1>1, <1>3, <2>1, Zenon DEF TypeOK
<1>6. th' \in [Proc -> Locals] /\ th'[t].pc \in GivesUp /\ \A u \in Proc \ {t} : th'[u] = th[u]
  <2>1. PICK l \in GivesUp : l = th[t].op  BY <1>1, Zenon
  <2>2. PICK r : r = [Idle EXCEPT !.pc = l]  BY Zenon
  <2>3. r \in Locals /\ r.pc = l  BY <2>2, IdleTypes, Zenon DEF Locals, Label, GivesUp
  <2>4. th' = [th EXCEPT ![t] = r]  BY <1>3, <2>1, <2>2, Zenon
  <2> QED BY <1>1, <2>3, <2>4, Assigned, Zenon
<1>7. ThreadOK(t)'
  <2>1. AliveOK(t)'  BY <1>6, Zenon DEF AliveOK, Giving, GivesUp
  <2> QED BY <1>6, <2>1, Outside, Zenon DEF GivesUp
<1>8. PICK F \in SUBSET Frame :
        /\ F = {} \/ F = {th[t].f}
        /\ page[p].frame \in F \cup {NULL}
        /\ \A g \in F : /\ frame[g].lock = t /\ frame[g].page = p
                        /\ frame'[g].page = NULL /\ frame'[g].lock = NULL
        /\ \A g \in Frame \ F : frame'[g] = frame[g] /\ mem'[g] = mem[g] /\ th[t].f # g
        /\ frame' \in [Frame -> FrameRecord] /\ mem' \in [Frame -> Data \cup {NULL}]
  <2>1. CASE th[t].f = NULL
    <3>1. page[p].frame = NULL
      BY <1>1, <1>2, <2>1, Types, Zenon DEF ThreadOK, DropOK, Locked
    <3>2. frame' = frame /\ mem' = mem  BY <2>1, Zenon DEF Drop
    <3>3. {} \in SUBSET Frame /\ NULL \notin Frame  BY <1>1, Types, Zenon
    <3> QED BY <1>1, <2>1, <3>1, <3>2, <3>3, ZenonT(60) DEF TypeOK
  <2>2. CASE th[t].f # NULL
    <3>1. PICK f \in Frame : f = th[t].f /\ Locked(t, f, p) /\ page[p].frame \in {f, NULL}
      BY <1>1, <1>2, <2>2, Zenon DEF ThreadOK, DropOK, Locked
    <3>2. PICK c : c = [page |-> NULL, lock |-> NULL]  BY Zenon
    <3>3. c \in FrameRecord /\ c.page = NULL /\ c.lock = NULL  BY <3>2, Zenon DEF FrameRecord
    <3>4. frame' = [frame EXCEPT ![f] = c] /\ mem' = [mem EXCEPT ![f] = NULL]
      BY <2>2, <3>1, <3>2, Zenon DEF Drop, frame_free
    <3>5. /\ frame' \in [Frame -> FrameRecord] /\ mem' \in [Frame -> Data \cup {NULL}]
          /\ frame'[f] = c /\ \A g \in Frame \ {f} : frame'[g] = frame[g] /\ mem'[g] = mem[g]
      BY <1>1, <3>3, <3>4, Zenon DEF TypeOK
    <3>6. frame[f].lock = t /\ frame[f].page = p  BY <3>1, Zenon DEF Locked
    <3>7. {f} \in SUBSET Frame  BY Zenon
    <3> QED BY <3>1, <3>3, <3>5, <3>6, <3>7, Zenon
  <2> QED BY <2>1, <2>2, Zenon
<1>9. TypeOK' /\ AssertsHold'
  BY <1>1, <1>4, <1>5, <1>6, <1>8, ZenonT(60) DEF TypeOK, AssertsHold
<1>10. \A g \in F : FrameOK(g)'  BY <1>8, Zenon DEF FrameOK
<1>11. \A q \in {p} : PageOK(q)' /\ StorageOK(q)'
  <2>1. PageOK(p)'  BY <1>4, <1>5, Zenon DEF PageOK
  <2>2. StorageOK(p)'  BY <1>1, <1>4, Zenon DEF TablesInv, StorageOK
  <2> QED BY <2>1, <2>2, Zenon
<1>12. \A s \in Slot : SlotOK(s)'
  <2>1. \A q \in Page : page'[q].sector = page[q].sector  BY <1>4, Zenon
  <2> QED BY <1>1, <2>1, SlotOfPage, Zenon DEF TablesInv, SlotOK
<1>13. ASSUME NEW q \in Page \ {p}
       PROVE  /\ page'[q] = page[q]
              /\ (pte'[q].P => pte[q].P) /\ pte'[q].frame = pte[q].frame
              /\ page[q].alive /\ page[q].frame # NULL
                   => frame'[page[q].frame].page = q /\ mem'[page[q].frame] \in {q} \X Version
              /\ page[q].sector # NULL => swap'[page[q].sector] \in {q} \X Version
  <2>1. PageOK(q) /\ StorageOK(q) /\ page[q].frame \in Frame \cup {NULL}
    BY <1>1, Types, Zenon DEF TablesInv
  <2>2. page[q].alive /\ page[q].frame # NULL
          => page[q].frame \in Frame \ F /\ frame[page[q].frame].page = q
    BY <1>8, <2>1, Zenon DEF PageOK
  <2>3. page[q].alive /\ page[q].frame # NULL => frame'[page[q].frame].page = q
    BY <1>8, <2>2, Zenon
  <2>4. page[q].alive /\ page[q].frame # NULL => mem'[page[q].frame] \in {q} \X Version
    BY <1>8, <2>1, <2>2, Zenon DEF StorageOK
  <2>5. page[q].sector # NULL => swap'[page[q].sector] \in {q} \X Version
    BY <1>1, <2>1, Zenon DEF StorageOK
  <2> QED BY <1>4, <1>5, <2>3, <2>4, <2>5, Zenon
<1>14. Works(t, F, {p})
  <2>1. \A g \in F : frame[g].lock \in {t, NULL}  BY <1>8, Zenon
  <2>2. \A g \in Frame \ F : /\ frame'[g] = frame[g]
                             /\ frame[g].lock = t
                                  => th[t].f # g \/ th[t].pc \notin {"given", "drop"}
    BY <1>8, Zenon
  <2>3. kind' = kind /\ p \in ListOf(t) /\ page[p].frame \in F \cup {NULL}
    BY <1>1, <1>2, <1>8, Zenon
  <2>4. \A u \in Proc \ {t} : th'[u] = th[u]  BY <1>6, Zenon
  <2> QED BY <1>13, <2>1, <2>2, <2>3, <2>4, ZenonT(60) DEF Works
<1>15. {p} \in SUBSET Page  BY Zenon
<1> QED BY <1>7, <1>9, <1>10, <1>11, <1>12, <1>14, <1>15, WorkStep, Zenon

-----------------------------------------------------------------------------
(***************************************************************************)
(* The theorems                                                            *)
(***************************************************************************)

\* At boot all frames are free and no page is anywhere.
LEMMA TablesInit == Init => TablesInv
<1> SUFFICES ASSUME Init PROVE TablesInv  OBVIOUS
<1>1. 0 \in Frame /\ 0 \in Nat /\ 0 \in 0 .. 3 /\ 0 \in Version /\ 0 \in 0 .. MaxFaults
  BY PagingAssumption DEF Frame, Version
<1>2. ASSUME NEW p \in Page
      PROVE  /\ page[p] \in PageRecord /\ page[p].frame = NULL /\ page[p].sector = NULL
             /\ page[p].alive <=> kind[p] # "grown"
             /\ pte[p] = NoPte
  <2>1. page[p] = Fresh(p) /\ pte[p] = NoPte  BY Zenon DEF Init
  <2>2. /\ (kind[p] # "grown") \in BOOLEAN /\ (kind[p] \in {"data", "stack", "grown"}) \in BOOLEAN
        /\ (kind[p] \in {"data", "text", "mmap"}) \in BOOLEAN
    OBVIOUS
  <2>3. Fresh(p) \in PageRecord  BY <2>2, Zenon DEF Fresh, PageRecord
  <2>4. Fresh(p).frame = NULL /\ Fresh(p).sector = NULL  BY Zenon DEF Fresh
  <2>5. Fresh(p).alive <=> kind[p] # "grown"  BY Zenon DEF Fresh
  <2> QED BY <2>1, <2>3, <2>4, <2>5, Zenon
<1>3. NoPte \in PteRecord /\ ~NoPte.P  BY Zenon DEF NoPte, PteRecord
<1>4. \A f \in Frame : /\ frame[f] \in FrameRecord
                       /\ frame[f].page = NULL /\ frame[f].lock = NULL
  BY Zenon DEF Init, FrameRecord
<1>5. PICK r : r = [Idle EXCEPT !.pc = "none"]  BY Zenon
<1>6. r \in Locals /\ r.pc = "none"  BY <1>5, IdleTypes, Zenon DEF Locals, Label
<1>7. \A t \in Proc : th[t] = r  BY <1>5, Zenon DEF Init
<1>8. TypeOK
  <2>1. page \in [Page -> PageRecord] /\ pte \in [Page -> PteRecord]
    BY <1>2, <1>3, Zenon DEF Init
  <2>2. frame \in [Frame -> FrameRecord] /\ mem \in [Frame -> Data \cup {NULL}]
    BY <1>4, Zenon DEF Init
  <2>3. th \in [Proc -> Locals]  BY <1>6, <1>7, Zenon DEF Init
  <2>4. kind \in Layout /\ swap \in [Slot -> Data \cup {NULL}] /\ disk \in [Page -> Version]
    BY <1>1, Zenon DEF Init
  <2>5. /\ latest \in [Page -> Version] /\ scan_lock \in Proc \cup {NULL} /\ hand \in Frame
        /\ faults \in 0 .. MaxFaults /\ halt \in Halts
    BY <1>1, Zenon DEF Init, Halts
  <2> QED BY <2>1, <2>2, <2>3, <2>4, <2>5, Zenon DEF TypeOK
<1>9. \A f \in Frame : FrameOK(f)  BY <1>4, Zenon DEF FrameOK
<1>10. \A p \in Page : PageOK(p) /\ StorageOK(p)
  BY <1>2, <1>3, Zenon DEF PageOK, StorageOK
<1>11. \A s \in Slot : SlotOK(s)  BY Zenon DEF Init, SlotOK
<1>12. ASSUME NEW t \in Proc PROVE ThreadOK(t)
  <2>1. th[t].pc = "none"  BY <1>6, <1>7, Zenon
  <2>2. \A p \in ListOf(t) : p \in Page  BY OneOwner, Zenon
  <2>3. AliveOK(t)  BY <1>2, <2>2, Zenon DEF AliveOK
  <2>4. SetupOK(t)  BY <1>2, <2>1, <2>2, FirstPage, Zenon DEF SetupOK
  <2> QED BY <2>1, <2>3, <2>4, Zenon
          DEF ThreadOK, OwnPage, FlockOK, ScanOK, EvictOK, GivenOK, SetOK, DropOK
<1>13. AssertsHold  BY Zenon DEF Init, AssertsHold
<1> QED BY <1>8, <1>9, <1>10, <1>11, <1>12, <1>13, ZenonT(60) DEF TablesInv

\* Every step keeps TablesInv.
LEMMA TablesStep == TablesInv /\ [Next]_vars => TablesInv'
<1> SUFFICES ASSUME TablesInv, [Next]_vars PROVE TablesInv'  OBVIOUS
<1>1. ASSUME NEW t \in Proc, Kernel(t) PROVE TablesInv'
  <2>1. CASE SetupStack(t)  BY <2>1, SetupStackKeeps, Zenon
  <2>2. CASE FrameLocked(t)  BY <2>2, FrameLockedKeeps, ZenonT(60)
  <2>3. CASE Scan(t)  BY <2>3, ScanKeeps, Zenon
  <2>4. CASE FindFree(t)  BY <2>4, FindFreeKeeps, Zenon
  <2>5. CASE Clock(t)  BY <2>5, ClockKeeps, Zenon
  <2>6. CASE PageOut(t)  BY <2>6, PageOutKeeps, Zenon
  <2>7. CASE StackReady(t)  BY <2>7, StackReadyKeeps, Zenon
  <2>8. CASE Fill(t)  BY <2>8, FillKeeps, Zenon
  <2>9. CASE SetPage(t)  BY <2>9, SetPageKeeps, Zenon
  <2>10. CASE KernelAccess(t)  BY <2>10, KernelAccessKeeps, Zenon
  <2>11. CASE Unmap(t)  BY <2>11, UnmapKeeps, Zenon
  <2>12. CASE StoreMapped(t)  BY <2>12, StoreMappedKeeps, Zenon
  <2>13. CASE GiveUp(t)  BY <2>13, GiveUpKeeps, Zenon
  <2>14. CASE Drop(t)  BY <2>14, DropKeeps, Zenon
  <2> QED BY <1>1, <2>1, <2>2, <2>3, <2>4, <2>5, <2>6, <2>7, <2>8, <2>9, <2>10, <2>11, <2>12,
             <2>13, <2>14, ZenonT(60) DEF Kernel
<1>2. ASSUME NEW t \in Proc, Exit(t) PROVE TablesInv'  BY <1>2, ExitKeeps, Zenon
<1>3. ASSUME NEW t \in Proc, NEW p \in Page, NEW w \in BOOLEAN, UserAccess(t, p, w)
      PROVE  TablesInv'
  BY <1>3, UserAccessKeeps, Zenon
<1>4. ASSUME NEW t \in Proc, NEW p \in Page, NEW op \in {"fault", "read", "write"},
             PageIn(t, p, op)
      PROVE  TablesInv'
  BY <1>4, PageInKeeps, Zenon
<1>5. CASE UNCHANGED vars
  <2>1. TypeOK' /\ AssertsHold' /\ UNCHANGED <<kind, page, pte, frame, swap, mem, th>>
    BY <1>5, Zenon DEF vars, TablesInv, TypeOK, AssertsHold
  <2> QED BY <2>1, StillStep, Zenon
<1> QED BY <1>1, <1>2, <1>3, <1>4, <1>5, Zenon DEF Next, Halted

\* The frame table, the supplemental page tables and the page table entries agree as far
\* as TablesInv says, in every state.
THEOREM TablesAlways == Spec => []TablesInv
BY TablesInit, TablesStep, PTL DEF Spec

\* The frame table and the page tables agree on every frame that is not locked, however
\* page_in, page_out, frame_lock and exit meet: for any number of processes, pages, frames
\* and swap slots.
THEOREM TablesAlwaysAgree == Spec => []TablesAgree
<1>1. TablesInv => TablesAgree
  <2> SUFFICES ASSUME TablesInv PROVE TablesAgree  OBVIOUS
  <2>1. TypeOK  BY Zenon DEF TablesInv
  <2>2. ASSUME NEW f \in Frame, frame[f].lock = NULL, frame[f].page # NULL
        PROVE  page[frame[f].page].alive /\ page[frame[f].page].frame = f
    BY <2>2, Unclaimed, Zenon DEF Matched
  <2>3. \A p \in Page : page[p].alive /\ page[p].frame # NULL => frame[page[p].frame].page = p
    BY Zenon DEF TablesInv, PageOK
  <2> QED BY <2>1, <2>2, <2>3, Zenon DEF TablesAgree
<1> QED BY <1>1, TablesAlways, PTL

\* The assertions of frame_lock, page_out, page_accessed_recently and pagedir_set_page
\* hold: a frame can be taken away while frame_lock waits, but never given, and a page
\* whose entry is set was not present.
THEOREM AssertionsHold == Spec => []AssertsHold
<1>1. TablesInv => AssertsHold  BY Zenon DEF TablesInv
<1> QED BY <1>1, TablesAlways, PTL
=============================================================================
