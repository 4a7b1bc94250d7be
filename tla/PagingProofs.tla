---------------------------- MODULE PagingProofs ----------------------------
(***************************************************************************)
(* If swap has room for all pages, no page loses what its process stored,  *)
(* wherever it is moved, and mapped files are saved: for any number of     *)
(* processes, pages, frames, slots of the swap device and faults.          *)
(***************************************************************************)
EXTENDS TablesProofs, FiniteSets

-----------------------------------------------------------------------------
(***************************************************************************)
(* The contents of pages: inductive invariant                              *)
(***************************************************************************)

\* The contents of a page are what its process last stored, wherever they are.  What has
\* been in swap has lost its file.
ContentsOK(p) ==
  /\ page[p].alive /\ page[p].frame # NULL =>
       /\ mem[page[p].frame] = <<p, latest[p]>>
       /\ page[p].file /\ ~pte[p].D => disk[p] = latest[p]
  /\ page[p].alive /\ page[p].frame = NULL /\ page[p].sector # NULL =>
       swap[page[p].sector] = <<p, latest[p]>>
  /\ page[p].alive /\ page[p].frame = NULL /\ page[p].sector = NULL =>
       latest[p] = IF page[p].file THEN disk[p] ELSE 0
  /\ page[p].sector # NULL => ~page[p].file

Exiting(t) == th[t].pc \in {"unmap", "store"} \/ Giving(t)

\* A page whose entry page_in is going to set has not been modified: setting it clears D.
SettledOK(t, p) ==
  /\ page[p].alive /\ page[p].frame # NULL /\ ~pte[p].P /\ page[p].file
  /\ \/ frame[page[p].frame].lock = NULL
     \/ frame[page[p].frame].lock = t /\ th[t].pc = "set" /\ th[t].pg = p
  => disk[p] = latest[p] \/ Exiting(t)

\* A page the stack has not grown by yet is all zeros.
UnbornOK(t, p) ==
  ~page[p].alive /\ ~Giving(t) => page[p].sector = NULL /\ ~page[p].file /\ latest[p] = 0

\* The pages of a mapping are never private or swapped out, and those unmap has seen are
\* in the file.
MappedOK(t, p) ==
  kind[p] = "mmap" =>
    /\ page[p].file /\ ~page[p].private /\ page[p].sector = NULL
    /\ \/ ~Exiting(t)
       \/ /\ th[t].pc \in {"unmap", "store"}
          /\ \A k \in 1 .. Len(Pages[t]) : Pages[t][k] = p => th[t].i < k
       \/ disk[p] = latest[p]

OwnedOK(t, p) == SettledOK(t, p) /\ UnbornOK(t, p) /\ MappedOK(t, p)

\* The first stack page has no file, and unmap begins with the first page.
BeginOK(t) ==
  /\ th[t].pc = "none" => ~page[Pages[t][1]].file
  /\ th[t].op = "setup" /\ th[t].pc \in {"scan", "free", "clock", "clear", "save", "given"}
       => ~page[th[t].pg].file
  /\ th[t].pc = "user" => th[t].i = 0

ContentsInv == /\ \A p \in Page : ContentsOK(p)
               /\ \A t \in Proc : BeginOK(t) /\ \A p \in ListOf(t) : OwnedOK(t, p)

-----------------------------------------------------------------------------
(***************************************************************************)
(* The contents of pages: steps                                            *)
(***************************************************************************)

\* A step of t leaves the contents of page p where they are, and no frame of it unlocked.
Untouched(t, p) ==
  /\ page'[p] = page[p] /\ (pte'[p].D <=> pte[p].D)
  /\ disk'[p] = disk[p] /\ latest'[p] = latest[p]
  /\ page[p].alive /\ page[p].frame # NULL =>
       /\ mem'[page[p].frame] = mem[page[p].frame]
       /\ frame'[page[p].frame].lock \in {frame[page[p].frame].lock, t}
       /\ pte[p].P => pte'[p].P \/ frame'[page[p].frame].lock = t
  /\ page[p].sector # NULL => swap'[page[p].sector] = swap[page[p].sector]

\* A step of t touches the pages in V only.
LEMMA ContentsStep ==
  ASSUME TablesInv, ContentsInv, NEW t \in Proc, NEW V \in SUBSET Page, kind' = kind,
         \A u \in Proc \ {t} : th'[u] = th[u],
         \A p \in Page \ V : Untouched(t, p),
         \A p \in V : ContentsOK(p)' /\ (page'[p].file => page[p].file),
         \A u \in Proc : \A p \in ListOf(u) \cap V : OwnedOK(u, p)',
         BeginOK(t)', Exiting(t) => Exiting(t)', Giving(t) => Giving(t)',
         th'[t].pc = "set" => th'[t].pg \in V \/ th'[t] = th[t],
         \/ ~Exiting(t)' \/ Giving(t)
         \/ \A p \in ListOf(t) \ V : MappedOK(t, p)'
  PROVE  ContentsInv'
<1>1. ASSUME NEW p \in Page PROVE ContentsOK(p)'
  <2>1. CASE p \in V  BY <2>1, ZenonT(60)
  <2>2. CASE p \notin V
    <3>1. ContentsOK(p) /\ Untouched(t, p)  BY <2>2, Zenon DEF ContentsInv
    <3> QED BY <3>1 DEF ContentsOK, Untouched
  <2> QED BY <2>1, <2>2, Zenon
<1>2. \A p \in Page : page'[p].file => page[p].file
  BY Zenon DEF Untouched
<1>3. ASSUME NEW u \in Proc PROVE BeginOK(u)'
  <2>1. CASE u = t  BY <2>1, Zenon
  <2>2. CASE u # t
    <3>1. BeginOK(u) /\ th'[u] = th[u]  BY <2>2, Zenon DEF ContentsInv
    <3>2. Pages[u][1] \in Page  BY FirstPage, OneOwner, Zenon
    <3>3. th[u].pc \in {"scan", "free", "clock", "clear", "save", "given"} => th[u].pg \in Page
      BY OneOwner, Zenon DEF TablesInv, ThreadOK, OwnPage
    <3> QED BY <1>2, <3>1, <3>2, <3>3, Zenon DEF BeginOK
  <2> QED BY <2>1, <2>2, Zenon
<1>4. ASSUME NEW u \in Proc, NEW p \in ListOf(u) PROVE OwnedOK(u, p)'
  <2>0. p \in Page /\ t # NULL /\ u # NULL  BY OneOwner, Types, Zenon DEF TablesInv
  <2>1. CASE p \in V  BY <2>1, Zenon
  <2>2. CASE p \notin V
    <3>1. /\ SettledOK(u, p) /\ UnbornOK(u, p) /\ MappedOK(u, p) /\ Untouched(t, p)
          /\ page'[p] = page[p] /\ disk'[p] = disk[p] /\ latest'[p] = latest[p]
      BY <2>0, <2>2, Zenon DEF ContentsInv, OwnedOK, Untouched
    <3>2. UnbornOK(u, p)'
      <4>1. Giving(u) => Giving(u)'  BY Zenon DEF Giving
      <4> QED BY <3>1, <4>1, Zenon DEF UnbornOK
    <3>3. SettledOK(u, p)'
      <4>1. Exiting(u) => Exiting(u)'  BY Zenon DEF Exiting, Giving
      <4>2. SUFFICES ASSUME page[p].alive, page[p].frame # NULL, ~pte'[p].P, page[p].file,
                   \/ frame'[page[p].frame].lock = NULL
                   \/ /\ frame'[page[p].frame].lock = u
                      /\ th'[u].pc = "set" /\ th'[u].pg = p
                   PROVE  disk[p] = latest[p] \/ Exiting(u)
        BY <3>1, <4>1, Zenon DEF SettledOK
      <4>3. /\ frame'[page[p].frame].lock \in {frame[page[p].frame].lock, t}
            /\ pte[p].P => frame'[page[p].frame].lock = t
        BY <3>1, <4>2, Zenon DEF Untouched
      <4>4. CASE frame'[page[p].frame].lock = NULL
        <5>1. frame[page[p].frame].lock = NULL /\ ~pte[p].P  BY <2>0, <4>3, <4>4, Zenon
        <5> QED BY <3>1, <4>2, <5>1, Zenon DEF SettledOK
      <4>5. CASE /\ frame'[page[p].frame].lock = u
                 /\ th'[u].pc = "set" /\ th'[u].pg = p
        <5>1. th'[u] = th[u]  BY <2>2, <4>5, Zenon
        <5>2. th[u].pc = "set" /\ th[u].pg = p  BY <4>5, <5>1, Zenon
        <5>3. frame[page[p].frame].lock = u /\ ~pte[p].P
          BY <4>3, <5>2, ZenonT(60) DEF TablesInv, ThreadOK, SetOK, Locked
        <5> QED BY <3>1, <4>2, <5>2, <5>3, Zenon DEF SettledOK
      <4> QED BY <4>2, <4>4, <4>5, Zenon
    <3>4. MappedOK(u, p)'
      <4>1. CASE u # t
        <5>1. th'[u] = th[u]  BY <4>1, Zenon
        <5>2. Exiting(u)' <=> Exiting(u)  BY <5>1, Zenon DEF Exiting, Giving
        <5> QED BY <3>1, <5>1, <5>2, Zenon DEF MappedOK
      <4>2. CASE u = t /\ ~Exiting(t)'  BY <3>1, <4>2, Zenon DEF MappedOK
      <4>3. CASE u = t /\ Giving(t)
        <5>1. th[t].pc \notin {"unmap", "store"} /\ Exiting(t)  BY <4>3, Zenon DEF Giving, Exiting
        <5> QED BY <3>1, <4>3, <5>1, Zenon DEF MappedOK
      <4> QED BY <2>2, <4>1, <4>2, <4>3, Zenon
    <3> QED BY <3>2, <3>3, <3>4, Zenon DEF OwnedOK
  <2> QED BY <2>1, <2>2, Zenon
<1> QED BY <1>1, <1>3, <1>4, Zenon DEF ContentsInv

\* A step of t that touches no page.
LEMMA PlainStep ==
  ASSUME TablesInv, ContentsInv, NEW t \in Proc, kind' = kind,
         \A u \in Proc \ {t} : th'[u] = th[u],
         \A p \in Page : Untouched(t, p),
         BeginOK(t)', Exiting(t) => Exiting(t)', Giving(t) => Giving(t)',
         th'[t].pc = "set" => th'[t] = th[t],
         ~Exiting(t)' \/ Giving(t) \/ \A p \in ListOf(t) : MappedOK(t, p)'
  PROVE  ContentsInv'
<1>1. {} \in SUBSET Page  BY Zenon
<1>2. \A p \in Page \ {} : Untouched(t, p)  BY Zenon
<1>3. \A p \in {} : ContentsOK(p)' /\ (page'[p].file => page[p].file)  BY Zenon
<1>4. \A u \in Proc : \A p \in ListOf(u) \cap {} : OwnedOK(u, p)'  BY Zenon
<1>5. th'[t].pc = "set" => th'[t].pg \in {} \/ th'[t] = th[t]  BY Zenon
<1>6. \/ ~Exiting(t)' \/ Giving(t)
      \/ \A p \in ListOf(t) \ {} : MappedOK(t, p)'
  BY Zenon
<1> QED BY <1>1, <1>2, <1>3, <1>4, <1>5, <1>6, ContentsStep, Zenon

\* A step that changes no table and no storage touches no page.
LEMMA NothingTouched ==
  ASSUME UNCHANGED <<page, pte, frame, mem, swap, disk, latest>>, NEW t \in Proc
  PROVE  \A p \in Page : Untouched(t, p)
BY Zenon DEF Untouched

\* The kernel stops.
LEMMA StopContents ==
  ASSUME TablesInv, ContentsInv, NEW t \in Proc,
         UNCHANGED <<kind, page, pte, frame, mem, swap, disk, latest, th>>
  PROVE  ContentsInv'
<1>1. BeginOK(t)'  BY Zenon DEF ContentsInv, BeginOK
<1>2. (Exiting(t) <=> Exiting(t)') /\ (Giving(t) <=> Giving(t)')  BY Zenon DEF Exiting, Giving
<1>3. \A p \in ListOf(t) : MappedOK(t, p)'
  BY <1>2, Zenon DEF ContentsInv, OwnedOK, MappedOK
<1> QED BY <1>1, <1>2, <1>3, NothingTouched, PlainStep, Zenon

\* unmap begins with the first page.
LEMMA UnmapBegins ==
  ASSUME ContentsInv, NEW t \in Proc, NEW p \in ListOf(t), kind' = kind,
         page'[p] = page[p], th'[t].pc = "unmap", th'[t].i = 0
  PROVE  MappedOK(t, p)'
<1>1. MappedOK(t, p)  BY Zenon DEF ContentsInv, OwnedOK
<1>2. \A k \in 1 .. Len(Pages[t]) : 0 < k  OBVIOUS
<1> QED BY <1>1, <1>2, Zenon DEF MappedOK

\* frame_alloc_and_lock looks for a frame, finds one, or fails.
LEMMA SearchContents ==
  ASSUME TablesInv, ContentsInv, NEW t \in Proc, kind' = kind,
         \A u \in Proc \ {t} : th'[u] = th[u],
         \A p \in Page : Untouched(t, p),
         th[t].pc \in {"scan", "free", "clock"},
         \/ /\ th'[t].pc \in {"scan", "free", "clock", "given", "clear"}
            /\ th'[t].op = th[t].op /\ th'[t].pg = th[t].pg
         \/ th'[t].pc = "unmap" /\ th'[t].i = 0
  PROVE  ContentsInv'
<1>1. BeginOK(t) /\ th[t].pg \in Page /\ th[t].op \in Wants
  BY Own, Zenon DEF ContentsInv, TablesInv, ThreadOK, ScanOK
<1>2. page'[th[t].pg] = page[th[t].pg]  BY <1>1, Zenon DEF Untouched
<1>3. ~Exiting(t) /\ ~Giving(t)  BY Zenon DEF Exiting, Giving
<1>4. BeginOK(t)'  BY <1>1, <1>2, Zenon DEF BeginOK
<1>5. ~Exiting(t)' \/ \A p \in ListOf(t) : MappedOK(t, p)'
  <2>1. CASE th'[t].pc = "unmap" /\ th'[t].i = 0
    <3>1. \A p \in ListOf(t) : page'[p] = page[p]  BY OneOwner, Zenon DEF Untouched
    <3> QED BY <2>1, <3>1, UnmapBegins, Zenon
  <2>2. CASE /\ th'[t].pc \in {"scan", "free", "clock", "given", "clear"}
             /\ th'[t].op = th[t].op
    BY <1>1, <2>2, Zenon DEF Exiting, Giving, Wants, GivesUp
  <2> QED BY <2>1, <2>2, Zenon
<1>6. th'[t].pc # "set"  BY Zenon
<1> QED BY <1>3, <1>4, <1>5, <1>6, PlainStep, Zenon

\* setup_stack begins to look for a frame.
LEMMA SetupStackContents ==
  ASSUME TablesInv, ContentsInv, NEW t \in Proc, SetupStack(t)
  PROVE  ContentsInv'
<1>1. /\ TypeOK /\ BeginOK(t) /\ th[t].pc = "none"
      /\ UNCHANGED <<kind, page, pte, frame, mem, swap, disk, latest>>
  BY Zenon DEF TablesInv, ContentsInv, SetupStack, At, storage, clock
<1>2. /\ th'[t].pc = "scan" /\ th'[t].pg = Pages[t][1]
      /\ \A u \in Proc \ {t} : th'[u] = th[u]
  BY <1>1, Types, Zenon DEF SetupStack, TypeOK, Locals
<1>3. BeginOK(t)'  BY <1>1, <1>2, Zenon DEF BeginOK
<1>4. ~Exiting(t) /\ ~Giving(t) /\ ~Exiting(t)'  BY <1>1, <1>2, Zenon DEF Exiting, Giving
<1> QED BY <1>1, <1>2, <1>3, <1>4, NothingTouched, PlainStep, Zenon

\* frame_alloc_and_lock acquires scan_lock.
LEMMA ScanContents ==
  ASSUME TablesInv, ContentsInv, NEW t \in Proc, Scan(t)
  PROVE  ContentsInv'
<1>1. /\ TypeOK /\ th[t].pc = "scan"
      /\ UNCHANGED <<kind, page, pte, frame, mem, swap, disk, latest>>
  BY Zenon DEF TablesInv, Scan, At, storage
<1>2. /\ th'[t].pc = "free" /\ th'[t].op = th[t].op /\ th'[t].pg = th[t].pg
      /\ \A u \in Proc \ {t} : th'[u] = th[u]
  BY <1>1, Types, Zenon DEF Scan, TypeOK, Locals
<1> QED BY <1>1, <1>2, NothingTouched, SearchContents, Zenon

\* A frame that nobody has locked is locked.
LEMMA LockedUntouched ==
  ASSUME TypeOK, NEW t \in Proc, NEW f \in Frame, UNCHANGED <<page, mem, swap, disk, latest>>,
         \A p \in Page : (pte'[p].D <=> pte[p].D) /\ (pte'[p].P <=> pte[p].P),
         \A g \in Frame : frame'[g].lock = IF g = f THEN t ELSE frame[g].lock
  PROVE  \A p \in Page : Untouched(t, p)
<1> TAKE p \in Page
<1>1. page[p].frame \in Frame \cup {NULL}  BY Types, Zenon
<1>2. page[p].frame # NULL => frame'[page[p].frame].lock \in {frame[page[p].frame].lock, t}
  BY <1>1, Zenon
<1> QED BY <1>2, Zenon DEF Untouched

\* A free frame is locked for the page, or the loop goes on.
LEMMA FindFreeContents ==
  ASSUME TablesInv, ContentsInv, NEW t \in Proc, FindFree(t)
  PROVE  ContentsInv'
<1>1. /\ TypeOK /\ th[t].pc = "free" /\ th[t] \in Locals
      /\ UNCHANGED <<kind, page, pte, mem, swap, disk, latest>>
  BY Types, Zenon DEF TablesInv, FindFree, At, storage
<1>2. CASE frame[th[t].i].lock = NULL /\ frame[th[t].i].page = NULL
  <2>1. PICK f \in Frame : f = th[t].i
    <3>1. th[t].i \in Nat /\ th[t].i < FrameCnt /\ FrameCnt \in Nat
      BY <1>1, Types, PagingAssumption, Zenon DEF TablesInv, ThreadOK, ScanOK
    <3> QED BY <3>1 DEF Frame
  <2>2. /\ frame' = [frame EXCEPT ![f] = [page |-> th[t].pg, lock |-> t]]
        /\ th' = [th EXCEPT ![t].pc = "given", ![t].f = f, ![t].i = 0]
    BY <1>2, <2>1, Zenon DEF FindFree
  <2>3. \A g \in Frame : frame'[g].lock = IF g = f THEN t ELSE frame[g].lock
    BY <1>1, <2>2, Zenon DEF TypeOK
  <2>4. /\ th'[t].pc = "given" /\ th'[t].op = th[t].op /\ th'[t].pg = th[t].pg
        /\ \A u \in Proc \ {t} : th'[u] = th[u]
    BY <1>1, <2>2, Zenon DEF TypeOK, Locals
  <2>5. \A p \in Page : Untouched(t, p)  BY <1>1, <2>3, LockedUntouched, Zenon
  <2> QED BY <1>1, <2>4, <2>5, SearchContents, Zenon
<1>3. CASE ~(frame[th[t].i].lock = NULL /\ frame[th[t].i].page = NULL)
  <2>1. PICK l, i : l \in {"free", "clock"} /\ frame' = frame /\ th' = [th EXCEPT ![t].pc = l, ![t].i = i]
    BY <1>3, Zenon DEF FindFree
  <2>2. /\ th'[t].pc \in {"free", "clock"} /\ th'[t].op = th[t].op /\ th'[t].pg = th[t].pg
        /\ \A u \in Proc \ {t} : th'[u] = th[u]
    BY <1>1, <2>1, Zenon DEF TypeOK, Locals
  <2> QED BY <1>1, <2>1, <2>2, NothingTouched, SearchContents, Zenon
<1> QED BY <1>2, <1>3, Zenon

\* The clock goes on to the next frame, or frame_alloc_and_lock tries again or fails.
LEMMA SkipContents ==
  ASSUME TablesInv, ContentsInv, NEW t \in Proc, th[t].pc = "clock",
         IF th[t].i + 1 >= 2 * FrameCnt THEN Retry(t) /\ scan_lock' = NULL
         ELSE th' = [th EXCEPT ![t].i = @ + 1] /\ UNCHANGED scan_lock,
         kind' = kind, \A p \in Page : Untouched(t, p)
  PROVE  ContentsInv'
<1>1. TypeOK /\ th[t] \in Locals  BY Types, Zenon DEF TablesInv
<1>2. /\ \A u \in Proc \ {t} : th'[u] = th[u]
      /\ \/ /\ th'[t].pc \in {"scan", "clock"}
            /\ th'[t].op = th[t].op /\ th'[t].pg = th[t].pg
         \/ th'[t].pc = "unmap" /\ th'[t].i = 0
  <2>1. CASE th[t].i + 1 >= 2 * FrameCnt  BY <1>1, <2>1, Retries, Zenon
  <2>2. CASE ~(th[t].i + 1 >= 2 * FrameCnt)
    <3>1. PICK i : th' = [th EXCEPT ![t].i = i]  BY <1>1, <2>2, Zenon
    <3> QED BY <1>1, <3>1, Zenon DEF TypeOK, Locals
  <2> QED BY <2>1, <2>2, Zenon
<1> QED BY <1>2, SearchContents, Zenon

\* The clock skips a frame, takes a free one, or locks the one to evict.
LEMMA ClockContents ==
  ASSUME TablesInv, ContentsInv, NEW t \in Proc, Clock(t)
  PROVE  ContentsInv'
<1>1. PICK f \in Frame : f = hand  BY Zenon DEF TablesInv, TypeOK
<1>2. /\ TypeOK /\ th[t].pc = "clock" /\ th[t] \in Locals
      /\ UNCHANGED <<kind, page, mem, swap, disk, latest>>
  BY Types, Zenon DEF TablesInv, Clock, At, storage
<1>3. CASE /\ IF th[t].i + 1 >= 2 * FrameCnt THEN Retry(t) /\ scan_lock' = NULL
              ELSE th' = [th EXCEPT ![t].i = @ + 1] /\ UNCHANGED scan_lock
           /\ UNCHANGED <<frame, pte>>
  BY <1>2, <1>3, NothingTouched, SkipContents, Zenon
<1>4. CASE /\ frame' = [frame EXCEPT ![f] = [page |-> th[t].pg, lock |-> t]]
           /\ th' = [th EXCEPT ![t].pc = "given", ![t].f = f, ![t].i = 0]
           /\ UNCHANGED pte
  <2>1. \A g \in Frame : frame'[g].lock = IF g = f THEN t ELSE frame[g].lock
    BY <1>2, <1>4, Zenon DEF TypeOK
  <2>2. /\ th'[t].pc = "given" /\ th'[t].op = th[t].op /\ th'[t].pg = th[t].pg
        /\ \A u \in Proc \ {t} : th'[u] = th[u]
    BY <1>2, <1>4, Zenon DEF TypeOK, Locals
  <2>3. \A p \in Page : Untouched(t, p)  BY <1>2, <1>4, <2>1, LockedUntouched, Zenon
  <2> QED BY <1>2, <2>2, <2>3, SearchContents, Zenon
<1>5. CASE /\ frame[f].lock = NULL /\ frame[f].page # NULL
           /\ pagedir_set_accessed(frame[f].page, FALSE)
           /\ IF th[t].i + 1 >= 2 * FrameCnt THEN Retry(t) /\ scan_lock' = NULL
              ELSE th' = [th EXCEPT ![t].i = @ + 1] /\ UNCHANGED scan_lock
           /\ UNCHANGED frame
  <2>1. PICK v \in Page : v = frame[f].page  BY <1>5, Unclaimed, Zenon
  <2>2. \A p \in Page : (pte'[p].D <=> pte[p].D) /\ (pte'[p].P <=> pte[p].P)
    <3>1. pte' = [pte EXCEPT ![v].A = FALSE]
      BY <1>5, <2>1, Zenon DEF pagedir_set_accessed
    <3> QED BY <1>2, <3>1, Types, Zenon DEF TypeOK, PteRecord
  <2>3. \A p \in Page : Untouched(t, p)  BY <1>2, <1>5, <2>2, Zenon DEF Untouched
  <2> QED BY <1>2, <1>5, <2>3, SkipContents, Zenon
<1>6. CASE /\ frame' = [frame EXCEPT ![f].lock = t]
           /\ th' = [th EXCEPT ![t].pc = "clear", ![t].f = f, ![t].i = 0]
           /\ UNCHANGED pte
  <2>1. \A g \in Frame : frame'[g].lock = IF g = f THEN t ELSE frame[g].lock
    BY <1>2, <1>6, Types, Zenon DEF TypeOK, FrameRecord
  <2>2. /\ th'[t].pc = "clear" /\ th'[t].op = th[t].op /\ th'[t].pg = th[t].pg
        /\ \A u \in Proc \ {t} : th'[u] = th[u]
    BY <1>2, <1>6, Zenon DEF TypeOK, Locals
  <2>3. \A p \in Page : Untouched(t, p)  BY <1>2, <1>6, <2>1, LockedUntouched, Zenon
  <2> QED BY <1>2, <2>2, <2>3, SearchContents, Zenon
<1> QED BY <1>1, <1>3, <1>4, <1>5, <1>6, Zenon DEF Clock

\* page_out has cleared the entry of the page, whose frame it has locked.
LEMMA ClearContents ==
  ASSUME TablesInv, ContentsInv, NEW t \in Proc, At(t, "clear"),
         pagedir_clear_page(frame[th[t].f].page), Goto(t, "save"),
         UNCHANGED <<page, frame, storage, clock>>
  PROVE  ContentsInv'
<1>1. /\ TypeOK /\ BeginOK(t) /\ th[t].pc = "clear" /\ th[t] \in Locals
      /\ UNCHANGED <<kind, page, frame, mem, swap, disk, latest>>
  BY Types, Zenon DEF TablesInv, ContentsInv, At, storage, clock
<1>2. PICK v \in Page : Locked(t, th[t].f, v) /\ Matched(v, th[t].f)
  BY <1>1, Zenon DEF TablesInv, ThreadOK, EvictOK
<1>3. pte' = [pte EXCEPT ![v].P = FALSE]
  BY <1>2, Zenon DEF Locked, pagedir_clear_page
<1>4. \A p \in Page : (pte'[p].D <=> pte[p].D) /\ (p # v => (pte'[p].P <=> pte[p].P))
  BY <1>1, <1>3, Types, Zenon DEF TypeOK, PteRecord
<1>5. \A p \in Page : Untouched(t, p)
  BY <1>1, <1>2, <1>4, Zenon DEF Untouched, Locked, Matched
<1>6. /\ th'[t].pc = "save" /\ th'[t].op = th[t].op /\ th'[t].pg = th[t].pg
      /\ \A u \in Proc \ {t} : th'[u] = th[u]
  BY <1>1, Zenon DEF Goto, TypeOK, Locals
<1>7. BeginOK(t)'  BY <1>1, <1>6, Zenon DEF BeginOK
<1>8. /\ Exiting(t) <=> Giving(t)
      /\ Giving(t)' <=> Giving(t)
      /\ Exiting(t)' <=> Giving(t)'
  BY <1>1, <1>6, Zenon DEF Exiting, Giving
<1> QED BY <1>1, <1>5, <1>6, <1>7, <1>8, PlainStep, ZenonT(60)

\* frame_lock has the lock: the page is still there, or has to be brought in.
LEMMA FrameLockedContents ==
  ASSUME TablesInv, ContentsInv, NEW t \in Proc, FrameLocked(t)
  PROVE  ContentsInv'
<1>0. PICK f, p, op : f = th[t].f /\ p = th[t].pg /\ op = th[t].op  BY Zenon
<1>1. /\ TypeOK /\ ThreadOK(t) /\ th[t].pc = "flock" /\ th[t] \in Locals
      /\ UNCHANGED <<kind, page, pte, mem, swap, disk, latest>>
  BY Types, Zenon DEF TablesInv, FrameLocked, At, storage, clock
<1>2. /\ p \in ListOf(t) /\ p \in Page /\ page[p].alive /\ f \in Frame
      /\ op \in {"fault", "read", "write"} \cup GivesUp /\ op # "setup"
  <2>1. /\ p \in ListOf(t) /\ p \in Page /\ page[p].alive /\ f \in Frame
        /\ op \in {"fault", "read", "write"} \cup GivesUp
    BY <1>0, <1>1, OneOwner, Zenon DEF ThreadOK, OwnPage, FlockOK
  <2> QED BY <2>1, Zenon DEF GivesUp
<1>3. (Exiting(t) <=> Giving(t)) /\ (Giving(t) <=> op \in GivesUp)
  BY <1>0, <1>1, Zenon DEF Exiting, Giving
<1>4. CASE /\ frame[f].lock = NULL /\ page[p].frame = f
           /\ frame' = [frame EXCEPT ![f].lock = t]
           /\ Goto(t, After(op, p))
  <2>1. \A g \in Frame : frame'[g].lock = IF g = f THEN t ELSE frame[g].lock
    BY <1>1, <1>4, Types, ZenonT(60) DEF TypeOK, FrameRecord
  <2>2. PICK l \in {"set", "clear", "drop", "kernel"} : l = After(op, p)  BY Zenon DEF After
  <2>3. /\ th'[t].pc = l /\ th'[t].op = op /\ th'[t].pg = p
        /\ \A u \in Proc \ {t} : th'[u] = th[u]
    BY <1>0, <1>1, <1>4, <2>2, Zenon DEF Goto, TypeOK, Locals
  <2>4. (l \in {"clear", "drop"} <=> op \in GivesUp) /\ (l = "set" => op = "fault")
    BY <1>2, <2>2, Zenon DEF After, GivesUp
  <2>5. /\ Giving(t)' <=> op \in GivesUp
        /\ Exiting(t)' <=> Giving(t)'
    BY <2>3, <2>4, Zenon DEF Exiting, Giving
  <2>6. BeginOK(t)'  BY <1>2, <2>3, Zenon DEF BeginOK
  <2>7. \A q \in Page : Untouched(t, q)  BY <1>1, <1>2, <2>1, LockedUntouched, Zenon
  <2>8. CASE l # "set"
    BY <1>1, <1>3, <2>3, <2>5, <2>6, <2>7, <2>8, PlainStep, ZenonT(60)
  <2>9. CASE l = "set"
    <3>1. op \notin GivesUp  BY <2>4, <2>9, Zenon DEF GivesUp
    <3>2. {p} \in SUBSET Page /\ \A q \in Page \ {p} : Untouched(t, q)  BY <1>2, <2>7, Zenon
    <3>3. SettledOK(t, p) /\ UnbornOK(t, p) /\ MappedOK(t, p) /\ ContentsOK(p)
      BY <1>2, Zenon DEF ContentsInv, OwnedOK
    <3>4. ContentsOK(p)' /\ (page'[p].file => page[p].file)
      BY <1>1, <3>3, Zenon DEF ContentsOK
    <3>5. OwnedOK(t, p)'
      <4>1. SettledOK(t, p)'  BY <1>1, <1>3, <1>4, <3>1, <3>3, ZenonT(60) DEF SettledOK
      <4>2. UnbornOK(t, p)'  BY <1>1, <1>2, Zenon DEF UnbornOK
      <4>3. MappedOK(t, p)'  BY <1>1, <2>5, <3>1, <3>3, ZenonT(60) DEF MappedOK
      <4> QED BY <4>1, <4>2, <4>3, Zenon DEF OwnedOK
    <3>6. \A q \in {p} : ContentsOK(q)' /\ (page'[q].file => page[q].file)  BY <3>4, Zenon
    <3>7. \A u \in Proc : \A q \in ListOf(u) \cap {p} : OwnedOK(u, q)'
      BY <1>2, <3>5, OneOwner, ZenonT(60)
    <3>8. th'[t].pc = "set" => th'[t].pg \in {p} \/ th'[t] = th[t]  BY <2>3, Zenon
    <3> QED BY <1>1, <1>3, <2>3, <2>5, <2>6, <3>1, <3>2, <3>6, <3>7, <3>8, ContentsStep, ZenonT(60)
  <2> QED BY <2>8, <2>9, Zenon
<1>5. CASE /\ th' = [th EXCEPT ![t].pc = IF op \in {"dealloc", "destroy"} THEN "drop" ELSE "scan",
                               ![t].f = NULL]
           /\ frame' = frame
  <2>1. PICK l \in {"drop", "scan"} :
          /\ l = IF op \in {"dealloc", "destroy"} THEN "drop" ELSE "scan"
          /\ l = "drop" <=> op \in GivesUp
    BY Zenon DEF GivesUp
  <2>2. /\ th'[t].pc = l /\ th'[t].op = op /\ th'[t].pg = p
        /\ \A u \in Proc \ {t} : th'[u] = th[u]
    BY <1>0, <1>1, <1>5, <2>1, ZenonT(60) DEF TypeOK, Locals
  <2>3. /\ Giving(t)' <=> op \in GivesUp
        /\ Exiting(t)' <=> Giving(t)'
    BY <2>1, <2>2, Zenon DEF Exiting, Giving
  <2>4. BeginOK(t)'  BY <1>2, <2>2, Zenon DEF BeginOK
  <2>5. th'[t].pc # "set"  BY <2>2, Zenon
  <2> QED BY <1>1, <1>3, <1>5, <2>2, <2>3, <2>4, <2>5, NothingTouched, PlainStep, ZenonT(60)
<1>6. CASE UNCHANGED <<frame, th>>  BY <1>1, <1>6, StopContents, Zenon
<1> QED BY <1>0, <1>4, <1>5, <1>6, Zenon DEF FrameLocked

\* A step of t touches page v of u only.
LEMMA OnePageStep ==
  ASSUME TablesInv, ContentsInv, NEW t \in Proc, NEW u \in Proc, NEW v \in ListOf(u),
         kind' = kind, \A x \in Proc \ {t} : th'[x] = th[x],
         \A p \in Page \ {v} : Untouched(t, p),
         ContentsOK(v)', page'[v].file => page[v].file, OwnedOK(u, v)',
         BeginOK(t)', Exiting(t) => Exiting(t)', Giving(t) => Giving(t)',
         th'[t].pc = "set" => th'[t].pg = v \/ th'[t] = th[t],
         \/ ~Exiting(t)' \/ Giving(t)
         \/ \A p \in ListOf(t) \ {v} : MappedOK(t, p)'
  PROVE  ContentsInv'
<1>1. {v} \in SUBSET Page  BY OneOwner, Zenon
<1>2. \A p \in {v} : ContentsOK(p)' /\ (page'[p].file => page[p].file)  BY Zenon
<1>3. \A x \in Proc : \A p \in ListOf(x) \cap {v} : OwnedOK(x, p)'
  <2> SUFFICES ASSUME NEW x \in Proc, NEW p \in ListOf(x) \cap {v} PROVE OwnedOK(x, p)'
    OBVIOUS
  <2>1. p = v /\ p \in ListOf(x)  BY Zenon
  <2>2. x = u  BY <2>1, OneOwner, Zenon
  <2> QED BY <2>1, <2>2, Zenon
<1>4. th'[t].pc = "set" => th'[t].pg \in {v} \/ th'[t] = th[t]  BY Zenon
<1> QED BY <1>1, <1>2, <1>3, <1>4, ContentsStep, Zenon

\* The locals of a thread outside the paging code.
LEMMA IdleFields == Idle.pc = "user" /\ Idle.op = NULL /\ Idle.i = 0
BY DEF Idle

\* An access to a page that is present.
LEMMA TouchContents ==
  ASSUME TablesInv, ContentsInv, NEW p \in Page, NEW w \in BOOLEAN, pte[p].P, Touch(p, w),
         page' = page
  PROVE  /\ ContentsOK(p)' /\ pte'[p].P /\ page[p].alive /\ UNCHANGED <<swap, disk>>
         /\ \A q \in Page \ {p} :
              /\ pte'[q] = pte[q] /\ latest'[q] = latest[q]
              /\ page[q].alive /\ page[q].frame # NULL
                   => mem'[page[q].frame] = mem[page[q].frame]
<1>1. /\ TypeOK /\ ContentsOK(p) /\ page[p].alive /\ page[p].frame # NULL
      /\ page[p].frame \in Frame
  BY Types, Zenon DEF TablesInv, ContentsInv, PageOK
<1>2. PICK f \in Frame : f = page[p].frame /\ pte[p].frame = f
  BY <1>1, Zenon DEF TablesInv, PageOK
<1>3. /\ pte'[p].P /\ (w => pte'[p].D) /\ (~w => (pte'[p].D <=> pte[p].D))
      /\ \A q \in Page \ {p} : pte'[q] = pte[q]
  <2>1. PICK c : c = [pte[p] EXCEPT !.A = TRUE, !.D = @ \/ w]  BY Zenon
  <2>2. c.P /\ (w => c.D) /\ (~w => (c.D <=> pte[p].D))
    BY <1>1, <2>1, Types, Zenon DEF PteRecord
  <2>3. pte' = [pte EXCEPT ![p] = c]  BY <1>1, <2>1, Zenon DEF Touch, TypeOK
  <2> QED BY <1>1, <2>2, <2>3, Zenon DEF TypeOK
<1>4. \A q \in Page \ {p} : page[q].alive /\ page[q].frame # NULL => page[q].frame # f
  BY <1>1, <1>2, OneFrame, Zenon
<1>5. CASE w
  <2>1. mem' = [mem EXCEPT ![f] = <<p, 2>>] /\ latest' = [latest EXCEPT ![p] = 2]
    BY <1>2, <1>5, Zenon DEF Touch
  <2>2. /\ mem'[f] = <<p, 2>> /\ latest'[p] = 2
        /\ \A g \in Frame \ {f} : mem'[g] = mem[g]
        /\ \A q \in Page \ {p} : latest'[q] = latest[q]
    BY <1>1, <2>1, Zenon DEF TypeOK
  <2>3. ContentsOK(p)'
    <3>1. page[p].sector # NULL => ~page[p].file  BY <1>1, Zenon DEF ContentsOK
    <3> QED BY <1>1, <1>2, <1>3, <1>5, <2>2, <3>1, Zenon DEF ContentsOK
  <2>4. \A q \in Page : page[q].frame \in Frame \cup {NULL}  BY <1>1, Types, Zenon
  <2> QED BY <1>1, <1>3, <1>4, <2>2, <2>3, <2>4, Zenon DEF Touch
<1>6. CASE ~w
  <2>1. UNCHANGED <<mem, latest, swap, disk>>  BY <1>6, Zenon DEF Touch
  <2>2. ContentsOK(p)'  BY <1>1, <1>3, <1>6, <2>1, SMTT(60) DEF ContentsOK
  <2> QED BY <1>1, <1>3, <2>1, <2>2, Zenon
<1> QED BY <1>5, <1>6, Zenon

\* The process reads or writes a present page.
LEMMA UserAccessContents ==
  ASSUME TablesInv, ContentsInv, NEW t \in Proc, NEW p \in Page, NEW w \in BOOLEAN,
         UserAccess(t, p, w)
  PROVE  ContentsInv'
<1>1. /\ BeginOK(t) /\ th[t].pc = "user" /\ pte[p].P /\ Touch(p, w) /\ p \in ListOf(t)
      /\ UNCHANGED <<kind, page, frame, th>>
  BY Zenon DEF ContentsInv, UserAccess, At, clock
<1>2. /\ ContentsOK(p)' /\ pte'[p].P /\ page[p].alive /\ UNCHANGED <<swap, disk>>
      /\ \A q \in Page \ {p} : /\ pte'[q] = pte[q] /\ latest'[q] = latest[q]
                               /\ page[q].alive /\ page[q].frame # NULL
                                    => mem'[page[q].frame] = mem[page[q].frame]
  BY <1>1, TouchContents, Zenon
<1>3. \A q \in Page \ {p} : Untouched(t, q)  BY <1>1, <1>2, Zenon DEF Untouched
<1>4. ~Exiting(t) /\ ~Exiting(t)' /\ ~Giving(t)  BY <1>1, Zenon DEF Exiting, Giving
<1>5. OwnedOK(t, p)'
  <2>1. MappedOK(t, p)  BY <1>1, Zenon DEF ContentsInv, OwnedOK
  <2> QED BY <1>1, <1>2, <1>4, <2>1, Zenon DEF OwnedOK, SettledOK, UnbornOK, MappedOK
<1>6. BeginOK(t)'  BY <1>1, Zenon DEF BeginOK
<1> QED BY <1>1, <1>2, <1>3, <1>4, <1>5, <1>6, OnePageStep, ZenonT(60)

\* The kernel reads or writes the page it has locked.
LEMMA KernelAccessContents ==
  ASSUME TablesInv, ContentsInv, NEW t \in Proc, KernelAccess(t)
  PROVE  ContentsInv'
<1>1. TypeOK /\ ThreadOK(t) /\ th[t].pc = "kernel" /\ UNCHANGED <<kind, page>>
  BY Zenon DEF TablesInv, KernelAccess, At, clock
<1>2. PICK p \in Page : p = th[t].pg /\ p \in ListOf(t) /\ page[p].alive  BY <1>1, Own, Zenon
<1>3. PICK f \in Frame : Locked(t, f, p) /\ page[p].frame = f
  BY <1>1, <1>2, Zenon DEF ThreadOK, SetOK, Locked
<1>4. CASE ~pte[p].P
  <2>1. UNCHANGED <<pte, mem, swap, disk, latest, frame, th>>
    BY <1>2, <1>4, Zenon DEF KernelAccess, storage
  <2> QED BY <1>1, <2>1, StopContents, Zenon
<1>5. CASE pte[p].P
  <2>1. PICK w \in BOOLEAN : w <=> th[t].op = "write"  BY Zenon
  <2>2. /\ Touch(p, w) /\ frame' = [frame EXCEPT ![f].lock = NULL]
        /\ th' = [th EXCEPT ![t] = Idle]
    BY <1>2, <1>3, <1>5, <2>1, SMTT(60) DEF KernelAccess, Unlocked
  <2>3. /\ ContentsOK(p)' /\ pte'[p].P /\ page[p].alive /\ UNCHANGED <<swap, disk>>
        /\ \A q \in Page \ {p} : /\ pte'[q] = pte[q] /\ latest'[q] = latest[q]
                                 /\ page[q].alive /\ page[q].frame # NULL
                                      => mem'[page[q].frame] = mem[page[q].frame]
    BY <1>1, <1>5, <2>2, TouchContents, Zenon
  <2>4. th'[t] = Idle /\ \A u \in Proc \ {t} : th'[u] = th[u]
    BY <1>1, <2>2, IdleTypes, Assigned, Zenon
  <2>5. \A q \in Page \ {p} : Untouched(t, q)
    <3>1. \A g \in Frame \ {f} : frame'[g] = frame[g]  BY <1>1, <2>2, Unlocking, Zenon
    <3>2. \A q \in Page \ {p} : page[q].alive /\ page[q].frame # NULL
                                  => page[q].frame \in Frame \ {f}
      BY <1>1, <1>2, <1>3, OneFrame, Types, Zenon
    <3> QED BY <1>1, <2>3, <3>1, <3>2, Zenon DEF Untouched
  <2>6. th'[t].pc = "user" /\ th'[t].op = NULL /\ th'[t].i = 0
    BY <2>4, IdleFields, Zenon
  <2>7. ~Exiting(t) /\ ~Exiting(t)' /\ ~Giving(t)  BY <1>1, <2>6, Zenon DEF Exiting, Giving
  <2>8. OwnedOK(t, p)'
    <3>1. MappedOK(t, p)  BY <1>2, Zenon DEF ContentsInv, OwnedOK
    <3> QED BY <1>1, <2>3, <2>7, <3>1, Zenon DEF OwnedOK, SettledOK, UnbornOK, MappedOK
  <2>9. BeginOK(t)'  BY <2>6, Zenon DEF BeginOK
  <2> QED BY <1>1, <1>2, <2>3, <2>4, <2>5, <2>6, <2>7, <2>8, <2>9, OnePageStep, ZenonT(60)
<1> QED BY <1>4, <1>5, Zenon

\* The other pages are in other frames than the one that holds this page.
LEMMA Elsewhere ==
  ASSUME TablesInv, NEW p \in Page, NEW f \in Frame, frame[f].page = p
  PROVE  \A q \in Page \ {p} : page[q].alive /\ page[q].frame # NULL
                                 => page[q].frame \in Frame \ {f}
<1>1. TypeOK  BY Zenon DEF TablesInv
<1> QED BY <1>1, Types, Zenon DEF TablesInv, PageOK

\* The page comes to be there, if it is one the stack grows by.
LEMMA PageInContents ==
  ASSUME TablesInv, ContentsInv, NEW t \in Proc, NEW p \in Page,
         NEW op \in {"fault", "read", "write"}, PageIn(t, p, op)
  PROVE  ContentsInv'
<1>1. /\ TypeOK /\ ThreadOK(t) /\ th[t].pc = "user" /\ p \in ListOf(t)
      /\ page' = [page EXCEPT ![p].alive = TRUE] /\ FrameLock(t, p, op)
      /\ UNCHANGED <<pte, frame, mem, swap, disk, latest, kind>>
  BY Zenon DEF TablesInv, PageIn, At, page_for_addr, storage
<1>2. /\ page'[p].alive /\ page'[p].frame = page[p].frame /\ page'[p].sector = page[p].sector
      /\ (page'[p].file <=> page[p].file) /\ (page'[p].private <=> page[p].private)
      /\ \A q \in Page \ {p} : page'[q] = page[q]
  <2>1. PICK r : r = [page[p] EXCEPT !.alive = TRUE]  BY Zenon
  <2>2. /\ r.alive /\ r.frame = page[p].frame /\ r.sector = page[p].sector
        /\ r.file = page[p].file /\ r.private = page[p].private
    BY <1>1, <2>1, Types, Zenon DEF PageRecord
  <2>3. page' = [page EXCEPT ![p] = r]  BY <1>1, <2>1, Zenon DEF TypeOK
  <2> QED BY <1>1, <2>2, <2>3, Zenon DEF TypeOK
<1>3. /\ \A u \in Proc \ {t} : th'[u] = th[u]
      /\ th'[t].op = op /\ th'[t].pg = p /\ th'[t].pc \in {"flock", "scan"}
  <2>1. op \in Op /\ op \notin {"dealloc", "destroy"}  BY Zenon DEF Op
  <2> QED BY <1>1, <2>1, FrameLockSets, Zenon
<1>4. ~Exiting(t) /\ ~Giving(t) /\ ~Exiting(t)'
  BY <1>1, <1>3, Zenon DEF Exiting, Giving, GivesUp
<1>5. /\ ContentsOK(p) /\ SettledOK(t, p) /\ UnbornOK(t, p) /\ MappedOK(t, p)
      /\ page[p].alive \/ page[p].frame = NULL
  BY <1>1, <1>4, Zenon DEF ContentsInv, OwnedOK, ThreadOK, AliveOK
<1>6. ContentsOK(p)'
  <2>1. CASE page[p].alive  BY <1>1, <1>2, <1>5, <2>1, SMTT(60) DEF ContentsOK
  <2>2. CASE ~page[p].alive
    <3>1. page[p].frame = NULL /\ page[p].sector = NULL /\ ~page[p].file /\ latest[p] = 0
      BY <1>4, <1>5, <2>2, ZenonT(60) DEF UnbornOK
    <3> QED BY <1>1, <1>2, <3>1, SMTT(60) DEF ContentsOK
  <2> QED BY <2>1, <2>2, ZenonT(60)
<1>7. OwnedOK(t, p)'
  <2>1. SettledOK(t, p)'
    BY <1>1, <1>2, <1>3, <1>4, <1>5, Zenon DEF SettledOK
  <2>2. UnbornOK(t, p)'  BY <1>2, Zenon DEF UnbornOK
  <2>3. MappedOK(t, p)'  BY <1>1, <1>2, <1>4, <1>5, Zenon DEF MappedOK
  <2> QED BY <2>1, <2>2, <2>3, ZenonT(60) DEF OwnedOK
<1>8. \A q \in Page \ {p} : Untouched(t, q)  BY <1>1, <1>2, Zenon DEF Untouched
<1>9. BeginOK(t)'  BY <1>3, Zenon DEF BeginOK
<1> QED BY <1>1, <1>2, <1>3, <1>4, <1>6, <1>7, <1>8, <1>9, OnePageStep, ZenonT(60)

\* setup_stack puts the command line into the page.
LEMMA StackReadyContents ==
  ASSUME TablesInv, ContentsInv, NEW t \in Proc, StackReady(t)
  PROVE  ContentsInv'
<1>1. /\ TypeOK /\ ThreadOK(t) /\ BeginOK(t) /\ th[t].pc = "given" /\ th[t].op = "setup"
      /\ th' = [th EXCEPT ![t] = Idle] /\ UNCHANGED <<pte, swap, disk, kind>>
  BY Zenon DEF TablesInv, ContentsInv, StackReady, At, clock
<1>2. PICK p \in Page, f \in Frame :
        /\ p = th[t].pg /\ f = th[t].f /\ p \in ListOf(t) /\ page[p].alive
        /\ page[p].frame = NULL /\ Locked(t, f, p) /\ frame[f].page = p /\ ~pte[p].P
  BY <1>1, Given, Zenon
<1>3. /\ page' = [page EXCEPT ![p].frame = f, ![p].private = FALSE]
      /\ mem' = [mem EXCEPT ![f] = <<p, 1>>]
      /\ latest' = [latest EXCEPT ![p] = 1]
      /\ frame' = [frame EXCEPT ![f].lock = NULL]
  BY <1>2, Zenon DEF StackReady, Unlocked
<1>4. page[p].sector = NULL /\ ~page[p].file
  BY <1>1, <1>2, Zenon DEF ThreadOK, SetupOK, BeginOK
<1>5. /\ page'[p].frame = f /\ page'[p].alive /\ page'[p].sector = NULL /\ ~page'[p].file
      /\ \A q \in Page \ {p} : page'[q] = page[q]
  <2>1. PICK r : r = [page[p] EXCEPT !.frame = f, !.private = FALSE]  BY Zenon
  <2>0. page[p] \in PageRecord /\ page[p].alive  BY <1>1, <1>2, Types, Zenon
  <2>2. r.frame = f /\ r.alive /\ r.sector = NULL /\ ~r.file
    BY <1>4, <2>0, <2>1, Zenon DEF PageRecord
  <2>3. page' = [page EXCEPT ![p] = r]  BY <1>1, <1>3, <2>1, Zenon DEF TypeOK
  <2> QED BY <1>1, <2>2, <2>3, Zenon DEF TypeOK
<1>6. /\ mem'[f] = <<p, 1>> /\ \A g \in Frame \ {f} : mem'[g] = mem[g]
      /\ latest'[p] = 1 /\ \A q \in Page \ {p} : latest'[q] = latest[q]
  BY <1>1, <1>3, Zenon DEF TypeOK
<1>7. \A g \in Frame \ {f} : frame'[g] = frame[g]  BY <1>1, <1>3, Unlocking, Zenon
<1>8. \A q \in Page \ {p} : Untouched(t, q)
  BY <1>1, <1>2, <1>5, <1>6, <1>7, Elsewhere, Zenon DEF Untouched
<1>9. th'[t] = Idle /\ \A u \in Proc \ {t} : th'[u] = th[u]
  BY <1>1, IdleTypes, Assigned, Zenon
<1>10. th'[t].pc = "user" /\ th'[t].op = NULL /\ th'[t].i = 0  BY <1>9, IdleFields, Zenon
<1>11. ~Exiting(t) /\ ~Giving(t) /\ ~Exiting(t)'  BY <1>1, <1>10, Zenon DEF Exiting, Giving
<1>12. ContentsOK(p)'
  <2>1. f # NULL  BY <1>1, Types, Zenon
  <2> QED BY <1>5, <1>6, <2>1, Zenon DEF ContentsOK
<1>13. OwnedOK(t, p)'
  <2>1. MappedOK(t, p)  BY <1>2, Zenon DEF ContentsInv, OwnedOK
  <2> QED BY <1>1, <1>4, <1>5, <2>1, Zenon DEF OwnedOK, SettledOK, UnbornOK, MappedOK
<1>14. BeginOK(t)'  BY <1>10, Zenon DEF BeginOK
<1>15. th'[t].pc # "set" /\ (page'[p].file => page[p].file)  BY <1>5, <1>10, Zenon
<1> QED BY <1>1, <1>2, <1>8, <1>9, <1>11, <1>12, <1>13, <1>14, <1>15, OnePageStep, ZenonT(60)

\* Two pages do not share a slot.
LEMMA OneSlot ==
  ASSUME TablesInv, NEW p \in Page, NEW q \in Page, page[p].sector # NULL,
         page[q].sector = page[p].sector
  PROVE  p = q
<1>1. swap[page[p].sector] \in {p} \X Version /\ swap[page[p].sector] \in {q} \X Version
  BY Zenon DEF TablesInv, StorageOK
<1> QED BY <1>1

\* do_page_in puts the contents of the page into the frame, from wherever they are.
LEMMA FillContents ==
  ASSUME TablesInv, ContentsInv, NEW t \in Proc, Fill(t)
  PROVE  ContentsInv'
<1>1. /\ TypeOK /\ th[t].pc = "given" /\ th[t].op # "setup" /\ Goto(t, "set")
      /\ UNCHANGED <<pte, frame, disk, latest, kind>>
  BY Zenon DEF TablesInv, Fill, At, clock
<1>2. PICK p \in Page, f \in Frame :
        /\ p = th[t].pg /\ f = th[t].f /\ p \in ListOf(t) /\ page[p].alive
        /\ page[p].frame = NULL /\ Locked(t, f, p) /\ frame[f].page = p /\ ~pte[p].P
  BY <1>1, Given, Zenon
<1>3. /\ IF page[p].sector # NULL
         THEN swap_in(f, page[p].sector)
         ELSE /\ mem' = [mem EXCEPT ![f] = <<p, IF page[p].file THEN disk[p] ELSE 0>>]
              /\ UNCHANGED swap
      /\ page' = [page EXCEPT ![p].frame = f, ![p].sector = NULL]
  BY <1>2, Zenon DEF Fill
<1>4. /\ page'[p].frame = f /\ page'[p].alive /\ page'[p].sector = NULL
      /\ (page'[p].file <=> page[p].file) /\ (page'[p].private <=> page[p].private)
      /\ \A q \in Page \ {p} : page'[q] = page[q]
  <2>1. PICK r : r = [page[p] EXCEPT !.frame = f, !.sector = NULL]  BY Zenon
  <2>0. page[p] \in PageRecord /\ page[p].alive  BY <1>1, <1>2, Types, Zenon
  <2>2. /\ r.frame = f /\ r.alive /\ r.sector = NULL
        /\ r.file = page[p].file /\ r.private = page[p].private
    BY <2>0, <2>1, Zenon DEF PageRecord
  <2>3. page' = [page EXCEPT ![p] = r]  BY <1>1, <1>3, <2>1, Zenon DEF TypeOK
  <2> QED BY <1>1, <2>2, <2>3, Zenon DEF TypeOK
<1>5. /\ ContentsOK(p) /\ MappedOK(t, p) /\ f # NULL
  BY <1>1, <1>2, Types, Zenon DEF ContentsInv, OwnedOK
<1>6. /\ mem'[f] = <<p, latest[p]>> /\ \A g \in Frame \ {f} : mem'[g] = mem[g]
      /\ page[p].file => disk[p] = latest[p]
      /\ \A q \in Page \ {p} : page[q].sector # NULL
                                 => swap'[page[q].sector] = swap[page[q].sector]
  <2>1. CASE page[p].sector = NULL
    <3>1. PICK n : n = IF page[p].file THEN disk[p] ELSE 0  BY Zenon
    <3>2. latest[p] = n  BY <1>2, <1>5, <2>1, <3>1, Zenon DEF ContentsOK
    <3>3. mem' = [mem EXCEPT ![f] = <<p, n>>] /\ swap' = swap  BY <1>3, <2>1, <3>1, Zenon
    <3> QED BY <1>1, <3>1, <3>2, <3>3, Zenon DEF TypeOK
  <2>2. CASE page[p].sector # NULL
    <3>1. PICK s \in Slot : s = page[p].sector  BY <1>1, <2>2, Types, Zenon
    <3>2. mem' = [mem EXCEPT ![f] = swap[s]] /\ swap' = [swap EXCEPT ![s] = NULL]
      BY <1>3, <2>2, <3>1, Zenon DEF swap_in
    <3>3. swap[s] = <<p, latest[p]>> /\ ~page[p].file
      BY <1>2, <1>5, <2>2, <3>1, Zenon DEF ContentsOK
    <3>4. ASSUME NEW q \in Page \ {p}, page[q].sector # NULL
          PROVE  swap'[page[q].sector] = swap[page[q].sector]
      <4>1. page[q].sector # s  BY <3>1, <3>4, OneSlot, Zenon
      <4>2. page[q].sector \in Slot  BY <1>1, <3>4, Types, Zenon
      <4> QED BY <1>1, <3>2, <4>1, <4>2, Zenon DEF TypeOK
    <3> QED BY <1>1, <3>2, <3>3, <3>4, Zenon DEF TypeOK
  <2> QED BY <2>1, <2>2, Zenon
<1>7. th'[t].pc = "set" /\ th'[t].pg = p /\ \A u \in Proc \ {t} : th'[u] = th[u]
  BY <1>1, <1>2, Types, ZenonT(60) DEF Goto, TypeOK, Locals
<1>8. ~Exiting(t) /\ ~Giving(t) /\ ~Exiting(t)'  BY <1>1, <1>7, Zenon DEF Exiting, Giving
<1>9. \A q \in Page \ {p} : Untouched(t, q)
  BY <1>1, <1>2, <1>4, <1>6, Elsewhere, Zenon DEF Untouched
<1>10. ContentsOK(p)'  BY <1>1, <1>4, <1>5, <1>6, Zenon DEF ContentsOK
<1>11. OwnedOK(t, p)'
  <2>1. SettledOK(t, p)'  BY <1>1, <1>4, <1>6, Zenon DEF SettledOK
  <2> QED BY <1>1, <1>4, <1>5, <1>8, <2>1, ZenonT(60) DEF OwnedOK, UnbornOK, MappedOK
<1>12. BeginOK(t)'  BY <1>7, Zenon DEF BeginOK
<1>13. (page'[p].file => page[p].file) /\ kind' = kind  BY <1>1, <1>4, Zenon
<1> QED BY <1>2, <1>7, <1>8, <1>9, <1>10, <1>11, <1>12, <1>13, OnePageStep, ZenonT(60)

\* page_in or page_lock sets the entry of the page, or fails.
LEMMA SetPageContents ==
  ASSUME TablesInv, ContentsInv, NEW t \in Proc, SetPage(t)
  PROVE  ContentsInv'
<1>1. /\ TypeOK /\ ThreadOK(t) /\ th[t].pc = "set" /\ th[t] \in Locals
      /\ UNCHANGED <<kind, page, mem, swap, disk, latest>>
  BY Types, Zenon DEF TablesInv, SetPage, At, storage, clock
<1>2. PICK p \in Page : p = th[t].pg /\ p \in ListOf(t) /\ page[p].alive  BY <1>1, Own, Zenon
<1>3. PICK f \in Frame :
        /\ f = th[t].f /\ frame[f].page = p /\ frame[f].lock = t /\ page[p].frame = f /\ ~pte[p].P
  BY <1>1, <1>2, Zenon DEF ThreadOK, SetOK, Locked
<1>4. ContentsOK(p) /\ SettledOK(t, p) /\ UnbornOK(t, p) /\ MappedOK(t, p) /\ f # NULL
  BY <1>1, <1>2, Types, Zenon DEF ContentsInv, OwnedOK
<1>5. ~Exiting(t) /\ ~Giving(t)  BY <1>1, Zenon DEF Exiting, Giving
<1>6. page[p].file => disk[p] = latest[p]
  BY <1>1, <1>2, <1>3, <1>4, <1>5, ZenonT(60) DEF SettledOK
<1>7. \A g \in Frame \ {f} : frame'[g] = frame[g]
  <2>1. CASE th[t].op = "fault"
    <3>1. frame' = [frame EXCEPT ![f].lock = NULL]  BY <1>3, <2>1, Zenon DEF SetPage, Unlocked
    <3> QED BY <1>1, <3>1, Unlocking, Zenon
  <2>2. CASE th[t].op # "fault"  BY <2>2, Zenon DEF SetPage
  <2> QED BY <2>1, <2>2, Zenon
<1>8. \A q \in Page \ {p} : page[q].alive /\ page[q].frame # NULL
                              => page[q].frame \in Frame \ {f}
  BY <1>3, Elsewhere, Zenon
<1>9. CASE /\ pagedir_set_page(p, f)
           /\ th' = [th EXCEPT ![t] = IF th[t].op = "fault" THEN Idle
                                      ELSE [@ EXCEPT !.pc = "kernel"]]
  <2>1. pte'[p].P /\ \A q \in Page \ {p} : pte'[q] = pte[q]
    <3>1. PICK c : c = [P |-> TRUE, A |-> FALSE, D |-> FALSE, frame |-> f]  BY Zenon
    <3>2. c.P  BY <3>1, Zenon
    <3>3. pte' = [pte EXCEPT ![p] = c]  BY <1>9, <3>1, Zenon DEF pagedir_set_page
    <3> QED BY <1>1, <3>2, <3>3, Zenon DEF TypeOK
  <2>2. PICK r \in Locals : /\ th' = [th EXCEPT ![t] = r]
                            /\ r.pc = "kernel" \/ r = Idle
    <3>1. CASE th[t].op = "fault"  BY <1>9, <3>1, IdleTypes, Zenon
    <3>2. CASE th[t].op # "fault"
      <4>1. PICK r : r = [th[t] EXCEPT !.pc = "kernel"]  BY Zenon
      <4>2. r \in Locals /\ r.pc = "kernel"  BY <1>1, <4>1, Zenon DEF Locals, Label
      <4>3. th' = [th EXCEPT ![t] = r]  BY <1>1, <1>9, <3>2, <4>1, ZenonT(60) DEF TypeOK
      <4> QED BY <4>2, <4>3, Zenon
    <3> QED BY <3>1, <3>2, Zenon
  <2>3. th'[t] = r /\ \A u \in Proc \ {t} : th'[u] = th[u]  BY <1>1, <2>2, Assigned, Zenon
  <2>4. th'[t].pc \in {"kernel", "user"} /\ (th'[t].pc = "user" => th'[t].i = 0)
    BY <2>2, <2>3, IdleFields, Zenon
  <2>5. ~Exiting(t)'  BY <2>4, Zenon DEF Exiting, Giving
  <2>6. \A q \in Page \ {p} : Untouched(t, q)  BY <1>1, <1>7, <1>8, <2>1, Zenon DEF Untouched
  <2>7. ContentsOK(p)'  BY <1>1, <1>3, <1>4, <1>6, Zenon DEF ContentsOK
  <2>8. OwnedOK(t, p)'
    BY <1>1, <1>2, <1>4, <2>1, <2>5, ZenonT(60) DEF OwnedOK, SettledOK, UnbornOK, MappedOK
  <2>9. BeginOK(t)'  BY <2>4, Zenon DEF BeginOK
  <2>10. (page'[p].file => page[p].file) /\ th'[t].pc # "set"  BY <1>1, <2>4, Zenon
  <2> QED BY <1>1, <1>2, <1>5, <2>3, <2>5, <2>6, <2>7, <2>8, <2>9, <2>10, OnePageStep, ZenonT(60)
<1>10. CASE th' = [th EXCEPT ![t] = [Idle EXCEPT !.pc = "unmap"]] /\ UNCHANGED pte
  <2>1. PICK r : r = [Idle EXCEPT !.pc = "unmap"]  BY Zenon
  <2>2. r \in Locals /\ r.pc = "unmap" /\ r.i = 0
    BY <2>1, IdleTypes, IdleFields, Zenon DEF Locals, Label
  <2>3. /\ th'[t].pc = "unmap" /\ th'[t].i = 0
        /\ \A u \in Proc \ {t} : th'[u] = th[u]
    BY <1>1, <1>10, <2>1, <2>2, Assigned, Zenon
  <2>4. Exiting(t)'  BY <2>3, Zenon DEF Exiting
  <2>5. \A q \in ListOf(t) : MappedOK(t, q)'  BY <1>1, <2>3, UnmapBegins, ZenonT(60)
  <2>6. \A q \in Page \ {p} : Untouched(t, q)  BY <1>1, <1>7, <1>8, <1>10, Zenon DEF Untouched
  <2>7. ContentsOK(p)'  BY <1>1, <1>4, <1>10, ZenonT(60) DEF ContentsOK
  <2>8. OwnedOK(t, p)'
    BY <1>1, <1>2, <2>4, <2>5, ZenonT(60) DEF OwnedOK, SettledOK, UnbornOK
  <2>9. BeginOK(t)'  BY <2>3, Zenon DEF BeginOK
  <2>10. (page'[p].file => page[p].file) /\ th'[t].pc # "set"  BY <1>1, <2>3, Zenon
  <2>11. \A q \in ListOf(t) \ {p} : MappedOK(t, q)'  BY <2>5, Zenon
  <2> QED BY <1>1, <1>2, <1>5, <2>3, <2>4, <2>6, <2>7, <2>8, <2>9, <2>10, <2>11, OnePageStep, ZenonT(60)
<1> QED BY <1>2, <1>3, <1>9, <1>10, Zenon DEF SetPage

\* page_out has taken page v out of frame f: its contents are in swap or in its file.
Saved(t, v, f) ==
  /\ \/ th[t].op = "dealloc" /\ Goto(t, "drop") /\ UNCHANGED frame
     \/ /\ th[t].op # "dealloc" /\ Goto(t, "given")
        /\ frame' = [frame EXCEPT ![f].page = th[t].pg]
  /\ ContentsOK(v)' /\ page'[v].alive /\ page'[v].frame = NULL
  /\ page'[v].file => page[v].file
  /\ page[v].file /\ ~page[v].private
       => /\ page'[v].file /\ ~page'[v].private /\ page'[v].sector = NULL
          /\ disk'[v] = latest'[v]
  /\ \A q \in Page \ {v} : /\ page'[q] = page[q] /\ disk'[q] = disk[q]
                           /\ page[q].sector # NULL
                                => swap'[page[q].sector] = swap[page[q].sector]

\* page_out with a free slot: the contents of the page are in swap or in its file.
LEMMA SavedContents ==
  ASSUME TablesInv, ContentsInv, NEW t \in Proc, NEW v \in Page, NEW f \in Frame,
         Matched(v, f), Room # {}, SavePage(t, v, f, pte[v].D), halt = "no",
         halt' # "nofile", UNCHANGED <<mem, latest>>
  PROVE  Saved(t, v, f)
<1>1. /\ TypeOK /\ f # NULL /\ page[v] \in PageRecord /\ page[v].alive /\ page[v].frame = f
      /\ page[v].sector = NULL /\ mem[f] = <<v, latest[v]>>
      /\ page[v].file /\ ~pte[v].D => disk[v] = latest[v]
  <2>1. TypeOK /\ page[v].alive /\ page[v].frame = f  BY Zenon DEF TablesInv, Matched
  <2>2. f # NULL /\ page[v] \in PageRecord  BY <2>1, Types, Zenon
  <2>3. page[v].sector = NULL  BY <2>1, <2>2, Zenon DEF TablesInv, StorageOK
  <2>4. /\ mem[f] = <<v, latest[v]>>
        /\ page[v].file /\ ~pte[v].D => disk[v] = latest[v]
    BY <2>1, <2>2, Zenon DEF ContentsInv, ContentsOK
  <2> QED BY <2>1, <2>2, <2>3, <2>4, ZenonT(60)
<1>2. page[v].file \/ ~pte[v].D  BY Zenon DEF SavePage
<1>3. /\ \/ th[t].op = "dealloc" /\ Goto(t, "drop") /\ UNCHANGED frame
         \/ /\ th[t].op # "dealloc" /\ Goto(t, "given")
            /\ frame' = [frame EXCEPT ![f].page = th[t].pg]
      /\ IF ~page[v].file \/ (pte[v].D /\ page[v].private)
         THEN swap_out(v, f)
         ELSE page' = [page EXCEPT ![v].frame = NULL] /\ swap' = swap
      /\ disk' = IF pte[v].D /\ page[v].file /\ ~page[v].private
                 THEN [disk EXCEPT ![v] = mem[f][2]] ELSE disk
  BY <1>2, Zenon DEF SavePage
<1>4. CASE ~page[v].file \/ (pte[v].D /\ page[v].private)
  <2>1. PICK s \in Slot :
          /\ swap[s] = NULL /\ swap' = [swap EXCEPT ![s] = mem[f]]
          /\ page' = [page EXCEPT ![v].sector = s, ![v].private = FALSE, ![v].file = FALSE,
                                  ![v].frame = NULL]
    BY <1>3, <1>4, Zenon DEF swap_out, FirstFree, Room
  <2>2. disk' = disk  BY <1>3, <1>4, Zenon
  <2>3. /\ page'[v].frame = NULL /\ page'[v].alive /\ page'[v].sector = s /\ ~page'[v].file
        /\ \A q \in Page \ {v} : page'[q] = page[q]
    <3>1. PICK r : r = [page[v] EXCEPT !.sector = s, !.private = FALSE, !.file = FALSE,
                                       !.frame = NULL]
      BY Zenon
    <3>2. r.frame = NULL /\ r.alive /\ r.sector = s /\ ~r.file
      BY <1>1, <3>1, Zenon DEF PageRecord
    <3>3. page' = [page EXCEPT ![v] = r]  BY <1>1, <2>1, <3>1, Zenon DEF TypeOK
    <3> QED BY <1>1, <3>2, <3>3, Zenon DEF TypeOK
  <2>4. swap'[s] = <<v, latest[v]>> /\ \A z \in Slot \ {s} : swap'[z] = swap[z]
    BY <1>1, <2>1, Zenon DEF TypeOK
  <2>5. ASSUME NEW q \in Page, page[q].sector # NULL
        PROVE  swap'[page[q].sector] = swap[page[q].sector]
    <3>1. page[q].sector \in Slot /\ swap[page[q].sector] \in {q} \X Version
      BY <1>1, <2>5, Types, ZenonT(60) DEF TablesInv, StorageOK
    <3>2. swap[page[q].sector] \in Page \X Version  BY <3>1
    <3>3. page[q].sector # s  BY <2>1, <3>2, PagingAssumption, Zenon DEF Data
    <3> QED BY <2>4, <3>1, <3>3, Zenon
  <2>6. ContentsOK(v)'
    <3>1. s # NULL  BY <1>1, Types, Zenon
    <3> QED BY <2>3, <2>4, <3>1, ZenonT(60) DEF ContentsOK
  <2>7. ~(page[v].file /\ ~page[v].private)  BY <1>4, Zenon
  <2> QED BY <1>3, <2>2, <2>3, <2>5, <2>6, <2>7, ZenonT(60) DEF Saved
<1>5. CASE page[v].file /\ ~(pte[v].D /\ page[v].private)
  <2>1. page' = [page EXCEPT ![v].frame = NULL] /\ swap' = swap  BY <1>3, <1>5, Zenon
  <2>2. /\ page'[v].frame = NULL /\ page'[v].alive /\ page'[v].sector = NULL /\ page'[v].file
        /\ (page'[v].private <=> page[v].private)
        /\ \A q \in Page \ {v} : page'[q] = page[q]
    <3>1. PICK r : r = [page[v] EXCEPT !.frame = NULL]  BY Zenon
    <3>2. r.frame = NULL /\ r.alive /\ r.sector = NULL /\ r.file /\ r.private = page[v].private
      BY <1>1, <1>5, <3>1, ZenonT(60) DEF PageRecord
    <3>3. page' = [page EXCEPT ![v] = r]  BY <1>1, <2>1, <3>1, ZenonT(60) DEF TypeOK
    <3> QED BY <1>1, <3>2, <3>3, ZenonT(60) DEF TypeOK
  <2>3. disk'[v] = latest[v] /\ \A q \in Page \ {v} : disk'[q] = disk[q]
    <3>1. CASE pte[v].D
      <4>1. PICK n : n = mem[f][2]  BY Zenon
      <4>2. n = latest[v]  BY <1>1, <4>1, SMTT(60)
      <4>3. disk' = [disk EXCEPT ![v] = n]  BY <1>3, <1>5, <3>1, <4>1, ZenonT(60)
      <4> QED BY <1>1, <4>2, <4>3, ZenonT(60) DEF TypeOK
    <3>2. CASE ~pte[v].D  BY <1>1, <1>3, <1>5, <3>2, ZenonT(60)
    <3> QED BY <3>1, <3>2, Zenon
  <2>4. ContentsOK(v)'  BY <2>2, <2>3, ZenonT(60) DEF ContentsOK
  <2> QED BY <1>3, <1>5, <2>1, <2>2, <2>3, <2>4, ZenonT(60) DEF Saved
<1> QED BY <1>4, <1>5, Zenon

\* A page that is not in a slot finds a free one.
RoomForAll == \A v \in Page : page[v].sector = NULL => Room # {}

\* page_out, with room in swap, saves the page, or the kernel stops.
LEMMA SaveContents ==
  ASSUME RoomForAll, TablesInv, ContentsInv, NEW t \in Proc, At(t, "save"),
         SavePage(t, frame[th[t].f].page, th[t].f, pagedir_is_dirty(frame[th[t].f].page)),
         UNCHANGED <<pte, mem, clock, latest>>
  PROVE  ContentsInv'
<1>1. /\ TypeOK /\ ThreadOK(t) /\ BeginOK(t) /\ halt = "no" /\ th[t].pc = "save"
      /\ th[t] \in Locals /\ UNCHANGED <<pte, mem, latest, kind>>
  BY Types, Zenon DEF TablesInv, ContentsInv, At, clock
<1>2. PICK v \in Page, f \in Frame :
        /\ f = th[t].f /\ frame[f].page = v /\ Matched(v, f)
        /\ th[t].op \in {"dealloc"} \cup Wants
  BY <1>1, Zenon DEF ThreadOK, EvictOK, Locked
<1>3. SavePage(t, v, f, pte[v].D)  BY <1>2, Zenon DEF pagedir_is_dirty
<1>4. PICK p \in Page : p = th[t].pg  BY <1>1, Own, Zenon
<1>5. CASE halt' = "nofile"
  <2>1. UNCHANGED <<page, swap, disk, frame, th>>
    <3>1. halt' # halt  BY <1>1, <1>5, Zenon
    <3> QED BY <1>3, <3>1, Zenon DEF SavePage
  <2> QED BY <1>1, <2>1, StopContents, Zenon
<1>6. CASE halt' # "nofile"
  <2>1. Room # {}
    <3>1. page[v].sector = NULL
      BY <1>1, <1>2, Types, ZenonT(60) DEF TablesInv, StorageOK, Matched
    <3> QED BY <3>1, Zenon DEF RoomForAll
  <2>2. Saved(t, v, f)  BY <1>1, <1>2, <1>3, <1>6, <2>1, SavedContents, ZenonT(60)
  <2>3. \A g \in Frame : frame'[g].lock = frame[g].lock
    <3>1. CASE UNCHANGED frame  BY <3>1, Zenon
    <3>2. CASE frame' = [frame EXCEPT ![f].page = th[t].pg]
      BY <1>1, <3>2, Types, ZenonT(60) DEF TypeOK, FrameRecord
    <3> QED BY <2>2, <3>1, <3>2, ZenonT(60) DEF Saved
  <2>4. /\ \A u \in Proc \ {t} : th'[u] = th[u]
        /\ th'[t].op = th[t].op /\ th'[t].pg = p
        /\ \/ th'[t].pc = "drop" /\ th[t].op \in GivesUp
           \/ th'[t].pc = "given" /\ th[t].op \notin GivesUp
    <3>1. th[t].op # "dealloc" => th[t].op \notin GivesUp  BY <1>2, ZenonT(60) DEF Wants, GivesUp
    <3>2. PICK l \in {"drop", "given"} :
            Goto(t, l) /\ (l = "drop" <=> th[t].op \in GivesUp)
      BY <2>2, <3>1, Zenon DEF Saved, GivesUp
    <3> QED BY <1>1, <1>4, <3>2, ZenonT(60) DEF Goto, TypeOK, Locals
  <2>5. /\ Giving(t) <=> th[t].op \in GivesUp
        /\ Giving(t)' <=> th[t].op \in GivesUp
        /\ Exiting(t) <=> Giving(t)
        /\ Exiting(t)' <=> Giving(t)'
    BY <1>1, <2>4, ZenonT(60) DEF Exiting, Giving
  <2>6. \A q \in Page \ {v} : Untouched(t, q)
    <3>1. \A q \in Page : page[q].frame # NULL => page[q].frame \in Frame
      BY <1>1, Types, ZenonT(60)
    <3> QED BY <1>1, <2>2, <2>3, <3>1, ZenonT(60) DEF Saved, Untouched
  <2>7. PICK u \in Proc : v \in ListOf(u)  BY Zenon DEF Page
  <2>8. OwnedOK(u, v)'
    <3>1. MappedOK(u, v)  BY <2>7, Zenon DEF ContentsInv, OwnedOK
    <3> QED BY <1>1, <2>2, <3>1, ZenonT(60) DEF Saved, OwnedOK, SettledOK, UnbornOK, MappedOK
  <2>9. BeginOK(t)'
    <3>1. page'[p].file => page[p].file  BY <2>2, ZenonT(60) DEF Saved
    <3>2. th[t].op = "setup" => ~page[p].file  BY <1>1, <1>4, Zenon DEF BeginOK
    <3> QED BY <2>4, <3>1, <3>2, Zenon DEF BeginOK
  <2>10. th'[t].pc # "set" /\ (~Exiting(t)' \/ Giving(t))  BY <2>4, <2>5, ZenonT(60)
  <2>11. ContentsOK(v)' /\ (page'[v].file => page[v].file)  BY <2>2, Zenon DEF Saved
  <2> QED BY <1>1, <2>4, <2>5, <2>6, <2>7, <2>8, <2>9, <2>10, <2>11, OnePageStep, ZenonT(60)
<1> QED BY <1>5, <1>6, ZenonT(60)

\* Both steps of page_out.
LEMMA PageOutContents ==
  ASSUME RoomForAll, TablesInv, ContentsInv, NEW t \in Proc, PageOut(t)
  PROVE  ContentsInv'
BY ClearContents, SaveContents, ZenonT(60) DEF PageOut

\* A process begins to exit, with unmap of its mapping.
LEMMA ExitContents ==
  ASSUME TablesInv, ContentsInv, NEW t \in Proc, Exit(t)
  PROVE  ContentsInv'
<1>1. /\ TypeOK /\ BeginOK(t) /\ th[t].pc = "user"
      /\ UNCHANGED <<kind, page, pte, frame, mem, swap, disk, latest>>
  BY Zenon DEF TablesInv, ContentsInv, Exit, At, storage, clock
<1>2. /\ th'[t].pc = "unmap" /\ th'[t].i = th[t].i
      /\ \A u \in Proc \ {t} : th'[u] = th[u]
  BY <1>1, Types, ZenonT(60) DEF Exit, Goto, TypeOK, Locals
<1>3. th'[t].i = 0  BY <1>1, <1>2, Zenon DEF BeginOK
<1>4. ~Exiting(t) /\ ~Giving(t) /\ Exiting(t)'  BY <1>1, <1>2, Zenon DEF Exiting, Giving
<1>5. BeginOK(t)'  BY <1>2, Zenon DEF BeginOK
<1>6. \A p \in ListOf(t) : MappedOK(t, p)'  BY <1>1, <1>2, <1>3, UnmapBegins, ZenonT(60)
<1>7. th'[t].pc # "set"  BY <1>2, Zenon
<1> QED BY <1>1, <1>2, <1>4, <1>5, <1>6, <1>7, NothingTouched, PlainStep, ZenonT(60)

\* A page that unmap has not seen, and whose contents the file may not have, is ahead.
LEMMA NotSaved ==
  ASSUME TypeOK, ContentsInv, NEW t \in Proc, th[t].pc \in {"unmap", "store"},
         NEW p \in ListOf(t), kind[p] = "mmap", disk[p] # latest[p]
  PROVE  \A k \in 1 .. Len(Pages[t]) : Pages[t][k] = p => k \in Ahead(t)
<1>1. MappedOK(t, p) /\ Exiting(t)  BY Zenon DEF ContentsInv, OwnedOK, Exiting
<1>2. SUFFICES ASSUME NEW k \in 1 .. Len(Pages[t]), Pages[t][k] = p  PROVE k \in Ahead(t)
  BY Zenon
<1>3. th[t].i < k  BY <1>1, <1>2, Zenon DEF MappedOK
<1>4. th[t].i \in Nat  BY Types, Zenon
<1>5. k > th[t].i  BY <1>3, <1>4, Zenon
<1> QED BY <1>2, <1>5, Zenon DEF Ahead, Mapping

\* The first loop of unmap: a page whose dirty bit is clear is as in the file.
LEMMA UnmapContents ==
  ASSUME TablesInv, ContentsInv, NEW t \in Proc, Unmap(t)
  PROVE  ContentsInv'
<1>1. /\ TypeOK /\ ThreadOK(t) /\ th[t].pc = "unmap" /\ th[t].i \in Nat /\ th[t] \in Locals
      /\ UNCHANGED <<kind, page, pte, frame, mem, swap, disk, latest>>
  BY Types, Zenon DEF TablesInv, Unmap, At, storage, clock
<1>2. /\ th'[t].pc \in {"unmap", "store", "dealloc"} /\ \A u \in Proc \ {t} : th'[u] = th[u]
      /\ \/ Ahead(t) = {}
         \/ th'[t].pc = "store" /\ th'[t].i = th[t].i
         \/ \E k \in Ahead(t) : /\ \A j \in Ahead(t) : k <= j
                                /\ ~pte[Pages[t][k]].D
                                /\ th'[t].pc = "unmap" /\ th'[t].i = k
  <2>1. CASE Ahead(t) = {} /\ th' = [th EXCEPT ![t].pc = "dealloc", ![t].i = 0]
    BY <1>1, <2>1, Zenon DEF TypeOK, Locals
  <2>2. CASE th' = [th EXCEPT ![t].pc = "store"]
    BY <1>1, <2>2, Zenon DEF TypeOK, Locals
  <2>3. ASSUME NEW k \in Ahead(t), \A j \in Ahead(t) : k <= j, ~pte[Pages[t][k]].D,
               th' = [th EXCEPT ![t].i = k]
        PROVE  /\ th'[t].pc = "unmap" /\ th'[t].i = k
               /\ \A u \in Proc \ {t} : th'[u] = th[u]
    BY <1>1, <2>3, Zenon DEF TypeOK, Locals
  <2> QED BY <2>1, <2>2, <2>3, Zenon DEF Unmap, pagedir_is_dirty
<1>3. Exiting(t) /\ ~Giving(t) /\ Exiting(t)'  BY <1>1, <1>2, Zenon DEF Exiting, Giving
<1>4. BeginOK(t)'  BY <1>2, Zenon DEF BeginOK
<1>5. ASSUME NEW p \in ListOf(t) PROVE MappedOK(t, p)'
  <2>1. MappedOK(t, p) /\ p \in Page /\ ContentsOK(p)
    BY OneOwner, Zenon DEF ContentsInv, OwnedOK
  <2>2. CASE kind[p] # "mmap" \/ disk[p] = latest[p]  BY <1>1, <2>1, <2>2, Zenon DEF MappedOK
  <2>3. CASE kind[p] = "mmap" /\ disk[p] # latest[p]
    <3>1. \A k \in 1 .. Len(Pages[t]) : Pages[t][k] = p => k \in Ahead(t)
      BY <1>1, <2>3, NotSaved, Zenon
    <3>2. Ahead(t) # {}  BY <3>1, Zenon DEF ListOf
    <3>3. CASE th'[t].pc = "store" /\ th'[t].i = th[t].i
      BY <1>1, <1>3, <2>1, <2>3, <3>3, Zenon DEF MappedOK
    <3>4. ASSUME NEW k \in Ahead(t), \A j \in Ahead(t) : k <= j, ~pte[Pages[t][k]].D,
                 th'[t].pc = "unmap", th'[t].i = k
          PROVE  MappedOK(t, p)'
      <4>1. page[p].file /\ ~page[p].private /\ page[p].sector = NULL
        BY <2>1, <2>3, Zenon DEF MappedOK
      <4>2. page[p].alive
        <5>1. kind[p] # "grown"  BY <2>3, Zenon
        <5> QED BY <1>1, <1>3, <5>1, Zenon DEF ThreadOK, AliveOK
      <4>3. pte[p].D
        BY <2>1, <2>3, <4>1, <4>2, ZenonT(60) DEF ContentsOK
      <4>4. \A j \in 1 .. Len(Pages[t]) : Pages[t][j] = p => k < j
        <5>1. SUFFICES ASSUME NEW j \in 1 .. Len(Pages[t]), Pages[t][j] = p PROVE k < j
          BY Zenon
        <5>2. k <= j /\ j # k  BY <3>1, <3>4, <4>3, <5>1, ZenonT(60)
        <5>3. k \in Int  BY DEF Ahead, Mapping
        <5> QED BY <5>2, <5>3, SMTT(60)
      <4> QED BY <1>1, <3>4, <4>1, <4>4, Zenon DEF MappedOK
    <3> QED BY <1>2, <3>2, <3>3, <3>4, Zenon
  <2> QED BY <2>2, <2>3, Zenon
<1>6. th'[t].pc # "set"  BY <1>2, Zenon
<1> QED BY <1>1, <1>2, <1>3, <1>4, <1>5, <1>6, NothingTouched, PlainStep, ZenonT(60)

\* file_write_at copies the rest of the mapping to the file.
LEMMA StoreMappedContents ==
  ASSUME TablesInv, ContentsInv, NEW t \in Proc, StoreMapped(t)
  PROVE  ContentsInv'
<1>1. /\ TypeOK /\ ThreadOK(t) /\ th[t].pc = "store" /\ th[t] \in Locals
      /\ UNCHANGED <<page, frame, mem, swap, latest, kind>>
  BY Types, Zenon DEF TablesInv, StoreMapped, At, clock
<1>2. PICK rest : rest = {Pages[t][k] : k \in Ahead(t)}  BY Zenon
<1>3. rest \subseteq ListOf(t) /\ rest \in SUBSET Page /\ \A p \in ListOf(t) : p \in Page
  BY <1>2, OneOwner, Zenon DEF Ahead, Mapping, ListOf
<1>4. CASE ~\A p \in rest : pte[p].P
  <2>1. UNCHANGED <<disk, pte, th>>  BY <1>2, <1>4, Zenon DEF StoreMapped
  <2> QED BY <1>1, <2>1, StopContents, ZenonT(60)
<1>5. CASE \A p \in rest : pte[p].P
  <2>1. /\ disk' = [p \in Page |-> IF p \in rest THEN mem[pte[p].frame][2] ELSE disk[p]]
        /\ pte' = [p \in Page |-> IF p \in rest THEN [pte[p] EXCEPT !.A = TRUE] ELSE pte[p]]
        /\ \E k \in Ahead(t) : th' = [th EXCEPT ![t].pc = "unmap", ![t].i = k]
    BY <1>2, <1>5, Zenon DEF StoreMapped
  <2>2. th'[t].pc = "unmap" /\ \A u \in Proc \ {t} : th'[u] = th[u]
    BY <1>1, <2>1, ZenonT(60) DEF TypeOK, Locals
  <2>3. Exiting(t) /\ ~Giving(t) /\ Exiting(t)'  BY <1>1, <2>2, Zenon DEF Exiting, Giving
  <2>4. ASSUME NEW p \in rest
        PROVE  /\ disk'[p] = latest[p] /\ pte'[p].P /\ (pte'[p].D <=> pte[p].D)
               /\ page[p].alive /\ page[p].frame # NULL
    <3>1. p \in Page /\ pte[p].P  BY <1>3, <1>5, Zenon
    <3>2. page[p].alive /\ page[p].frame # NULL /\ pte[p].frame = page[p].frame
      BY <3>1, ZenonT(60) DEF TablesInv, PageOK
    <3>3. mem[pte[p].frame] = <<p, latest[p]>>
      BY <3>1, <3>2, Zenon DEF ContentsInv, ContentsOK
    <3>4. mem[pte[p].frame][2] = latest[p]  BY <3>3, SMTT(60)
    <3>5. disk'[p] = latest[p] /\ pte'[p] = [pte[p] EXCEPT !.A = TRUE]
      BY <2>1, <3>1, <3>4, ZenonT(60)
    <3>6. pte'[p].P /\ (pte'[p].D <=> pte[p].D)
      BY <1>1, <3>1, <3>5, Types, ZenonT(60) DEF PteRecord
    <3> QED BY <3>2, <3>5, <3>6, Zenon
  <2>5. \A p \in Page \ rest : disk'[p] = disk[p] /\ pte'[p] = pte[p]  BY <2>1, Zenon
  <2>6. \A p \in Page \ rest : Untouched(t, p)  BY <1>1, <2>5, Zenon DEF Untouched
  <2>7. \A p \in rest : ContentsOK(p)' /\ (page'[p].file => page[p].file)
    <3>1. \A p \in rest : ContentsOK(p)  BY <1>3, Zenon DEF ContentsInv
    <3> QED BY <1>1, <2>4, <3>1, ZenonT(60) DEF ContentsOK
  <2>8. \A u \in Proc : \A p \in ListOf(u) \cap rest : OwnedOK(u, p)'
    <3>1. SUFFICES ASSUME NEW u \in Proc, NEW p \in ListOf(u) \cap rest PROVE OwnedOK(u, p)'
      BY Zenon
    <3>2. MappedOK(u, p) /\ p \in rest  BY Zenon DEF ContentsInv, OwnedOK
    <3> QED BY <1>1, <2>4, <3>2, Zenon DEF OwnedOK, SettledOK, UnbornOK, MappedOK
  <2>9. \A p \in ListOf(t) \ rest : MappedOK(t, p)'
    <3>1. SUFFICES ASSUME NEW p \in ListOf(t) \ rest PROVE MappedOK(t, p)'  BY Zenon
    <3>2. MappedOK(t, p) /\ p \in ListOf(t) /\ p \in Page \ rest
      BY <1>3, Zenon DEF ContentsInv, OwnedOK
    <3>3. kind[p] = "mmap" => disk[p] = latest[p]
      BY <1>1, <1>2, <3>2, NotSaved, Zenon DEF ListOf
    <3> QED BY <1>1, <2>5, <3>2, <3>3, ZenonT(60) DEF MappedOK
  <2>10. BeginOK(t)'  BY <2>2, Zenon DEF BeginOK
  <2>11. th'[t].pc = "set" => th'[t].pg \in rest \/ th'[t] = th[t]  BY <2>2, Zenon
  <2> QED BY <1>1, <1>3, <2>2, <2>3, <2>6, <2>7, <2>8, <2>9, <2>10, <2>11, ContentsStep, ZenonT(60)
<1> QED BY <1>4, <1>5, Zenon

\* The exiting process goes on to its next page, or has none left.
LEMMA GiveUpContents ==
  ASSUME TablesInv, ContentsInv, NEW t \in Proc, GiveUp(t)
  PROVE  ContentsInv'
<1>1. PICK l \in {"dealloc", "destroy"} :
        /\ th[t].pc = l
        /\ \/ \E k \in Left(t, l) : FrameLock(t, Pages[t][k], l)
           \/ th' = [th EXCEPT ![t] =
                       [Idle EXCEPT !.pc = IF l = "dealloc" THEN "destroy" ELSE "exited"]]
        /\ UNCHANGED <<page, pte, frame, mem, swap, disk, latest, kind>>
  BY Zenon DEF GiveUp, At, storage, clock
<1>2. TypeOK /\ Giving(t) /\ l \in GivesUp  BY <1>1, Zenon DEF TablesInv, Giving, GivesUp
<1>3. /\ \A u \in Proc \ {t} : th'[u] = th[u]
      /\ \/ th'[t].op = l /\ th'[t].pc \in {"flock", "drop"}
         \/ th'[t].pc \in {"destroy", "exited"}
  <2>1. CASE \E k \in Left(t, l) : FrameLock(t, Pages[t][k], l)
    <3>1. PICK p \in ListOf(t) : FrameLock(t, p, l)
      BY <2>1, Zenon DEF Left, Mapping, ListOf
    <3>2. p \in Page /\ l \in Op /\ l \in {"dealloc", "destroy"}
      BY OneOwner, Zenon DEF Op
    <3> QED BY <1>2, <3>1, <3>2, FrameLockSets, Zenon
  <2>2. CASE th' = [th EXCEPT ![t] =
                      [Idle EXCEPT !.pc = IF l = "dealloc" THEN "destroy" ELSE "exited"]]
    <3>1. PICK m \in {"destroy", "exited"} : m = IF l = "dealloc" THEN "destroy" ELSE "exited"
      BY Zenon
    <3>2. PICK r : r = [Idle EXCEPT !.pc = m]  BY Zenon
    <3>3. r \in Locals /\ r.pc = m  BY <3>2, IdleTypes, Zenon DEF Locals, Label
    <3>4. th' = [th EXCEPT ![t] = r]  BY <2>2, <3>1, <3>2, Zenon
    <3> QED BY <1>2, <3>3, <3>4, Assigned, Zenon
  <2> QED BY <1>1, <2>1, <2>2, Zenon
<1>4. Giving(t)' /\ Exiting(t)'  BY <1>2, <1>3, Zenon DEF Giving, Exiting
<1>5. BeginOK(t)' /\ th'[t].pc # "set"  BY <1>3, Zenon DEF BeginOK
<1> QED BY <1>1, <1>2, <1>3, <1>4, <1>5, NothingTouched, PlainStep, ZenonT(60)

\* The page is gone.
LEMMA DropContents ==
  ASSUME TablesInv, ContentsInv, NEW t \in Proc, Drop(t)
  PROVE  ContentsInv'
<1>1. /\ TypeOK /\ ThreadOK(t) /\ th[t].pc = "drop" /\ th[t].op \in GivesUp
      /\ UNCHANGED <<swap, disk, latest, kind>>
  BY Zenon DEF TablesInv, ThreadOK, DropOK, Drop, At, clock
<1>2. PICK p \in Page : p = th[t].pg /\ p \in ListOf(t) /\ page[p].alive  BY <1>1, Own, Zenon
<1>3. /\ page' = [page EXCEPT ![p].alive = FALSE] /\ pte' = [pte EXCEPT ![p] = NoPte]
      /\ th' = [th EXCEPT ![t] = [Idle EXCEPT !.pc = th[t].op]]
  BY <1>2, Zenon DEF Drop
<1>4. /\ ~page'[p].alive /\ page'[p].sector = page[p].sector
      /\ (page'[p].file <=> page[p].file) /\ (page'[p].private <=> page[p].private)
      /\ \A q \in Page \ {p} : page'[q] = page[q]
  <2>1. PICK r : r = [page[p] EXCEPT !.alive = FALSE]  BY Zenon
  <2>2. page[p] \in PageRecord  BY <1>1, Types, Zenon
  <2>3. /\ ~r.alive /\ r.sector = page[p].sector
        /\ r.file = page[p].file /\ r.private = page[p].private
    BY <2>1, <2>2, Zenon DEF PageRecord
  <2>4. page' = [page EXCEPT ![p] = r]  BY <1>1, <1>3, <2>1, Zenon DEF TypeOK
  <2> QED BY <1>1, <2>3, <2>4, ZenonT(60) DEF TypeOK
<1>5. \A q \in Page \ {p} : pte'[q] = pte[q]  BY <1>1, <1>3, ZenonT(60) DEF TypeOK
<1>6. th'[t].pc \in GivesUp /\ \A u \in Proc \ {t} : th'[u] = th[u]
  <2>1. PICK l \in GivesUp : l = th[t].op  BY <1>1, Zenon
  <2>2. PICK r : r = [Idle EXCEPT !.pc = l]  BY Zenon
  <2>3. r \in Locals /\ r.pc = l  BY <2>2, IdleTypes, Zenon DEF Locals, Label, GivesUp
  <2>4. th' = [th EXCEPT ![t] = r]  BY <1>3, <2>1, <2>2, ZenonT(60)
  <2> QED BY <1>1, <2>3, <2>4, Assigned, ZenonT(60)
<1>7. Giving(t) /\ Exiting(t) /\ Giving(t)' /\ Exiting(t)'
  BY <1>1, <1>6, ZenonT(60) DEF Giving, Exiting, GivesUp
<1>8. \A q \in Page \ {p} : page[q].alive /\ page[q].frame # NULL
        => /\ frame'[page[q].frame] = frame[page[q].frame]
           /\ mem'[page[q].frame] = mem[page[q].frame]
  <2>1. CASE th[t].f = NULL  BY <2>1, Zenon DEF Drop
  <2>2. CASE th[t].f # NULL
    <3>1. PICK f \in Frame : f = th[t].f /\ frame[f].page = p
      BY <1>1, <1>2, <2>2, Zenon DEF ThreadOK, DropOK, Locked
    <3>2. PICK c : c = [page |-> NULL, lock |-> NULL]  BY Zenon
    <3>3. frame' = [frame EXCEPT ![f] = c] /\ mem' = [mem EXCEPT ![f] = NULL]
      BY <2>2, <3>1, <3>2, Zenon DEF Drop, frame_free
    <3>4. \A g \in Frame \ {f} : frame'[g] = frame[g] /\ mem'[g] = mem[g]
      BY <1>1, <3>3, Zenon DEF TypeOK
    <3> QED BY <3>1, <3>4, Elsewhere, Zenon
  <2> QED BY <2>1, <2>2, Zenon
<1>9. \A q \in Page \ {p} : Untouched(t, q)
  BY <1>1, <1>4, <1>5, <1>8, Zenon DEF Untouched
<1>10. ContentsOK(p)'
  <2>1. page[p].sector # NULL => ~page[p].file  BY Zenon DEF ContentsInv, ContentsOK
  <2> QED BY <1>4, <2>1, Zenon DEF ContentsOK
<1>11. OwnedOK(t, p)'
  <2>1. MappedOK(t, p) /\ th[t].pc \notin {"unmap", "store"}
    BY <1>1, <1>2, Zenon DEF ContentsInv, OwnedOK
  <2>2. MappedOK(t, p)'  BY <1>1, <1>4, <1>7, <2>1, Zenon DEF MappedOK
  <2> QED BY <1>4, <1>7, <2>2, Zenon DEF OwnedOK, SettledOK, UnbornOK
<1>12. BeginOK(t)' /\ th'[t].pc # "set"  BY <1>6, Zenon DEF BeginOK, GivesUp
<1>13. page'[p].file => page[p].file  BY <1>4, Zenon
<1> QED BY <1>1, <1>2, <1>6, <1>7, <1>9, <1>10, <1>11, <1>12, <1>13, OnePageStep, ZenonT(60)

-----------------------------------------------------------------------------
(***************************************************************************)
(* The contents of pages: theorems                                         *)
(***************************************************************************)

\* At boot every page is as in its file, or all zeros.
LEMMA ContentsInit == Init => ContentsInv
<1> SUFFICES ASSUME Init PROVE ContentsInv  OBVIOUS
<1>1. ASSUME NEW p \in Page
      PROVE  /\ page[p].frame = NULL /\ page[p].sector = NULL
             /\ page[p].alive <=> kind[p] # "grown"
             /\ page[p].private <=> kind[p] \in {"data", "stack", "grown"}
             /\ page[p].file <=> kind[p] \in {"data", "text", "mmap"}
             /\ disk[p] = 0 /\ latest[p] = 0
  <2>1. page[p] = Fresh(p) /\ disk[p] = 0 /\ latest[p] = 0  BY Zenon DEF Init
  <2>2. Fresh(p).frame = NULL /\ Fresh(p).sector = NULL  BY Zenon DEF Fresh
  <2>3. Fresh(p).alive <=> kind[p] # "grown"  BY Zenon DEF Fresh
  <2>4. Fresh(p).private <=> kind[p] \in {"data", "stack", "grown"}  BY Zenon DEF Fresh
  <2>5. Fresh(p).file <=> kind[p] \in {"data", "text", "mmap"}  BY Zenon DEF Fresh
  <2> QED BY <2>1, <2>2, <2>3, <2>4, <2>5, ZenonT(60)
<1>2. ASSUME NEW p \in Page PROVE ContentsOK(p)
  <2>1. latest[p] = IF page[p].file THEN disk[p] ELSE 0  BY <1>1, Zenon
  <2> QED BY <1>1, <2>1, Zenon DEF ContentsOK
<1>3. \A t \in Proc : th[t].pc = "none"
  <2>1. PICK r : r = [Idle EXCEPT !.pc = "none"]  BY Zenon
  <2>2. r.pc = "none"  BY <2>1, IdleTypes, Zenon DEF Locals
  <2> QED BY <2>1, <2>2, Zenon DEF Init
<1>4. ASSUME NEW t \in Proc PROVE BeginOK(t)
  <2>1. Pages[t][1] \in Page
    <3>1. Pages[t][1] \in ListOf(t)  BY FirstPage, Zenon
    <3> QED BY <3>1, Zenon DEF Page
  <2>2. kind \in Layout  BY ZenonT(60) DEF Init
  <2>3. PICK p \in Page : p = Pages[t][1] /\ kind[p] = "stack"
    BY <2>1, <2>2, PagingAssumption, Zenon
  <2>4. ~page[p].file  BY <1>1, <2>3, Zenon
  <2> QED BY <1>3, <2>3, <2>4, Zenon DEF BeginOK
<1>5. ASSUME NEW t \in Proc, NEW p \in ListOf(t) PROVE OwnedOK(t, p)
  <2>1. p \in Page /\ ~Exiting(t)  BY <1>3, OneOwner, Zenon DEF Exiting, Giving
  <2>2. SettledOK(t, p)  BY <1>1, <2>1, Zenon DEF SettledOK
  <2>3. UnbornOK(t, p)  BY <1>1, <2>1, Zenon DEF UnbornOK
  <2>4. MappedOK(t, p)  BY <1>1, <2>1, Zenon DEF MappedOK
  <2> QED BY <2>2, <2>3, <2>4, ZenonT(60) DEF OwnedOK
<1> QED BY <1>2, <1>4, <1>5, Zenon DEF ContentsInv

-----------------------------------------------------------------------------
(***************************************************************************)
(* The contents of pages: theorems                                         *)
(***************************************************************************)

\* Swap is large enough for all pages at once.
SwapSuffices ==
  IsFiniteSet(Slot) /\ IsFiniteSet(Page) /\ Cardinality(Page) <= Cardinality(Slot)

INSTANCE FiniteSetTheorems

\* The slots in use belong to different pages, so that there is one for each of the others.
LEMMA RoomLeft ==
  ASSUME SwapSuffices, TablesInv PROVE RoomForAll
<1> SUFFICES ASSUME NEW v \in Page, page[v].sector = NULL, Room = {} PROVE FALSE
  BY Zenon DEF RoomForAll
<1>1. \A s \in Slot : /\ swap[s] # NULL /\ swap[s][1] \in Page
                      /\ page[swap[s][1]].sector = s /\ s # NULL
  BY SlotOfPage, Types, ZenonT(60) DEF Room, TablesInv, SlotOK
<1>2. PICK g : g = [s \in Slot |-> swap[s][1]]  BY ZenonT(60)
<1>3. g \in [Slot -> Page \ {v}]  BY <1>1, <1>2, Zenon
<1>4. \A r, s \in Slot : g[r] = g[s] => r = s  BY <1>1, <1>2, ZenonT(60)
<1>5. g \in Injection(Slot, Page \ {v})  BY <1>3, <1>4, SMTT(60) DEF Injection, IsInjective
<1>6. /\ IsFiniteSet(Page \ {v}) /\ Cardinality(Page \ {v}) = Cardinality(Page) - 1
      /\ Cardinality(Page) \in Nat
  BY FS_RemoveElement, FS_CardinalityType, SMTT(60) DEF SwapSuffices
<1>7. Cardinality(Slot) <= Cardinality(Page \ {v})  BY <1>5, <1>6, FS_Injection, Zenon
<1>8. Cardinality(Slot) \in Nat  BY FS_CardinalityType, SMTT(60) DEF SwapSuffices
<1> QED BY <1>6, <1>7, <1>8, SMTT(60) DEF SwapSuffices

\* Every step keeps ContentsInv, if swap is large enough.
LEMMA ContentsKept ==
  ASSUME SwapSuffices PROVE TablesInv /\ ContentsInv /\ [Next]_vars => ContentsInv'
<1> SUFFICES ASSUME TablesInv, ContentsInv, [Next]_vars PROVE ContentsInv'  OBVIOUS
<1>1. ASSUME NEW t \in Proc, Kernel(t) PROVE ContentsInv'
  <2>1. CASE SetupStack(t)  BY <2>1, SetupStackContents, ZenonT(60)
  <2>2. CASE FrameLocked(t)  BY <2>2, FrameLockedContents, ZenonT(60)
  <2>3. CASE Scan(t)  BY <2>3, ScanContents, Zenon
  <2>4. CASE FindFree(t)  BY <2>4, FindFreeContents, Zenon
  <2>5. CASE Clock(t)  BY <2>5, ClockContents, Zenon
  <2>6. CASE PageOut(t)  BY <2>6, RoomLeft, PageOutContents, ZenonT(60)
  <2>7. CASE StackReady(t)  BY <2>7, StackReadyContents, Zenon
  <2>8. CASE Fill(t)  BY <2>8, FillContents, Zenon
  <2>9. CASE SetPage(t)  BY <2>9, SetPageContents, Zenon
  <2>10. CASE KernelAccess(t)  BY <2>10, KernelAccessContents, Zenon
  <2>11. CASE Unmap(t)  BY <2>11, UnmapContents, Zenon
  <2>12. CASE StoreMapped(t)  BY <2>12, StoreMappedContents, Zenon
  <2>13. CASE GiveUp(t)  BY <2>13, GiveUpContents, Zenon
  <2>14. CASE Drop(t)  BY <2>14, DropContents, Zenon
  <2> QED BY <1>1, <2>1, <2>2, <2>3, <2>4, <2>5, <2>6, <2>7, <2>8, <2>9, <2>10, <2>11, <2>12,
             <2>13, <2>14, ZenonT(60) DEF Kernel
<1>2. ASSUME NEW t \in Proc, Exit(t) PROVE ContentsInv'  BY <1>2, ExitContents, Zenon
<1>3. ASSUME NEW t \in Proc, NEW p \in Page, NEW w \in BOOLEAN, UserAccess(t, p, w)
      PROVE  ContentsInv'
  BY <1>3, UserAccessContents, ZenonT(60)
<1>4. ASSUME NEW t \in Proc, NEW p \in Page, NEW op \in {"fault", "read", "write"},
             PageIn(t, p, op)
      PROVE  ContentsInv'
  BY <1>4, PageInContents, ZenonT(60)
<1>5. CASE UNCHANGED vars
  <2>1. UNCHANGED <<kind, page, pte, frame, mem, swap, disk, latest, th>>  BY <1>5, ZenonT(60) DEF vars
  <2>2. ASSUME NEW t \in Proc PROVE ContentsInv'  BY <2>1, StopContents, ZenonT(60)
  <2>3. CASE Proc = {}  BY <2>3, ZenonT(60) DEF ContentsInv, Page
  <2> QED BY <2>2, <2>3, ZenonT(60)
<1> QED BY <1>1, <1>2, <1>3, <1>4, <1>5, ZenonT(60) DEF Next, Halted

\* The contents of every page are where ContentsInv says, in every state.
THEOREM ContentsAlways == ASSUME SwapSuffices PROVE Spec => [](TablesInv /\ ContentsInv)
<1>1. TablesInv /\ ContentsInv /\ [Next]_vars => ContentsInv'  BY ContentsKept, Zenon
<1> QED BY <1>1, TablesInit, TablesStep, ContentsInit, PTL DEF Spec

\* With room in swap for every page, a present entry maps a frame that belongs to its page
\* and holds what the process last stored there: no order in which page_out, page_in,
\* frame_lock and exit meet loses or mixes up a page.
THEOREM ContentsKeptWhenPresent == ASSUME SwapSuffices PROVE Spec => []PresentIsCurrent
<1>1. TablesInv /\ ContentsInv => PresentIsCurrent
  <2> SUFFICES ASSUME TablesInv, ContentsInv, NEW p \in Page, Live(p), pte[p].P
               PROVE  /\ page[p].frame = pte[p].frame /\ frame[pte[p].frame].page = p
                      /\ mem[pte[p].frame] = <<p, latest[p]>>
    BY ZenonT(60) DEF PresentIsCurrent
  <2>1. page[p].alive /\ page[p].frame # NULL /\ pte[p].frame = page[p].frame
    BY ZenonT(60) DEF TablesInv, PageOK
  <2>2. frame[page[p].frame].page = p  BY <2>1, ZenonT(60) DEF TablesInv, PageOK
  <2>3. mem[page[p].frame] = <<p, latest[p]>>  BY <2>1, ZenonT(60) DEF ContentsInv, ContentsOK
  <2> QED BY <2>1, <2>2, <2>3, ZenonT(60)
<1> QED BY <1>1, ContentsAlways, PTL

\* A slot of the swap device belongs to one page, and a page not in memory finds its own
\* contents there.
THEOREM SwapKeepsPages == ASSUME SwapSuffices PROVE Spec => []SwapExact
<1>1. TablesInv /\ ContentsInv => SwapExact
  <2> SUFFICES ASSUME TablesInv, ContentsInv PROVE SwapExact  OBVIOUS
  <2>1. \A p, q \in Page : p # q /\ page[p].sector # NULL => page[p].sector # page[q].sector
    BY OneSlot, ZenonT(60)
  <2>2. ASSUME NEW p \in Page, Live(p), page[p].sector # NULL
        PROVE  swap[page[p].sector] = <<p, latest[p]>>
    <3>1. page[p].alive /\ page[p].frame = NULL
      BY <2>2, ZenonT(60) DEF Live, TablesInv, StorageOK
    <3> QED BY <2>2, <3>1, ZenonT(60) DEF ContentsInv, ContentsOK
  <2>3. \A s \in Slot : swap[s] # NULL => page[swap[s][1]].sector = s
    BY Zenon DEF TablesInv, SlotOK
  <2> QED BY <2>1, <2>2, <2>3, ZenonT(60) DEF SwapExact
<1> QED BY <1>1, ContentsAlways, PTL

\* After a process has exited, each file it mapped holds what it stored there: unmap misses
\* no modified page, whether page_out or file_write_at has written it.
THEOREM MappingsAreSaved == ASSUME SwapSuffices PROVE Spec => []MappingSaved
<1>1. ContentsInv => MappingSaved
  <2> SUFFICES ASSUME ContentsInv, NEW t \in Proc, th[t].pc \in {"destroy", "exited"},
                      NEW p \in ListOf(t), kind[p] = "mmap"
               PROVE  disk[p] = latest[p]
    BY Zenon DEF MappingSaved
  <2>1. MappedOK(t, p)  BY Zenon DEF ContentsInv, OwnedOK
  <2>2. Exiting(t) /\ th[t].pc \notin {"unmap", "store"}  BY Zenon DEF Exiting, Giving
  <2> QED BY <2>1, <2>2, ZenonT(60) DEF MappedOK
<1> QED BY <1>1, ContentsAlways, PTL
=============================================================================
