---------------------------- MODULE ProcessProofs ----------------------------
(***************************************************************************)
(* The wait_status shared by parent and child is counted right, freed once *)
(* and never used afterwards, wait returns the child's exit code, and the  *)
(* exec_info the child writes is alive: for any number of processes.       *)
(***************************************************************************)
EXTENDS LoadingProofs

-----------------------------------------------------------------------------
(***************************************************************************)
(* process_execute returns                                                 *)
(***************************************************************************)

\* The parent puts a loaded child's wait_status on its list, whatever the child has
\* done since it was loaded.
LEMMA ExecReturnKeeps ==
  ASSUME ProcessInv, NEW p \in Proc, ExecReturn(p)
  PROVE  ProcessInv'
<1> USE DEF Loading, Releasing
<1>1. /\ proc[p].pc = "exec_wait" /\ exec[p].load_done > 0 /\ exec[p].load_done = 1
      /\ UNCHANGED <<ws, fs_lock>> /\ TypeOK
      /\ proc \in [Proc -> Fields] /\ proc[p] \in Fields
  BY DEF ExecReturn, At, ProcessInv, TypeOK
<1>2. PICK c \in Proc : /\ c = proc[p].target /\ proc[c].parent = p
                        /\ c \notin Elems(proc[p].children)
                        /\ proc[c].pc \notin Loading
                        /\ exec[p].success = proc[c].has_status
  BY <1>1 DEF ProcessInv, TargetOf, LoadProtocol
<1>3. /\ proc[p].ret = NULL /\ p # c /\ proc[c].pc # "none"
      /\ proc[p].children \in Seq(Proc)
      /\ exec[p].success => Loaded(p, c)
      /\ NoDuplicates(proc[p].children) /\ \A d \in Elems(proc[p].children) : Loaded(p, d)
  <2>1. proc[p].ret = NULL  BY <1>1 DEF ProcessInv, Local
  <2>2. p # c  BY <1>2 DEF ProcessInv, Local
  <2>3. proc[c].pc # "none"  BY <1>2, ProcessAssumption DEF ProcessInv, Local
  <2>4. proc[p].children \in Seq(Proc)  BY <1>1 DEF Fields
  <2>5. ChildrenOf(p)  BY DEF ProcessInv
  <2> QED BY <1>2, <2>1, <2>2, <2>3, <2>4, <2>5, Zenon DEF Loaded, ChildrenOf
<1> DEFINE list == IF exec[p].success THEN Append(proc[p].children, c) ELSE proc[p].children
           point == IF p = Main THEN "user" ELSE "exec_unlock"
           r == [proc[p] EXCEPT !.pc = point, !.children = list, !.target = NULL]
<1>4. /\ list \in Seq(Proc) /\ NoDuplicates(list)
      /\ Elems(list) = Elems(proc[p].children) \cup (IF exec[p].success THEN {c} ELSE {})
  <2>1. CASE exec[p].success  BY <1>2, <1>3, <2>1, PushBack
  <2>2. CASE ~exec[p].success  BY <1>3, <2>2
  <2> QED BY <2>1, <2>2
<1>5. proc' = [proc EXCEPT ![p] = r]  BY <1>1, <1>2, Zenon DEF ExecReturn, Fields
<1>p. point \in {"user", "exec_unlock"} /\ point \in Label  BY DEF Label
<1> HIDE DEF list, point
<1>6. /\ r \in Fields
      /\ r.pc = point /\ r.children = list
      /\ r.parent = proc[p].parent /\ r.has_status = proc[p].has_status
      /\ r.exit_code = proc[p].exit_code /\ r.ret = NULL
  <2>1. r \in Fields  BY <1>1, <1>4, <1>p, Zenon DEF Fields
  <2> QED BY <1>1, <1>3, <2>1 DEF Fields
<1> HIDE DEF r
<1>7. /\ exec' \in [Proc -> [load_done : 0 .. 1, success : BOOLEAN]]
      /\ \A q \in Proc \ {p} : exec'[q] = exec[q]
  BY <1>1 DEF ExecReturn, TypeOK
<1>8. TypeOK' /\ proc'[p] = r /\ \A q \in Proc \ {p} : proc'[q] = proc[q]
  BY <1>1, <1>5, <1>6, <1>7, Zenon DEF TypeOK
<1>9. Moves(p, r)
  <2>1. ~Exited(p)  BY <1>1, <1>3, ProcessAssumption DEF Exited
  <2> QED BY <1>1, <1>5, <1>6, <1>7, <1>p, <2>1 DEF Moves
<1>10. WellFormed(p, r)
  BY <1>3, <1>4, <1>6, <1>p, ProcessAssumption, Zenon DEF WellFormed
<1>11. ASSUME NEW d \in Proc PROVE Counted(d)' /\ DeadMeansStored(d)'
  <2>1. Holds(p, d)' <=> Holds(p, d)
    <3>1. p \notin Elems(proc[p].children)  BY NotOwnChild
    <3>2. Elems(proc[p].children)' = Elems(list)  BY <1>6, <1>8, Zenon DEF Elems
    <3>3. CASE d = p
      BY <1>1, <1>2, <1>3, <1>4, <1>6, <1>8, <1>p, <3>1, <3>2, <3>3, ZenonT(60) DEF Holds
    <3>4. CASE d = c
      BY <1>1, <1>2, <1>3, <1>4, <1>6, <1>8, <1>p, <3>2, <3>4, Zenon DEF Holds
    <3>5. CASE d \notin {p, c}
      BY <1>1, <1>2, <1>3, <1>4, <1>6, <1>8, <1>p, <3>2, <3>5, Zenon DEF Holds
    <3> QED BY <3>3, <3>4, <3>5
  <2>2. p \notin Freers(d)  BY <1>1 DEF Freers
  <2> QED BY <1>1, <1>6, <1>9, <1>p, <2>1, <2>2, StaysCounted, StaysStored, Zenon
<1> QED BY <1>8, <1>9, <1>10, <1>11, OneMoves

-----------------------------------------------------------------------------
(***************************************************************************)
(* process_wait and release_child                                          *)
(***************************************************************************)

\* process_wait takes the child off the list before it waits for it.
LEMMA ProcessWaitKeeps ==
  ASSUME ProcessInv, NEW p \in Proc, NEW c \in Proc, ProcessWait(p, c)
  PROVE  ProcessInv'
<1> USE DEF Loading, Releasing
<1>1. /\ proc[p].pc = "user" /\ UNCHANGED <<ws, exec, fs_lock>> /\ TypeOK
      /\ proc \in [Proc -> Fields] /\ proc[p] \in Fields
  BY DEF ProcessWait, At, ProcessInv, TypeOK
<1>2. PICK i \in 1 .. Len(proc[p].children) :
        /\ proc[p].children[i] = c
        /\ proc' = [proc EXCEPT ![p].pc = "wait", ![p].target = c,
                                ![p].children = list_remove(@, i)]
  BY Zenon DEF ProcessWait
<1>3. /\ proc[p].ret = NULL /\ proc[p].children \in Seq(Proc)
      /\ NoDuplicates(proc[p].children) /\ \A d \in Elems(proc[p].children) : Loaded(p, d)
  <2>1. proc[p].ret = NULL  BY <1>1 DEF ProcessInv, Local
  <2>2. proc[p].children \in Seq(Proc)  BY <1>1 DEF Fields
  <2>3. ChildrenOf(p)  BY DEF ProcessInv
  <2> QED BY <2>1, <2>2, <2>3, Zenon DEF ChildrenOf
<1> DEFINE list == list_remove(proc[p].children, i)
           r == [proc[p] EXCEPT !.pc = "wait", !.target = c, !.children = list]
<1>4. /\ list \in Seq(Proc) /\ NoDuplicates(list)
      /\ Elems(list) = Elems(proc[p].children) \ {c}
  BY <1>2, <1>3, RemoveOne
<1>5. c \in Elems(proc[p].children) /\ p # c
  BY <1>2, NotOwnChild DEF Elems
<1>6. proc' = [proc EXCEPT ![p] = r]  BY <1>1, <1>2, Zenon DEF Fields
<1> HIDE DEF list
<1>7. /\ r \in Fields
      /\ r.pc = "wait" /\ r.children = list /\ r.target = c
      /\ r.parent = proc[p].parent /\ r.has_status = proc[p].has_status
      /\ r.exit_code = proc[p].exit_code /\ r.ret = NULL
  BY <1>1, <1>3, <1>4, ZenonT(60) DEF Fields, Label
<1> HIDE DEF r
<1>8. TypeOK' /\ proc'[p] = r /\ \A q \in Proc \ {p} : proc'[q] = proc[q]
  BY <1>1, <1>6, <1>7 DEF TypeOK
<1>9. Moves(p, r)
  <2>1. ~Exited(p)  BY <1>1, <1>3, ProcessAssumption DEF Exited
  <2> QED BY <1>1, <1>6, <1>7, <2>1 DEF Moves
<1>10. WellFormed(p, r)
  BY <1>3, <1>4, <1>5, <1>7, ProcessAssumption, Zenon DEF WellFormed
<1>11. ASSUME NEW d \in Proc PROVE Counted(d)' /\ DeadMeansStored(d)'
  <2>1. Holds(p, d)' <=> Holds(p, d)
    <3>1. Elems(proc[p].children)' = Elems(list)  BY <1>7, <1>8 DEF Elems
    <3> QED BY <1>1, <1>3, <1>4, <1>5, <1>7, <1>8, <3>1, Zenon DEF Holds
  <2>2. p \notin Freers(d)  BY <1>1 DEF Freers
  <2> QED BY <1>1, <1>7, <1>9, <2>1, <2>2, StaysCounted, StaysStored, Zenon
<1> QED BY <1>8, <1>9, <1>10, <1>11, OneMoves

\* A raised dead means that the child is past its exit and its exit code final.
LEMMA WaitDownKeeps ==
  ASSUME ProcessInv, NEW p \in Proc, WaitDown(p)
  PROVE  ProcessInv'
<1> USE DEF Loading, Releasing
<1>1. PICK c \in Proc : /\ c = proc[p].target /\ c \notin Elems(proc[p].children)
                        /\ ws[c] # NULL /\ ws[c] \in WaitStatus
  BY Target DEF WaitDown, At
<1>2. /\ proc[p].pc = "wait" /\ UNCHANGED <<exec, fs_lock>> /\ TypeOK
      /\ proc \in [Proc -> Fields] /\ proc[p] \in Fields
      /\ proc[p].ret = NULL /\ ChildrenOf(p)
  BY Zenon DEF WaitDown, At, ProcessInv, TypeOK, Local
<1>3. Loaded(p, c) /\ p # c
  BY <1>1, <1>2, NotOwnChild, ProcessAssumption, Zenon DEF ProcessInv, TargetOf
<1>4. ws[c].dead > 0 /\ Exited(c) /\ ws[c].exit_code = proc[c].exit_code
  BY <1>1 DEF WaitDown, ProcessInv, DeadMeansStored
<1> DEFINE r == [proc[p] EXCEPT !.pc = "rel_lock", !.ret = "user", !.code = ws[c].exit_code]
           w == [ws[c] EXCEPT !.dead = @ - 1]
<1>5. /\ proc' = [proc EXCEPT ![p] = r] /\ ws' = [ws EXCEPT ![c] = w]
  BY <1>1, <1>2, Zenon DEF WaitDown, Fields, TypeOK, WaitStatus
<1>6. /\ w \in WaitStatus /\ w.ref_cnt = ws[c].ref_cnt /\ w.exit_code = ws[c].exit_code
      /\ ws[c].exit_code \in Int
  BY <1>1, <1>4 DEF WaitStatus
<1>7. /\ r \in Fields
      /\ r.pc = "rel_lock" /\ r.children = proc[p].children /\ r.target = c
      /\ r.parent = proc[p].parent /\ r.has_status = proc[p].has_status
      /\ r.exit_code = proc[p].exit_code /\ r.ret = "user" /\ r.code = ws[c].exit_code
  BY <1>1, <1>2, <1>6, ZenonT(60) DEF Fields, Label
<1> HIDE DEF r, w
<1>8. /\ TypeOK' /\ proc'[p] = r /\ \A q \in Proc \ {p} : proc'[q] = proc[q]
      /\ ws'[c] = w /\ w # NULL /\ \A d \in Proc \ {c} : ws'[d] = ws[d]
  BY <1>2, <1>5, <1>6, <1>7, ProcessAssumption DEF TypeOK
<1>9. Moves(p, r)
  <2>1. ~Exited(p)  BY <1>2, ProcessAssumption, Zenon DEF Exited
  <2> QED BY <1>2, <1>5, <1>7, <2>1, Zenon DEF Moves
<1>10. WellFormed(p, r)
  BY <1>1, <1>2, <1>3, <1>4, <1>7, ProcessAssumption, Zenon DEF WellFormed, ChildrenOf
<1>11. ASSUME NEW d \in Proc PROVE Counted(d)' /\ DeadMeansStored(d)'
  <2>1. Holds(p, d)' <=> Holds(p, d)
    <3>1. Elems(proc[p].children)' = Elems(proc[p].children)  BY <1>7, <1>8 DEF Elems
    <3> QED BY <1>1, <1>2, <1>3, <1>7, <1>8, <3>1, ZenonT(60) DEF Holds
  <2>2. p \notin Freers(d)  BY <1>2, Zenon DEF Freers
  <2>3. /\ ws'[d] = NULL <=> ws[d] = NULL
        /\ ws[d] # NULL => /\ ws'[d].ref_cnt = ws[d].ref_cnt
                           /\ ws'[d].exit_code = ws[d].exit_code
                           /\ ws'[d].dead > 0 => ws[d].dead > 0
    BY <1>1, <1>4, <1>6, <1>8, Zenon
  <2> QED BY <1>7, <1>9, <2>1, <2>2, <2>3, StaysCounted, StaysStored, Zenon
<1> QED BY <1>8, <1>9, <1>10, <1>11, OneMoves, Zenon

\* release_child takes the wait_status's lock.
LEMMA ReleaseLockKeeps ==
  ASSUME ProcessInv, NEW p \in Proc, ReleaseLock(p)
  PROVE  ProcessInv'
<1> USE DEF Loading, Releasing
<1>1. PICK c \in Proc : /\ c = proc[p].target /\ c \notin Elems(proc[p].children)
                        /\ ws[c] # NULL /\ ws[c] \in WaitStatus
  BY Target DEF ReleaseLock, At
<1>2. /\ proc[p].pc = "rel_lock" /\ UNCHANGED <<exec, fs_lock>> /\ TypeOK
      /\ proc \in [Proc -> Fields] /\ proc[p] \in Fields
      /\ Local(p) /\ ChildrenOf(p) /\ TargetOf(p)
  BY DEF ReleaseLock, At, ProcessInv, TypeOK
<1> DEFINE r == [proc[p] EXCEPT !.pc = "rel_dec"]
           w == [ws[c] EXCEPT !.lock = p]
<1>3. /\ proc' = [proc EXCEPT ![p] = r] /\ ws' = [ws EXCEPT ![c] = w]
  BY <1>1, <1>2 DEF ReleaseLock, Goto, Fields, TypeOK, WaitStatus
<1>4. /\ w \in WaitStatus /\ w.ref_cnt = ws[c].ref_cnt /\ w.exit_code = ws[c].exit_code
      /\ w.dead = ws[c].dead
  BY <1>1 DEF WaitStatus
<1>5. /\ r \in Fields
      /\ r.pc = "rel_dec" /\ r.children = proc[p].children /\ r.target = c
      /\ r.parent = proc[p].parent /\ r.has_status = proc[p].has_status
      /\ r.exit_code = proc[p].exit_code /\ r.ret = proc[p].ret /\ r.code = proc[p].code
  BY <1>1, <1>2, Zenon DEF Fields, Label
<1> HIDE DEF r, w
<1>6. /\ TypeOK' /\ proc'[p] = r /\ \A q \in Proc \ {p} : proc'[q] = proc[q]
      /\ ws'[c] = w /\ w # NULL /\ \A d \in Proc \ {c} : ws'[d] = ws[d]
  BY <1>2, <1>3, <1>4, <1>5, ProcessAssumption, Zenon DEF TypeOK
<1>7. Moves(p, r)
  BY <1>2, <1>3, <1>5, Zenon DEF Moves, Exited
<1>8. WellFormed(p, r)
  <2>1. r.ret = "user" => r.code = proc[c].exit_code /\ Exited(c)
    BY <1>1, <1>5, AfterWait, ZenonT(60)
  <2>2. /\ c \notin Elems(r.children)
        /\ Loaded(p, c) \/ (c = p /\ proc[p].has_status /\ r.ret = "exit_children")
    BY <1>1, <1>2, <1>5, Target
  <2>3. r.ret # NULL  BY <1>2, <1>5 DEF Local
  <2> QED BY <1>2, <1>5, <2>1, <2>2, <2>3 DEF WellFormed, ChildrenOf
<1>9. ASSUME NEW d \in Proc PROVE Counted(d)' /\ DeadMeansStored(d)'
  <2>1. Holds(p, d)' <=> Holds(p, d)
    <3>1. Elems(proc[p].children)' = Elems(proc[p].children)  BY <1>5, <1>6 DEF Elems
    <3> QED BY <1>1, <1>2, <1>5, <1>6, <3>1, SMTT(20) DEF Holds
  <2>2. p \notin Freers(d)  BY <1>2 DEF Freers
  <2>3. /\ ws'[d] = NULL <=> ws[d] = NULL
        /\ ws[d] # NULL => /\ ws'[d].ref_cnt = ws[d].ref_cnt
                           /\ ws'[d].exit_code = ws[d].exit_code
                           /\ ws'[d].dead > 0 => ws[d].dead > 0
    BY <1>1, <1>4, <1>6, Zenon
  <2> QED BY <1>5, <1>7, <2>1, <2>2, <2>3, StaysCounted, StaysStored, Zenon
<1> QED BY <1>6, <1>7, <1>8, <1>9, OneMoves

\* The thread that counted down to zero frees the wait_status, which nobody refers
\* to any more; any other thread leaves it alone.
LEMMA ReleaseFreeKeeps ==
  ASSUME ProcessInv, NEW p \in Proc, ReleaseFree(p)
  PROVE  ProcessInv'
<1> USE DEF Loading, Releasing
<1>1. /\ proc[p].pc = "rel_free" /\ UNCHANGED <<exec, fs_lock>> /\ TypeOK
      /\ proc \in [Proc -> Fields] /\ proc[p] \in Fields
      /\ Local(p) /\ ChildrenOf(p)
  BY Zenon DEF ReleaseFree, At, ProcessInv, TypeOK
<1>2. PICK c \in Proc : c = proc[p].target
  BY <1>1 DEF ProcessInv, TargetOf, Loaded
<1>3. proc[p].ret \in {"user", "exit_children"}
  BY <1>1 DEF Fields, Local
<1> DEFINE r == [proc[p] EXCEPT !.pc = proc[p].ret, !.target = NULL, !.ret = NULL,
                                !.new_ref_cnt = 0, !.code = 0]
<1>4. proc' = [proc EXCEPT ![p] = r]  BY <1>1, Zenon DEF ReleaseFree, Fields
<1>5. /\ r \in Fields
      /\ r.pc = proc[p].ret /\ r.children = proc[p].children
      /\ r.parent = proc[p].parent /\ r.has_status = proc[p].has_status
      /\ r.exit_code = proc[p].exit_code /\ r.ret = NULL
  <2>1. proc[p].ret \in Label  BY <1>3 DEF Label
  <2> DEFINE s == [proc[p] EXCEPT !.pc = proc[p].ret, !.target = NULL, !.ret = NULL]
  <2>2. s \in Fields  BY <1>1, <2>1, Zenon DEF Fields
  <2>3. r = [s EXCEPT !.new_ref_cnt = 0, !.code = 0]  BY <1>1 DEF Fields
  <2>4. ASSUME NEW f \in Fields, NEW n \in Int
        PROVE  [f EXCEPT !.new_ref_cnt = n, !.code = n] \in Fields
    BY Zenon DEF Fields
  <2>5. r \in Fields
    <3>1. PICK n \in Int : n = 0  OBVIOUS
    <3>2. r = [s EXCEPT !.new_ref_cnt = n, !.code = n]  BY <2>3, <3>1
    <3> HIDE DEF s, r
    <3> QED BY <2>2, <2>4, <3>2, Zenon
  <2> QED BY <1>1, <2>5, Zenon DEF Fields
<1> HIDE DEF r
<1>6. ws' \in [Proc -> WaitStatus \cup {NULL}]
  BY <1>1, Zenon DEF ReleaseFree, TypeOK
<1>7. TypeOK' /\ proc'[p] = r /\ \A q \in Proc \ {p} : proc'[q] = proc[q]
  BY <1>1, <1>4, <1>5, <1>6, Zenon DEF TypeOK
<1>8. Moves(p, r)
  BY <1>1, <1>3, <1>4, <1>5, Zenon DEF Moves, Exited
<1>9. WellFormed(p, r)
  BY <1>1, <1>3, <1>5, ProcessAssumption, Zenon DEF WellFormed, ChildrenOf
<1>10. \A d \in Proc : Holds(p, d)' <=> Holds(p, d)
  <2>1. Elems(proc[p].children)' = Elems(proc[p].children)  BY <1>5, <1>7 DEF Elems
  <2> QED BY <1>1, <1>3, <1>5, <1>7, <2>1, ProcessAssumption, Zenon DEF Holds
<1>11. ASSUME NEW d \in Proc PROVE Counted(d)' /\ DeadMeansStored(d)'
  <2>1. CASE p \in Freers(d)
    <3>1. d = c /\ proc[p].new_ref_cnt = 0  BY <1>2, <2>1 DEF Freers
    <3>2. ws'[c] = NULL  BY <1>1, <1>2, <3>1, Zenon DEF ReleaseFree, TypeOK
    <3>3. Holders(c) = {} /\ Freers(c) = {p}
      BY <2>1, <3>1 DEF ProcessInv, Counted
    <3>4. Holders(c)' = {}
      BY <1>8, <1>10, <3>3, OthersStay DEF Holders
    <3>5. Freers(c)' = {}
      BY <1>3, <1>5, <1>7, <3>3 DEF Freers
    <3> QED BY <3>1, <3>2, <3>4, <3>5, Zenon DEF Counted, DeadMeansStored
  <2>2. CASE p \notin Freers(d)
    <3>1. ws'[d] = ws[d]
      BY <1>1, <1>2, <2>2, Zenon DEF ReleaseFree, TypeOK, Freers
    <3> QED BY <1>3, <1>5, <1>8, <1>10, <2>2, <3>1, StaysCounted, StaysStored, Zenon
  <2> QED BY <2>1, <2>2, Zenon
<1> QED BY <1>7, <1>8, <1>9, <1>11, OneMoves

-----------------------------------------------------------------------------
(***************************************************************************)
(* process_exit                                                            *)
(***************************************************************************)

\* A dying process stores its exit code while its parent cannot have read it.
LEMMA ExitStoreKeeps ==
  ASSUME ProcessInv, NEW p \in Proc, ExitStore(p)
  PROVE  ProcessInv'
<1> USE DEF Loading, Releasing
<1>1. /\ proc[p].pc = "exit_store" /\ UNCHANGED <<exec, fs_lock>> /\ TypeOK
      /\ proc \in [Proc -> Fields] /\ proc[p] \in Fields
      /\ Local(p) /\ ChildrenOf(p)
  BY DEF ExitStore, At, ProcessInv, TypeOK
<1>2. ~Exited(p)  BY <1>1, ProcessAssumption, Zenon DEF Exited, Local
<1>3. ws[p] # NULL /\ ws[p] \in WaitStatus /\ ws[p].dead = 0
  <2>1. p \in Holders(p)  BY <1>1 DEF Holders, Holds, Local
  <2>2. ws[p] # NULL  BY <2>1 DEF ProcessInv, Counted
  <2> QED BY <1>2, <2>2, NotYetDead, Zenon
<1> DEFINE r == [proc[p] EXCEPT !.pc = "exit_up"]
           w == [ws[p] EXCEPT !.exit_code = proc[p].exit_code]
<1>4. proc' = [proc EXCEPT ![p] = r] /\ ws' = [ws EXCEPT ![p] = w]
  BY <1>1, <1>3 DEF ExitStore, Goto, Fields, TypeOK, WaitStatus
<1>5. /\ w \in WaitStatus /\ w.ref_cnt = ws[p].ref_cnt
      /\ w.exit_code = proc[p].exit_code /\ w.dead = 0
  BY <1>1, <1>3, Zenon DEF WaitStatus, Fields
<1>6. /\ r \in Fields
      /\ r.pc = "exit_up" /\ r.children = proc[p].children
      /\ r.parent = proc[p].parent /\ r.has_status = proc[p].has_status
      /\ r.exit_code = proc[p].exit_code /\ r.ret = proc[p].ret
  BY <1>1 DEF Fields, Label
<1> HIDE DEF r, w
<1>7. /\ TypeOK' /\ proc'[p] = r /\ \A q \in Proc \ {p} : proc'[q] = proc[q]
      /\ ws'[p] = w /\ w # NULL /\ \A d \in Proc \ {p} : ws'[d] = ws[d]
  BY <1>1, <1>4, <1>5, <1>6, ProcessAssumption, Zenon DEF TypeOK
<1>8. Moves(p, r)  BY <1>1, <1>2, <1>4, <1>6, Zenon DEF Moves
<1>9. WellFormed(p, r)
  BY <1>1, <1>6, ProcessAssumption, Zenon DEF WellFormed, ChildrenOf, Local
<1>10. ASSUME NEW d \in Proc PROVE Counted(d)' /\ DeadMeansStored(d)'
  <2>1. Holds(p, d)' <=> Holds(p, d)
    <3>1. Elems(proc[p].children)' = Elems(proc[p].children)  BY <1>6, <1>7 DEF Elems
    <3> QED BY <1>1, <1>6, <1>7, <3>1, Zenon DEF Holds
  <2>2. p \notin Freers(d)  BY <1>1, Zenon DEF Freers
  <2>3. Counted(d)'
    BY <1>3, <1>5, <1>6, <1>7, <1>8, <2>1, <2>2, StaysCounted, SMTT(60)
  <2>4. CASE d = p  BY <1>5, <1>6, <1>7, <2>3, <2>4, SMTT(20) DEF DeadMeansStored
  <2>5. CASE d # p  BY <1>7, <1>8, <2>3, <2>5, StaysStored, Zenon
  <2> QED BY <2>4, <2>5, Zenon
<1> QED BY <1>7, <1>8, <1>9, <1>10, OneMoves, Zenon

\* It then raises dead, with the exit code in place, and releases its wait_status.
LEMMA ExitUpKeeps ==
  ASSUME ProcessInv, NEW p \in Proc, ExitUp(p)
  PROVE  ProcessInv'
<1> USE DEF Loading, Releasing
<1>1. /\ proc[p].pc = "exit_up" /\ UNCHANGED <<exec, fs_lock>> /\ TypeOK
      /\ proc \in [Proc -> Fields] /\ proc[p] \in Fields
      /\ Local(p) /\ ChildrenOf(p)
  BY DEF ExitUp, At, ProcessInv, TypeOK
<1>2. ~Exited(p)  BY <1>1, ProcessAssumption DEF Exited, Local
<1>3. /\ ws[p] # NULL /\ ws[p] \in WaitStatus /\ ws[p].dead = 0
      /\ ws[p].exit_code = proc[p].exit_code
  <2>1. p \in Holders(p)  BY <1>1 DEF Holders, Holds, Local
  <2>2. ws[p] # NULL  BY <2>1 DEF ProcessInv, Counted
  <2>3. ws[p].exit_code = proc[p].exit_code
    BY <1>1, <2>2 DEF ProcessInv, DeadMeansStored
  <2> QED BY <1>2, <2>2, <2>3, NotYetDead, Zenon
<1> DEFINE r == [proc[p] EXCEPT !.pc = "rel_lock", !.target = p, !.ret = "exit_children"]
           w == [ws[p] EXCEPT !.dead = @ + 1]
<1>4. proc' = [proc EXCEPT ![p] = r] /\ ws' = [ws EXCEPT ![p] = w]
  BY <1>1, <1>3, Zenon DEF ExitUp, Fields, TypeOK, WaitStatus
<1>5. /\ w \in WaitStatus /\ w.ref_cnt = ws[p].ref_cnt
      /\ w.exit_code = proc[p].exit_code
  BY <1>3 DEF WaitStatus
<1>6. /\ r \in Fields
      /\ r.pc = "rel_lock" /\ r.children = proc[p].children /\ r.target = p
      /\ r.parent = proc[p].parent /\ r.has_status = proc[p].has_status
      /\ r.exit_code = proc[p].exit_code /\ r.ret = "exit_children"
  BY <1>1, Zenon DEF Fields, Label
<1> HIDE DEF r, w
<1>7. /\ TypeOK' /\ proc'[p] = r /\ \A q \in Proc \ {p} : proc'[q] = proc[q]
      /\ ws'[p] = w /\ w # NULL /\ \A d \in Proc \ {p} : ws'[d] = ws[d]
  BY <1>1, <1>4, <1>5, <1>6, ProcessAssumption, Zenon DEF TypeOK
<1>8. Moves(p, r)  BY <1>1, <1>2, <1>4, <1>6 DEF Moves
<1>9. p \notin Elems(proc[p].children)  BY NotOwnChild, Zenon
<1>10. WellFormed(p, r)
  BY <1>1, <1>6, <1>9, ProcessAssumption, Zenon DEF WellFormed, ChildrenOf, Local
<1>11. ASSUME NEW d \in Proc PROVE Counted(d)' /\ DeadMeansStored(d)'
  <2>1. Holds(p, d)' <=> Holds(p, d)
    <3>1. Elems(proc[p].children)' = Elems(proc[p].children)  BY <1>6, <1>7 DEF Elems
    <3> QED BY <1>1, <1>6, <1>7, <3>1, ZenonT(60) DEF Holds, Local
  <2>2. p \notin Freers(d)  BY <1>1, Zenon DEF Freers
  <2>3. Counted(d)'
    BY <1>3, <1>5, <1>6, <1>7, <1>8, <2>1, <2>2, StaysCounted, ZenonT(60)
  <2>4. CASE d = p  BY <1>5, <1>6, <1>7, <2>3, <2>4, Zenon DEF DeadMeansStored, Exited
  <2>5. CASE d # p  BY <1>6, <1>7, <1>8, <2>3, <2>5, StaysStored, Zenon
  <2> QED BY <2>4, <2>5
<1> QED BY <1>7, <1>8, <1>10, <1>11, OneMoves

\* A dying parent takes its children off the list one by one, to release each.
LEMMA ExitChildrenKeeps ==
  ASSUME ProcessInv, NEW p \in Proc, ExitChildren(p)
  PROVE  ProcessInv'
<1> USE DEF Loading, Releasing
<1>1. /\ proc[p].pc = "exit_children" /\ UNCHANGED <<ws, exec, fs_lock>> /\ TypeOK
      /\ proc \in [Proc -> Fields] /\ proc[p] \in Fields
      /\ Local(p) /\ ChildrenOf(p) /\ proc[p].children \in Seq(Proc)
  BY DEF ExitChildren, At, ProcessInv, TypeOK, Fields
<1>2. proc[p].ret = NULL  BY <1>1 DEF Local
<1>3. p \notin Elems(proc[p].children)  BY NotOwnChild
<1>4. \A d \in Proc : p \notin Freers(d)  BY <1>1 DEF Freers
<1>5. CASE proc[p].children = <<>>
  <2> DEFINE r == [proc[p] EXCEPT !.pc = "dead"]
  <2>1. proc' = [proc EXCEPT ![p] = r]  BY <1>1, <1>5 DEF ExitChildren, Fields
  <2>2. /\ r \in Fields
        /\ r.pc = "dead" /\ r.children = proc[p].children
        /\ r.parent = proc[p].parent /\ r.has_status = proc[p].has_status
        /\ r.exit_code = proc[p].exit_code /\ r.ret = NULL
    BY <1>1, <1>2, ZenonT(60) DEF Fields, Label
  <2> HIDE DEF r
  <2>3. TypeOK' /\ proc'[p] = r /\ \A q \in Proc \ {p} : proc'[q] = proc[q]
    BY <1>1, <2>1, <2>2 DEF TypeOK
  <2>4. Moves(p, r)  BY <1>1, <2>1, <2>2, Zenon DEF Moves
  <2>5. WellFormed(p, r)
    BY <1>1, <2>2, ProcessAssumption, Zenon DEF WellFormed, ChildrenOf
  <2>6. ASSUME NEW d \in Proc PROVE Counted(d)' /\ DeadMeansStored(d)'
    <3>1. Holds(p, d)' <=> Holds(p, d)
      <4>1. Elems(proc[p].children)' = Elems(proc[p].children)  BY <2>2, <2>3, Zenon DEF Elems
      <4> QED BY <1>1, <1>2, <2>2, <2>3, <4>1, ZenonT(60) DEF Holds
    <3> QED BY <1>1, <1>4, <2>2, <2>4, <3>1, StaysCounted, StaysStored, Zenon
  <2> QED BY <2>3, <2>4, <2>5, <2>6, OneMoves
<1>6. CASE proc[p].children # <<>>
  <2>1. PICK c, list : /\ c = Head(proc[p].children) /\ list = Tail(proc[p].children)
    BY Zenon
  <2>2. /\ c \in Elems(proc[p].children) /\ c \in Proc /\ c # p /\ Loaded(p, c)
        /\ list \in Seq(Proc) /\ NoDuplicates(list)
        /\ Elems(list) = Elems(proc[p].children) \ {c}
    <3>1. NoDuplicates(proc[p].children)  BY <1>1 DEF ChildrenOf
    <3>2. /\ c \in Elems(proc[p].children)
          /\ list \in Seq(Proc) /\ NoDuplicates(list)
          /\ Elems(list) = Elems(proc[p].children) \ {c}
      BY <1>1, <1>6, <2>1, <3>1, PopFront, Zenon
    <3> QED BY <1>1, <1>3, <3>2 DEF ChildrenOf, Loaded
  <2> DEFINE r == [proc[p] EXCEPT !.pc = "rel_lock", !.target = c, !.children = list,
                                  !.ret = "exit_children"]
  <2>3. proc' = [proc EXCEPT ![p] = r]  BY <1>1, <1>6, <2>1, Zenon DEF ExitChildren, Fields
  <2>4. /\ r \in Fields
        /\ r.pc = "rel_lock" /\ r.children = list /\ r.target = c
        /\ r.parent = proc[p].parent /\ r.has_status = proc[p].has_status
        /\ r.exit_code = proc[p].exit_code /\ r.ret = "exit_children"
    BY <1>1, <2>2, ZenonT(30) DEF Fields, Label
  <2> HIDE DEF r
  <2>5. TypeOK' /\ proc'[p] = r /\ \A q \in Proc \ {p} : proc'[q] = proc[q]
    BY <1>1, <2>3, <2>4, Zenon DEF TypeOK
  <2>6. Moves(p, r)  BY <1>1, <2>3, <2>4, Zenon DEF Moves
  <2>7. WellFormed(p, r)
    BY <1>1, <2>2, <2>4, ProcessAssumption, Zenon DEF WellFormed, ChildrenOf
  <2>8. ASSUME NEW d \in Proc PROVE Counted(d)' /\ DeadMeansStored(d)'
    <3>1. Holds(p, d)' <=> Holds(p, d)
      <4>1. Elems(proc[p].children)' = Elems(list)  BY <2>4, <2>5, Zenon DEF Elems
      <4> QED BY <1>1, <1>2, <2>2, <2>4, <2>5, <4>1, ProcessAssumption, Zenon DEF Holds
    <3> QED BY <1>1, <1>4, <2>4, <2>6, <3>1, StaysCounted, StaysStored, Zenon
  <2> QED BY <2>5, <2>6, <2>7, <2>8, OneMoves
<1> QED BY <1>5, <1>6

-----------------------------------------------------------------------------
(***************************************************************************)
(* The count of a wait_status changes                                      *)
(***************************************************************************)

INSTANCE FiniteSetTheorems

\* start_process: a successful load makes parent and child the two owners of a new
\* wait_status.
LEMMA StartProcessKeeps ==
  ASSUME ProcessInv, NEW c \in Proc, StartProcess(c)
  PROVE  ProcessInv'
<1> USE DEF Loading, Releasing
<1>1. PICK p \in Proc :
        /\ p = proc[c].parent /\ p # c
        /\ proc[p].pc = "exec_wait" /\ proc[p].target = c /\ exec[p].load_done = 0
        /\ proc[c].children = <<>> /\ proc[c].ret = NULL
        /\ \A q \in Proc : /\ c \notin Elems(proc[q].children)
                           /\ proc[q].pc \in Releasing \cup {"wait"} => proc[q].target # c
                           /\ proc[q].pc = "exec_wait" /\ proc[q].target = c => q = p
  BY WhileLoading DEF StartProcess, At
<1>2. /\ ~proc[c].has_status /\ proc[c].pc = "load" /\ UNCHANGED <<exec, fs_lock>>
      /\ TypeOK /\ proc \in [Proc -> Fields] /\ proc[c] \in Fields
  BY DEF StartProcess, At, ProcessInv, Local, TypeOK
<1>3. Holders(c) = {} /\ Freers(c) = {} /\ ws[c] = NULL
  <2>1. \A q \in Proc : ~Holds(q, c)  BY <1>2, WhoHolds
  <2>2. Holders(c) = {}  BY <2>1 DEF Holders
  <2>3. Freers(c) = {}  BY <1>1, Zenon DEF Freers
  <2> QED BY <2>2, <2>3 DEF ProcessInv, Counted
<1>4. CASE /\ proc' = [proc EXCEPT ![c].pc = "notify", ![c].has_status = TRUE]
           /\ ws' = [ws EXCEPT ![c] = [ref_cnt |-> 2, exit_code |-> 0, dead |-> 0,
                                       lock |-> NULL]]
  <2> DEFINE r == [proc[c] EXCEPT !.pc = "notify", !.has_status = TRUE]
  <2>1. r \in Fields  BY <1>2, Zenon DEF Fields, Label
  <2>2. proc' = [proc EXCEPT ![c] = r]  BY <1>2, <1>4 DEF Fields
  <2>3. /\ ws'[c] \in WaitStatus /\ ws'[c].ref_cnt = 2 /\ ws'[c].dead = 0
        /\ ws' \in [Proc -> WaitStatus \cup {NULL}]
        /\ \A q \in Proc \ {c} : ws'[q] = ws[q]
    BY <1>2, <1>4, SMTT(60) DEF TypeOK, WaitStatus
  <2>4. /\ r.parent = p /\ r.children = <<>> /\ r.ret = NULL
        /\ r.pc = "notify" /\ r.has_status
    BY <1>1, <1>2 DEF Fields
  <2> HIDE DEF r
  <2>5. /\ proc'[c] = r /\ \A q \in Proc \ {c} : proc'[q] = proc[q]
        /\ TypeOK'
    BY <1>2, <2>1, <2>2, <2>3, Zenon DEF TypeOK
  <2>6. ws'[c] # NULL  BY <2>3, ProcessAssumption, Zenon
  <2>7. Holders(c)' = {c, p}
    <3>1. Holds(c, c)'  BY <2>4, <2>5, Zenon DEF Holds
    <3>2. Holds(p, c)'  BY <1>1, <2>4, <2>5, ZenonT(60) DEF Holds
    <3>3. ASSUME NEW q \in Proc, q # c, Holds(q, c)' PROVE q = p
      <4>1. proc'[q] = proc[q]  BY <2>5, <3>3, ZenonT(60)
      <4> QED BY <1>1, <3>3, <4>1, SMTT(60) DEF Holds, Elems
    <3> QED BY <1>1, <3>1, <3>2, <3>3, Zenon DEF Holders
  <2>8. Freers(c)' = {}  BY <1>1, <2>4, <2>5, SMTT(60) DEF Freers
  <2>9. IsFiniteSet({c, p}) /\ Cardinality({c, p}) = 2
    <3>1. IsFiniteSet({c}) /\ Cardinality({c}) = 1  BY FS_Singleton, Zenon
    <3>2. {c, p} = {c} \cup {p} /\ p \notin {c}  BY <1>1
    <3> QED BY <3>1, <3>2, FS_AddElement, SMTT(60)
  <2>10. Counted(c)'  BY <2>3, <2>6, <2>7, <2>8, <2>9, ZenonT(60) DEF Counted
  <2>11. \A q \in Proc, d \in Proc \ {c} : Holds(q, d)' <=> Holds(q, d)
    BY <1>1, <1>2, <2>4, <2>5, SMTT(60) DEF Holds, Elems
  <2> QED BY <1>1, <1>2, <2>3, <2>4, <2>5, <2>10, <2>11, LoadingStep, SMTT(60)
<1>5. CASE Goto(c, "notify") /\ UNCHANGED ws
  <2> DEFINE r == [proc[c] EXCEPT !.pc = "notify"]
  <2>1. r \in Fields  BY <1>2, Zenon DEF Fields, Label
  <2>2. proc' = [proc EXCEPT ![c] = r]  BY <1>2, <1>5 DEF Fields, Goto
  <2>3. /\ r.parent = p /\ r.children = <<>> /\ r.ret = NULL
        /\ r.pc = "notify" /\ ~r.has_status
    BY <1>1, <1>2 DEF Fields
  <2> HIDE DEF r
  <2>4. /\ proc'[c] = r /\ \A q \in Proc \ {c} : proc'[q] = proc[q]
        /\ TypeOK'
    BY <1>2, <1>5, <2>1, <2>2, ZenonT(60) DEF TypeOK
  <2>5. \A q, d \in Proc : Holds(q, d)' <=> Holds(q, d)
    BY <1>1, <1>2, <2>3, <2>4, SMTT(60) DEF Holds, Elems
  <2>6. \A q \in Proc : q \in Freers(c)' <=> q \in Freers(c)
    BY <1>2, <2>3, <2>4, Zenon DEF Freers
  <2>7. Counted(c)'  BY <1>3, <1>5, <2>5, <2>6, SameReferences, ZenonT(60) DEF ProcessInv
  <2> QED BY <1>1, <1>2, <1>3, <1>5, <2>3, <2>4, <2>5, <2>7, LoadingStep, ZenonT(60)
<1> QED BY <1>4, <1>5 DEF StartProcess

\* release_child decrements the count: one reference less, and the thread that takes
\* the last one is the only one about to free the wait_status.
LEMMA ReleaseDecKeeps ==
  ASSUME ProcessInv, NEW p \in Proc, ReleaseDec(p)
  PROVE  ProcessInv'
<1> USE DEF Loading, Releasing
<1>1. PICK c \in Proc : /\ c = proc[p].target /\ c \notin Elems(proc[p].children)
                        /\ ws[c] # NULL /\ ws[c] \in WaitStatus /\ p \in Holders(c)
  BY Target DEF ReleaseDec, At
<1>2. /\ proc[p].pc = "rel_dec" /\ UNCHANGED <<exec, fs_lock>> /\ TypeOK
      /\ proc \in [Proc -> Fields] /\ proc[p] \in Fields
      /\ Local(p) /\ ChildrenOf(p) /\ TargetOf(p)
  BY DEF ReleaseDec, At, ProcessInv, TypeOK
<1>3. /\ IsFiniteSet(Holders(c)) /\ ws[c].ref_cnt = Cardinality(Holders(c))
      /\ Freers(c) = {} /\ ws[c].ref_cnt \in 1 .. 2
  <2>1. /\ IsFiniteSet(Holders(c)) /\ ws[c].ref_cnt = Cardinality(Holders(c))
        /\ Freers(c) = {}
    BY <1>1, Zenon DEF ProcessInv, Counted
  <2>2. ws[c].ref_cnt # 0  BY <1>1, <2>1, FS_EmptySet, Zenon
  <2>3. ws[c].ref_cnt \in 0 .. 2  BY <1>1 DEF WaitStatus
  <2> QED BY <2>1, <2>2, <2>3, SMTT(60)
<1> DEFINE n == ws[c].ref_cnt - 1
           r == [proc[p] EXCEPT !.pc = "rel_free", !.new_ref_cnt = n]
           w == [ws[c] EXCEPT !.ref_cnt = n, !.lock = NULL]
<1>4. /\ proc' = [proc EXCEPT ![p] = r] /\ ws' = [ws EXCEPT ![c] = w]
  BY <1>1, <1>2, Zenon DEF ReleaseDec, Fields, TypeOK, WaitStatus
<1>5. n \in 0 .. 2 /\ n \in Int  BY <1>3
<1>6. n = Cardinality(Holders(c)) - 1  BY <1>3
<1> HIDE DEF n
<1>7. /\ w \in WaitStatus /\ w.ref_cnt = n /\ w.exit_code = ws[c].exit_code
      /\ w.dead = ws[c].dead
  BY <1>1, <1>5, Zenon DEF WaitStatus
<1>8. /\ r \in Fields
      /\ r.pc = "rel_free" /\ r.children = proc[p].children /\ r.target = c
      /\ r.parent = proc[p].parent /\ r.has_status = proc[p].has_status
      /\ r.exit_code = proc[p].exit_code /\ r.ret = proc[p].ret /\ r.code = proc[p].code
      /\ r.new_ref_cnt = n
  BY <1>1, <1>2, <1>5, Zenon DEF Fields, Label
<1> HIDE DEF r, w
<1>9. /\ TypeOK' /\ proc'[p] = r /\ \A q \in Proc \ {p} : proc'[q] = proc[q]
      /\ ws'[c] = w /\ w # NULL /\ \A d \in Proc \ {c} : ws'[d] = ws[d]
  BY <1>2, <1>4, <1>7, <1>8, ProcessAssumption, ZenonT(60) DEF TypeOK
<1>10. Moves(p, r)
  BY <1>2, <1>4, <1>8, ZenonT(60) DEF Moves, Exited
<1>11. WellFormed(p, r)
  <2>1. r.ret = "user" => r.code = proc[c].exit_code /\ Exited(c)
    BY <1>1, <1>8, AfterWait, ZenonT(60)
  <2>2. /\ c \notin Elems(r.children)
        /\ Loaded(p, c) \/ (c = p /\ proc[p].has_status /\ r.ret = "exit_children")
    BY <1>1, <1>2, <1>8, Target
  <2>3. r.ret # NULL  BY <1>2, <1>8, ZenonT(60) DEF Local
  <2> QED BY <1>2, <1>8, <2>1, <2>2, <2>3, Zenon DEF WellFormed, ChildrenOf
<1>12. Elems(proc[p].children)' = Elems(proc[p].children)  BY <1>8, <1>9, SMTT(60) DEF Elems
<1>13. Counted(c)'
  <2>1. ~Holds(p, c)'
    <3>1. CASE p = c
      <4>1. proc[p].ret = "exit_children"  BY <1>1, <1>2, <3>1, NotOwnChild, ZenonT(60) DEF TargetOf
      <4> QED BY <1>1, <1>8, <1>9, <1>12, <3>1, <4>1, ZenonT(60) DEF Holds
    <3>2. CASE p # c  BY <1>1, <1>8, <1>9, <1>12, <3>2, ZenonT(60) DEF Holds
    <3> QED BY <3>1, <3>2, Zenon
  <2>2. Holders(c)' = Holders(c) \ {p}
    BY <1>10, <2>1, OthersStay, ZenonT(60) DEF Holders
  <2>3. IsFiniteSet(Holders(c)') /\ Cardinality(Holders(c)') = n
    BY <1>1, <1>3, <1>6, <2>2, FS_RemoveElement, SMTT(60)
  <2>4. Holders(c)' = {} <=> n = 0  BY <2>3, FS_EmptySet, Zenon
  <2>5. \A q \in Freers(c)' : q = p
    BY <1>3, <1>9, Zenon DEF Freers
  <2>6. n = 0 <=> p \in Freers(c)'  BY <1>8, <1>9, Zenon DEF Freers
  <2> QED BY <1>7, <1>9, <2>3, <2>4, <2>5, <2>6, ZenonT(60) DEF Counted
<1>14. ASSUME NEW d \in Proc PROVE Counted(d)' /\ DeadMeansStored(d)'
  <2>1. CASE d # c
    <3>1. Holds(p, d)' <=> Holds(p, d)
      BY <1>1, <1>2, <1>8, <1>9, <1>12, <2>1 DEF Holds
    <3>2. p \notin Freers(d)  BY <1>2, Zenon DEF Freers
    <3> QED BY <1>8, <1>9, <1>10, <2>1, <3>1, <3>2, StaysCounted, StaysStored, ZenonT(60)
  <2>2. CASE d = c
    BY <1>1, <1>7, <1>8, <1>9, <1>10, <1>13, <2>2, StaysStored, ZenonT(60)
  <2> QED BY <2>1, <2>2, Zenon
<1> QED BY <1>9, <1>10, <1>11, <1>14, OneMoves

-----------------------------------------------------------------------------
(***************************************************************************)
(* The theorems                                                            *)
(***************************************************************************)

\* Every step keeps the invariant.
LEMMA ProcessStep == ProcessInv /\ [Next]_vars => ProcessInv'
<1> SUFFICES ASSUME ProcessInv, [Next]_vars PROVE ProcessInv'  OBVIOUS
<1>1. ASSUME NEW p \in Proc, Step(p) PROVE ProcessInv'
  BY <1>1, ExecReturnKeeps, CalmActions, StartProcessKeeps, NotifyKeeps, LoadDoneKeeps,
     WaitDownKeeps, ReleaseLockKeeps, ReleaseDecKeeps, ReleaseFreeKeeps, ExitStoreKeeps,
     ExitUpKeeps, ExitChildrenKeeps, ZenonT(60) DEF Step
<1>2. ASSUME NEW p \in Proc, SysExec(p) \/ SysOpen(p) \/ Killed(p) PROVE ProcessInv'
  BY <1>2, CalmActions
<1>3. ASSUME NEW p \in Proc, NEW c \in Proc, ProcessExecute(p, c) \/ ProcessWait(p, c)
      PROVE  ProcessInv'
  BY <1>3, ProcessExecuteKeeps, ProcessWaitKeeps, Zenon
<1>4. ASSUME NEW p \in Proc, NEW n \in Code, SysExit(p, n) PROVE ProcessInv'
  BY <1>4, CalmActions
<1>5. CASE UNCHANGED vars
  <2>1. UNCHANGED <<proc, ws, exec, fs_lock>>  BY <1>5, Zenon DEF vars
  <2>2. TypeOK' /\ ExecInfoAlive' /\ WaitGetsExitCode'
    BY <2>1 DEF ProcessInv, TypeOK, ExecInfoAlive, WaitGetsExitCode
  <2>3. ASSUME NEW p \in Proc
        PROVE  Local(p)' /\ ChildrenOf(p)' /\ TargetOf(p)' /\ LoadProtocol(p)'
    <3>0. Local(p) /\ ChildrenOf(p) /\ TargetOf(p) /\ LoadProtocol(p)
      BY Zenon DEF ProcessInv
    <3>1. Local(p)'  BY <2>1, <3>0, Zenon DEF Local
    <3>2. ChildrenOf(p)'  BY <2>1, <3>0, SMTT(60) DEF ChildrenOf, NoDuplicates, Elems, Loaded
    <3>3. TargetOf(p)'  BY <2>1, <3>0 DEF TargetOf, Elems, Loaded
    <3>4. LoadProtocol(p)'  BY <2>1, <3>0, Zenon DEF LoadProtocol
    <3> QED BY <3>1, <3>2, <3>3, <3>4, Zenon
  <2>4. ASSUME NEW c \in Proc PROVE Counted(c)' /\ DeadMeansStored(c)'
    <3>1. \A p \in Proc : Holds(p, c)' <=> Holds(p, c)  BY <2>1 DEF Holds, Elems
    <3>2. \A p \in Proc : p \in Freers(c)' <=> p \in Freers(c)  BY <2>1, Zenon DEF Freers
    <3>3. DeadMeansStored(c)'  BY <2>1 DEF ProcessInv, DeadMeansStored, Exited
    <3> QED BY <2>1, <3>1, <3>2, <3>3, SameReferences, ZenonT(60) DEF ProcessInv
  <2> QED BY <2>2, <2>3, <2>4, Zenon DEF ProcessInv
<1>6. CASE Terminated  BY <1>5, <1>6 DEF Terminated
<1> QED BY <1>1, <1>2, <1>3, <1>4, <1>5, <1>6, ZenonT(60) DEF Next

\* The invariant implies the three properties of the reference count.
LEMMA CountedRight == ProcessInv => RefCount /\ NoUseAfterFree /\ NoLeak
<1> SUFFICES ASSUME ProcessInv PROVE RefCount /\ NoUseAfterFree /\ NoLeak  OBVIOUS
<1>1. RefCount  BY Zenon DEF ProcessInv, RefCount, Counted, Holders
<1>2. NoUseAfterFree
  <2> SUFFICES ASSUME NEW c \in Proc
               PROVE  /\ (\E p \in Proc : Holds(p, c)) => ws[c] # NULL
                      /\ Cardinality(Freers(c)) <= (IF ws[c] = NULL THEN 0 ELSE 1)
    BY DEF NoUseAfterFree, Freers
  <2>1. Counted(c)  BY DEF ProcessInv
  <2>2. (\E p \in Proc : Holds(p, c)) => ws[c] # NULL  BY <2>1 DEF Counted, Holders
  <2>3. CASE Freers(c) = {}
    <3>1. Cardinality(Freers(c)) = 0  BY <2>3, FS_EmptySet, Zenon
    <3> QED BY <2>2, <3>1
  <2>4. CASE Freers(c) # {}
    <3>1. PICK p : Freers(c) = {p}  BY <2>1, <2>4, Zenon DEF Counted
    <3>2. Cardinality(Freers(c)) = 1 /\ ws[c] # NULL
      BY <2>1, <2>4, <3>1, FS_Singleton, Zenon DEF Counted
    <3> QED BY <2>2, <3>2
  <2> QED BY <2>3, <2>4, Zenon
<1>3. NoLeak
  <2> SUFFICES ASSUME NEW c \in Proc, ws[c] # NULL, ~(\E p \in Proc : Holds(p, c))
               PROVE  \E p \in Proc : /\ proc[p].pc = "rel_free" /\ proc[p].target = c
                                      /\ proc[p].new_ref_cnt = 0
    BY DEF NoLeak
  <2>1. Freers(c) # {}  BY Zenon DEF ProcessInv, Counted, Holders
  <2> QED BY <2>1 DEF Freers
<1> QED BY <1>1, <1>2, <1>3

\* The count of every wait_status is the number of threads that refer to it, for any
\* number of processes started, waited for and dying in any order.
THEOREM WaitStatusCounted == Spec => []RefCount
BY CountedRight, InitProcess, ProcessStep, PTL DEF Spec

\* No wait_status is used after release_child frees it, and none is freed twice.
THEOREM WaitStatusAlive == Spec => []NoUseAfterFree
BY CountedRight, InitProcess, ProcessStep, PTL DEF Spec

\* No wait_status is leaked: the last thread to release it frees it.
THEOREM WaitStatusFreed == Spec => []NoLeak
BY CountedRight, InitProcess, ProcessStep, PTL DEF Spec

\* process_wait returns the code its child exited with.
THEOREM WaitReturnsCode == Spec => []WaitGetsExitCode
<1>1. ProcessInv => WaitGetsExitCode  BY Zenon DEF ProcessInv
<1> QED BY <1>1, InitProcess, ProcessStep, PTL DEF Spec

\* start_process writes the exec_info on its parent's stack only while the parent is
\* in process_execute for this child.
THEOREM ExecInfoOnStack == Spec => []ExecInfoAlive
<1>1. ProcessInv => ExecInfoAlive  BY DEF ProcessInv
<1> QED BY <1>1, InitProcess, ProcessStep, PTL DEF Spec
=============================================================================
