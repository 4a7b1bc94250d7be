---------------------------- MODULE LoadingProofs ----------------------------
(***************************************************************************)
(* The invariant of Process holds initially, and the steps that start a    *)
(* process, and those that touch no wait_status, keep it.                  *)
(***************************************************************************)
EXTENDS Process, TLAPS

-----------------------------------------------------------------------------
(***************************************************************************)
(* The inductive invariant                                                 *)
(***************************************************************************)

Loading == {"load", "notify", "up"}

Releasing == {"rel_lock", "rel_dec", "rel_free"}

\* What a thread knows of itself: Main has no parent and no wait_status, any other
\* thread has a parent once it is created and a wait_status once it runs.
Local(p) ==
  /\ proc[p].parent # p
  /\ p = Main => /\ proc[p].parent = NULL /\ ~proc[p].has_status
                 /\ proc[p].pc \notin Loading \cup {"none"}
  /\ p # Main => (proc[p].parent = NULL <=> proc[p].pc = "none")
  /\ proc[p].pc \in Loading \cup {"none"} => proc[p].children = <<>>
  /\ proc[p].pc \in {"none", "load"} => ~proc[p].has_status
  /\ proc[p].pc \in {"exit_store", "exit_up"} => proc[p].has_status
  /\ proc[p].ret # NULL <=> proc[p].pc \in Releasing

Loaded(p, c) ==
  c \in Proc /\ proc[c].parent = p /\ proc[c].has_status
    /\ proc[c].pc \notin Loading \cup {"none"}

NoDuplicates(list) == \A i, j \in 1 .. Len(list) : list[i] = list[j] => i = j

\* The children list names each loaded child once.
ChildrenOf(p) ==
  NoDuplicates(proc[p].children) /\ \A c \in Elems(proc[p].children) : Loaded(p, c)

\* The child a thread is working on is no longer, or not yet, on its list; a thread
\* in release_child may also be giving up its own wait_status.
TargetOf(p) ==
  LET c == proc[p].target
  IN  /\ proc[p].pc = "exec_wait" => c \in Proc /\ proc[c].parent = p
      /\ proc[p].pc \in Releasing \cup {"wait"} =>
           \/ Loaded(p, c)
           \/ c = p /\ proc[p].has_status /\ proc[p].ret = "exit_children"
      /\ proc[p].pc \in Releasing \cup {"wait", "exec_wait"} =>
           c \notin Elems(proc[p].children)

\* load_done is raised once, after success is stored, by the child exec waits for.
LoadProtocol(p) ==
  LET c == proc[p].target
  IN  proc[p].pc = "exec_wait" =>
        /\ exec[p].load_done = 0 <=> proc[c].pc \in Loading
        /\ proc[c].pc \notin {"load", "notify"} => exec[p].success = proc[c].has_status

Holders(c) == {p \in Proc : Holds(p, c)}

Freers(c) ==
  {p \in Proc : /\ proc[p].pc = "rel_free" /\ proc[p].target = c
                /\ proc[p].new_ref_cnt = 0}

\* A wait_status lives while somebody refers to it or is about to free it; at most
\* one thread is, and only when nobody refers to it.
Counted(c) ==
  /\ Holders(c) # {} \/ Freers(c) # {} => ws[c] # NULL
  /\ ws[c] # NULL => /\ IsFiniteSet(Holders(c))
                     /\ ws[c].ref_cnt = Cardinality(Holders(c))
                     /\ Holders(c) = {} <=> Freers(c) # {}
  /\ \A p, q \in Freers(c) : p = q

Exited(c) == proc[c].pc \in {"exit_children", "dead"} \/ proc[c].ret = "exit_children"

\* dead is raised after the exit code is stored, which then is final.
DeadMeansStored(c) ==
  ws[c] # NULL =>
    /\ ws[c].dead > 0 => Exited(c)
    /\ ws[c].dead > 0 \/ proc[c].pc = "exit_up" => ws[c].exit_code = proc[c].exit_code

ProcessInv ==
  /\ TypeOK /\ ExecInfoAlive /\ WaitGetsExitCode
  /\ \A p \in Proc : /\ Local(p) /\ ChildrenOf(p) /\ TargetOf(p) /\ LoadProtocol(p)
                     /\ Counted(p) /\ DeadMeansStored(p)

-----------------------------------------------------------------------------
(***************************************************************************)
(* The list of children                                                    *)
(***************************************************************************)

\* list_push_back of a child that is not on the list.
LEMMA PushBack ==
  ASSUME NEW q \in Seq(Proc), NEW e \in Proc
  PROVE  /\ Append(q, e) \in Seq(Proc)
         /\ Elems(Append(q, e)) = Elems(q) \cup {e}
         /\ NoDuplicates(q) /\ e \notin Elems(q) => NoDuplicates(Append(q, e))
<1> DEFINE r == Append(q, e)
<1>1. /\ r \in Seq(Proc) /\ Len(r) = Len(q) + 1 /\ Len(q) \in Nat
      /\ \A i \in 1 .. Len(q) : r[i] = q[i]
      /\ r[Len(q) + 1] = e
  OBVIOUS
<1> HIDE DEF r
<1>2. \A i \in 1 .. Len(r) : i \in 1 .. Len(q) \/ i = Len(q) + 1
  BY <1>1
<1>3. \A i \in 1 .. Len(q) : i \in 1 .. Len(r)
  BY <1>1
<1>4. Elems(r) = Elems(q) \cup {e}
  <2>1. Len(q) + 1 \in 1 .. Len(r)  BY <1>1
  <2> QED BY <1>1, <1>2, <1>3, <2>1 DEF Elems
<1>5. NoDuplicates(q) /\ e \notin Elems(q) => NoDuplicates(r)
  BY <1>1, <1>2 DEF NoDuplicates, Elems
<1> QED BY <1>1, <1>4, <1>5 DEF r

\* What the concatenation of two lists holds.
LEMMA Joined ==
  ASSUME NEW S, NEW p \in Seq(S), NEW q \in Seq(S)
  PROVE  /\ p \o q \in Seq(S) /\ Len(p \o q) = Len(p) + Len(q)
         /\ \A i \in 1 .. Len(p) + Len(q) :
              (p \o q)[i] = IF i <= Len(p) THEN p[i] ELSE q[i - Len(p)]
<1>1. p \o q \in Seq(S)  OBVIOUS
<1>2. Len(p \o q) = Len(p) + Len(q)  OBVIOUS
<1>3. ASSUME NEW i \in 1 .. Len(p) + Len(q)
      PROVE  (p \o q)[i] = IF i <= Len(p) THEN p[i] ELSE q[i - Len(p)]
  OBVIOUS
<1> QED BY <1>1, <1>2, <1>3

\* list_remove takes one child off the list and keeps the others.
LEMMA RemoveOne ==
  ASSUME NEW q \in Seq(Proc), NEW k \in 1 .. Len(q), NoDuplicates(q)
  PROVE  LET r == list_remove(q, k)
         IN  /\ r \in Seq(Proc) /\ NoDuplicates(r)
             /\ Elems(r) = Elems(q) \ {q[k]}
<1> DEFINE front == SubSeq(q, 1, k - 1)
           back == SubSeq(q, k + 1, Len(q))
           r == front \o back
<1>0. list_remove(q, k) = r  BY DEF list_remove
<1>1. Len(q) \in Nat /\ \A i \in 1 .. Len(q) : q[i] \in Proc
  OBVIOUS
<1>2. /\ front \in Seq(Proc) /\ Len(front) = k - 1
      /\ \A i \in 1 .. k - 1 : front[i] = q[i]
  <2>1. \A i \in 1 .. k - 1 : q[i] \in Proc  BY <1>1
  <2>2. /\ front \in Seq(Proc)
        /\ Len(front) = IF 1 <= k - 1 THEN (k - 1) - 1 + 1 ELSE 0
        /\ \A i \in 1 .. (k - 1) - 1 + 1 : front[i] = q[1 + i - 1]
    BY <1>1, <2>1
  <2> QED BY <1>1, <2>2
<1>3. /\ back \in Seq(Proc) /\ Len(back) = Len(q) - k
      /\ \A i \in 1 .. Len(q) - k : back[i] = q[k + i]
  <2>1. \A i \in k + 1 .. Len(q) : q[i] \in Proc  BY <1>1
  <2>2. /\ back \in Seq(Proc)
        /\ Len(back) = IF k + 1 <= Len(q) THEN Len(q) - (k + 1) + 1 ELSE 0
        /\ \A i \in 1 .. Len(q) - (k + 1) + 1 : back[i] = q[(k + 1) + i - 1]
    BY <1>1, <2>1
  <2> QED BY <1>1, <2>2
<1> HIDE DEF front, back
<1>4. /\ r \in Seq(Proc) /\ Len(r) = Len(q) - 1
      /\ \A i \in 1 .. Len(q) - 1 : r[i] = IF i < k THEN q[i] ELSE q[i + 1]
  <2>1. /\ r \in Seq(Proc) /\ Len(r) = Len(front) + Len(back)
        /\ \A i \in 1 .. Len(front) + Len(back) :
             r[i] = IF i <= Len(front) THEN front[i] ELSE back[i - Len(front)]
    BY <1>2, <1>3, Joined, Zenon
  <2> HIDE DEF r
  <2>2. ASSUME NEW i \in 1 .. Len(q) - 1
        PROVE  r[i] = IF i < k THEN q[i] ELSE q[i + 1]
    <3>1. CASE i < k
      <4>1. i \in 1 .. Len(front) + Len(back) /\ i <= Len(front) /\ i \in 1 .. k - 1
        BY <1>1, <1>2, <1>3, <3>1
      <4>2. r[i] = front[i]  BY <2>1, <4>1
      <4> QED BY <1>2, <3>1, <4>1, <4>2
    <3>2. CASE ~(i < k)
      <4>1. i - (k - 1) \in 1 .. Len(q) - k /\ k + (i - (k - 1)) = i + 1
        BY <1>1, <3>2
      <4>2. r[i] = back[i - (k - 1)]
        <5>1. i \in 1 .. Len(front) + Len(back) /\ ~(i <= Len(front))
          BY <1>1, <1>2, <1>3, <3>2, SMTT(60)
        <5> QED BY <1>2, <2>1, <5>1
      <4>3. back[i - (k - 1)] = q[i + 1]  BY <1>3, <4>1
      <4> QED BY <3>2, <4>2, <4>3
    <3> QED BY <3>1, <3>2
  <2> QED BY <1>1, <1>2, <1>3, <2>1, <2>2
<1> HIDE DEF r
<1>5. NoDuplicates(r)
  <2> SUFFICES ASSUME NEW i \in 1 .. Len(r), NEW j \in 1 .. Len(r), r[i] = r[j]
               PROVE  i = j
    BY DEF NoDuplicates
  <2>1. /\ i \in 1 .. Len(q) /\ i + 1 \in 1 .. Len(q)
        /\ j \in 1 .. Len(q) /\ j + 1 \in 1 .. Len(q)
    BY <1>1, <1>4
  <2>2. (IF i < k THEN q[i] ELSE q[i + 1]) = (IF j < k THEN q[j] ELSE q[j + 1])
    BY <1>4
  <2> QED BY <2>1, <2>2 DEF NoDuplicates
<1>6. Elems(r) = Elems(q) \ {q[k]}
  <2>1. ASSUME NEW x \in Elems(r) PROVE x \in Elems(q) \ {q[k]}
    <3>1. PICK i \in 1 .. Len(r) : x = r[i]  BY <2>1 DEF Elems
    <3>2. /\ i \in 1 .. Len(q) /\ i + 1 \in 1 .. Len(q)
          /\ x = IF i < k THEN q[i] ELSE q[i + 1]
      BY <1>1, <1>4, <3>1
    <3> QED BY <3>2 DEF Elems, NoDuplicates
  <2>2. ASSUME NEW x \in Elems(q) \ {q[k]} PROVE x \in Elems(r)
    <3>1. PICK i \in 1 .. Len(q) : x = q[i] /\ i # k  BY <2>2 DEF Elems
    <3>2. CASE i < k
      <4>1. i \in 1 .. Len(r) /\ r[i] = x  BY <1>1, <1>4, <3>1, <3>2
      <4> QED BY <4>1 DEF Elems
    <3>3. CASE ~(i < k)
      <4>1. i - 1 \in 1 .. Len(q) - 1 /\ ~(i - 1 < k) /\ (i - 1) + 1 = i
        BY <1>1, <3>1, <3>3
      <4>2. i - 1 \in 1 .. Len(r) /\ r[i - 1] = x  BY <1>4, <3>1, <4>1
      <4> QED BY <4>2, Zenon DEF Elems
    <3> QED BY <3>2, <3>3
  <2> QED BY <2>1, <2>2
<1> QED BY <1>0, <1>4, <1>5, <1>6

\* list_pop_front takes the first child off the list and keeps the others.
LEMMA PopFront ==
  ASSUME NEW q \in Seq(Proc), q # <<>>, NoDuplicates(q)
  PROVE  /\ Head(q) \in Elems(q) /\ Tail(q) \in Seq(Proc) /\ NoDuplicates(Tail(q))
         /\ Elems(Tail(q)) = Elems(q) \ {Head(q)}
<1> DEFINE r == Tail(q)
<1>1. /\ r \in Seq(Proc) /\ Len(q) \in Nat \ {0} /\ Len(r) = Len(q) - 1
      /\ \A i \in 1 .. Len(r) : r[i] = q[i + 1]
      /\ Head(q) = q[1]
  OBVIOUS
<1> HIDE DEF r
<1>2. /\ 1 \in 1 .. Len(q)
      /\ \A i \in 1 .. Len(r) : i + 1 \in 1 .. Len(q) /\ i + 1 # 1
      /\ \A i \in 1 .. Len(q) : i # 1 => i - 1 \in 1 .. Len(r) /\ (i - 1) + 1 = i
  BY <1>1
<1>3. NoDuplicates(r)
  <2> SUFFICES ASSUME NEW i \in 1 .. Len(r), NEW j \in 1 .. Len(r), r[i] = r[j]
               PROVE  i = j
    BY DEF NoDuplicates
  <2>1. i + 1 = j + 1  BY <1>1, <1>2, Zenon DEF NoDuplicates
  <2> QED BY <2>1
<1>4. Elems(r) = Elems(q) \ {q[1]}
  <2>1. ASSUME NEW x \in Elems(r) PROVE x \in Elems(q) \ {q[1]}
    <3>1. PICK i \in 1 .. Len(r) : x = r[i]  BY <2>1 DEF Elems
    <3>2. i + 1 \in 1 .. Len(q) /\ i + 1 # 1 /\ x = q[i + 1]  BY <1>1, <1>2, <3>1, Zenon
    <3>3. q[i + 1] # q[1]  BY <1>2, <3>2, Zenon DEF NoDuplicates
    <3> QED BY <3>2, <3>3, Zenon DEF Elems
  <2>2. ASSUME NEW x \in Elems(q) \ {q[1]} PROVE x \in Elems(r)
    <3>1. PICK i \in 1 .. Len(q) : x = q[i] /\ i # 1  BY <2>2 DEF Elems
    <3>2. i - 1 \in 1 .. Len(r) /\ r[i - 1] = x  BY <1>1, <1>2, <3>1
    <3> QED BY <3>2 DEF Elems
  <2> QED BY <2>1, <2>2
<1> QED BY <1>1, <1>2, <1>3, <1>4, ZenonT(60) DEF r, Elems

-----------------------------------------------------------------------------
(***************************************************************************)
(* Facts used for many steps                                               *)
(***************************************************************************)

\* Nobody but the child and its parent refers to a wait_status.
LEMMA WhoHolds ==
  ASSUME ProcessInv, NEW p \in Proc, NEW c \in Proc, Holds(p, c)
  PROVE  proc[c].has_status /\ (p = c \/ proc[c].parent = p)
BY DEF ProcessInv, Holds, ChildrenOf, TargetOf, Loaded, Releasing

\* The count stays right in a step that changes neither the references to c's
\* wait_status, nor who is about to free it, nor the count.
LEMMA SameReferences ==
  ASSUME NEW c \in Proc, Counted(c),
         \A p \in Proc : Holds(p, c)' <=> Holds(p, c),
         \A p \in Proc : p \in Freers(c)' <=> p \in Freers(c),
         ws'[c] = NULL <=> ws[c] = NULL,
         ws[c] # NULL => ws'[c].ref_cnt = ws[c].ref_cnt
  PROVE  Counted(c)'
<1>1. Holders(c)' = Holders(c)  BY DEF Holders
<1>2. Freers(c)' = Freers(c)  BY DEF Freers
<1> QED BY <1>1, <1>2 DEF Counted

\* While a child loads, its parent waits for it in process_execute, and no other
\* thread knows of it.
LEMMA WhileLoading ==
  ASSUME ProcessInv, NEW c \in Proc, proc[c].pc \in Loading, NEW p, p = proc[c].parent
  PROVE  /\ p \in Proc /\ p # c /\ c # Main
         /\ proc[p].pc = "exec_wait" /\ proc[p].target = c /\ exec[p].load_done = 0
         /\ proc[c].children = <<>> /\ proc[c].ret = NULL
         /\ \A q \in Proc : /\ c \notin Elems(proc[q].children)
                            /\ proc[q].pc \in Releasing \cup {"wait"} => proc[q].target # c
                            /\ proc[q].pc = "exec_wait" /\ proc[q].target = c => q = p
<1> USE DEF Loading, Releasing
<1>1. c # Main /\ p \in Proc /\ p # c /\ proc[c].children = <<>> /\ proc[c].ret = NULL
  <2>1. p \in Proc \cup {NULL}  BY DEF ProcessInv, TypeOK, Fields
  <2> QED BY <2>1 DEF ProcessInv, Local
<1>2. proc[p].pc = "exec_wait" /\ proc[p].target = c
  BY DEF ProcessInv, ExecInfoAlive
<1>3. exec[p].load_done = 0
  BY <1>1, <1>2 DEF ProcessInv, LoadProtocol
<1>4. ASSUME NEW q \in Proc
      PROVE  /\ c \notin Elems(proc[q].children)
             /\ proc[q].pc \in Releasing \cup {"wait"} => proc[q].target # c
             /\ proc[q].pc = "exec_wait" /\ proc[q].target = c => q = p
  BY DEF ProcessInv, ChildrenOf, TargetOf, Loaded
<1> QED BY <1>1, <1>2, <1>3, <1>4

\* A thread that has read an exit code in process_wait is releasing the child.
LEMMA AfterWait ==
  ASSUME ProcessInv, NEW q \in Proc, proc[q].ret = "user", NEW d, d = proc[q].target
  PROVE  /\ proc[q].pc \in Releasing /\ Loaded(q, d) /\ d # q
         /\ proc[q].code = proc[d].exit_code /\ Exited(d)
<1>1. proc[q].pc \in Releasing  BY ProcessAssumption DEF ProcessInv, Local
<1>2. Loaded(q, d)  BY <1>1 DEF ProcessInv, TargetOf
<1>3. d # q  BY <1>2 DEF Loaded, ProcessInv, Local
<1> QED BY <1>1, <1>2, <1>3 DEF ProcessInv, WaitGetsExitCode, Exited

\* Nobody has been told of the death of a thread that is not yet past its exit.
LEMMA NotYetDead ==
  ASSUME ProcessInv, NEW c \in Proc, ws[c] # NULL, ~Exited(c)
  PROVE  ws[c] \in WaitStatus /\ ws[c].dead = 0
<1>1. ws[c] \in WaitStatus  BY DEF ProcessInv, TypeOK
<1>2. ws[c].dead \in 0 .. 1  BY <1>1 DEF WaitStatus
<1>3. ~(ws[c].dead > 0)  BY DEF ProcessInv, DeadMeansStored
<1> QED BY <1>1, <1>2, <1>3

\* A thread that runs in user mode or in a system call that touches no child.
Calm == {"user", "exec", "exec_unlock", "exit", "exit_store"}

\* A step of a calm thread that changes no shared state and leaves it calm, or lets
\* a thread without a wait_status go on to release its children.
LEMMA CalmStep ==
  ASSUME ProcessInv, NEW p \in Proc, NEW r \in Fields,
         proc' = [proc EXCEPT ![p] = r], UNCHANGED <<ws, exec>>, fs_lock' \in Proc \cup {NULL},
         r.parent = proc[p].parent, r.children = proc[p].children,
         r.has_status = proc[p].has_status, r.ret = proc[p].ret,
         proc[p].pc \in Calm,
         \/ r.pc \in Calm /\ (r.pc = "exit_store" => proc[p].has_status)
         \/ r.pc = "exit_children" /\ ~proc[p].has_status
  PROVE  ProcessInv'
<1> USE DEF Calm, Loading, Releasing
<1>0. TypeOK' /\ proc'[p] = r /\ \A q \in Proc \ {p} : proc'[q] = proc[q]
  BY DEF ProcessInv, TypeOK
<1>1. ASSUME NEW q \in Proc PROVE Local(q)'
  BY <1>0 DEF ProcessInv, Local
<1>2. ASSUME NEW q \in Proc, NEW c, Loaded(q, c) PROVE Loaded(q, c)'
  BY <1>0, <1>2, Zenon DEF Loaded
<1>3. ASSUME NEW q \in Proc PROVE ChildrenOf(q)'
  <2>1. proc'[q].children = proc[q].children  BY <1>0
  <2> QED BY <1>0, <1>2, <2>1 DEF ProcessInv, ChildrenOf, NoDuplicates, Elems
<1>4. ASSUME NEW q \in Proc PROVE TargetOf(q)'
  <2>1. CASE q = p  BY <1>0, <2>1, Zenon DEF TargetOf
  <2>2. CASE q # p
    <3>1. \A c \in Proc : proc'[c].parent = proc[c].parent  BY <1>0, Zenon
    <3> QED BY <1>0, <1>2, <2>2, <3>1, SMTT(60) DEF ProcessInv, TargetOf, Elems
  <2> QED BY <1>0, <2>1, <2>2
<1>5. ASSUME NEW q \in Proc PROVE LoadProtocol(q)'
  <2>1. \A c \in Proc : /\ proc'[c].has_status = proc[c].has_status
                        /\ \A l \in Loading : proc'[c].pc = l <=> proc[c].pc = l
    BY <1>0
  <2> QED BY <1>0, <2>1 DEF ProcessInv, LoadProtocol, TargetOf
<1>6. ASSUME NEW c \in Proc PROVE Counted(c)'
  <2>1. ASSUME NEW q \in Proc PROVE Holds(q, c)' <=> Holds(q, c)
    BY <1>0 DEF ProcessInv, Local, Holds, Elems
  <2>2. \A q \in Proc : q \in Freers(c)' <=> q \in Freers(c)
    BY <1>0 DEF Freers
  <2> QED BY <1>0, <2>1, <2>2, SameReferences, Zenon DEF ProcessInv
<1>7. ASSUME NEW c \in Proc PROVE DeadMeansStored(c)'
  <2>1. CASE c = p
    <3>1. ~Exited(p)  BY <1>0, ProcessAssumption DEF ProcessInv, Local, Exited
    <3>2. ws[p] # NULL => ws[p].dead = 0  BY <1>0, <3>1, NotYetDead
    <3> QED BY <1>0, <2>1, <3>2 DEF DeadMeansStored
  <2>2. CASE c # p  BY <1>0, <2>2 DEF ProcessInv, DeadMeansStored, Exited
  <2> QED BY <1>0, <2>1, <2>2
<1>8. ExecInfoAlive'
  <2> SUFFICES ASSUME NEW d \in Proc, proc'[d].pc \in Loading
               PROVE  /\ proc'[proc'[d].parent].pc = "exec_wait"
                      /\ proc'[proc'[d].parent].target = d
    BY <1>0 DEF ExecInfoAlive
  <2>1. proc[d].pc \in Loading /\ proc'[d].parent = proc[d].parent  BY <1>0
  <2>2. proc[d].parent \in Proc \ {p} /\ proc[proc[d].parent].pc = "exec_wait"
           /\ proc[proc[d].parent].target = d
    BY <1>0, <2>1, WhileLoading
  <2> QED BY <1>0, <2>1, <2>2
<1>9. WaitGetsExitCode'
  <2> SUFFICES ASSUME NEW q \in Proc, proc'[q].ret = "user", NEW d, d = proc'[q].target
               PROVE  /\ proc'[q].code = proc'[d].exit_code
                      /\ proc'[d].pc \in {"exit_children", "dead"} \/ proc'[d].ret = "exit_children"
    BY <1>0 DEF WaitGetsExitCode
  <2>1. q # p  BY <1>0, ProcessAssumption DEF ProcessInv, Local
  <2>2. Loaded(q, d) /\ proc[q].code = proc[d].exit_code /\ Exited(d)
    BY <1>0, <2>1, AfterWait, SMTT(60)
  <2>3. d # p  BY <1>0, <2>2, ProcessAssumption DEF ProcessInv, Local, Exited
  <2> QED BY <1>0, <2>1, <2>2, <2>3, SMTT(60) DEF Loaded, Exited
<1> QED BY <1>0, <1>1, <1>3, <1>4, <1>5, <1>6, <1>7, <1>8, <1>9, Zenon DEF ProcessInv

-----------------------------------------------------------------------------
(***************************************************************************)
(* The steps of process_execute and start_process                          *)
(***************************************************************************)

\* main runs, and no process exists.
LEMMA InitProcess == Init => ProcessInv
<1> SUFFICES ASSUME Init PROVE ProcessInv  OBVIOUS
<1> USE DEF Init
<1>1. TypeOK  BY ProcessAssumption DEF TypeOK, Fields, Label
<1>2. ExecInfoAlive /\ WaitGetsExitCode
  BY ProcessAssumption DEF ExecInfoAlive, WaitGetsExitCode
<1>3. ASSUME NEW p \in Proc
      PROVE  Local(p) /\ ChildrenOf(p) /\ TargetOf(p) /\ LoadProtocol(p)
  <2>1. proc[p].pc \in {"user", "none"} /\ proc[p].children = <<>>  OBVIOUS
  <2>2. Local(p)  BY ProcessAssumption DEF Local, Loading, Releasing
  <2>3. ChildrenOf(p)  BY <2>1 DEF ChildrenOf, NoDuplicates, Elems
  <2>4. TargetOf(p) /\ LoadProtocol(p)  BY <2>1, Zenon DEF TargetOf, LoadProtocol, Releasing
  <2> QED BY <2>2, <2>3, <2>4, Zenon
<1>4. ASSUME NEW c \in Proc PROVE Counted(c) /\ DeadMeansStored(c)
  <2>1. Holders(c) = {} /\ Freers(c) = {}
    BY ProcessAssumption DEF Holders, Freers, Holds, Elems
  <2> QED BY <2>1 DEF Counted, DeadMeansStored
<1> QED BY <1>1, <1>2, <1>3, <1>4 DEF ProcessInv

\* The steps of exec, open and exit that touch no wait_status.
LEMMA CalmActions ==
  ASSUME ProcessInv, NEW p \in Proc,
         \/ SysExec(p) \/ ExecuteFails(p) \/ ExecUnlock(p) \/ SysOpen(p) \/ Killed(p)
         \/ SyscallExit(p) \/ \E n \in Code : SysExit(p, n)
  PROVE  ProcessInv'
<1> USE DEF At, Goto
<1>0. proc \in [Proc -> Fields] /\ proc[p] \in Fields /\ TypeOK
  BY DEF ProcessInv, TypeOK
<1>1. ASSUME SysExec(p) PROVE ProcessInv'
  <2> DEFINE r == [proc[p] EXCEPT !.pc = "exec"]
  <2>1. r \in Fields  BY <1>0 DEF Fields, Label
  <2>2. proc' = [proc EXCEPT ![p] = r]  BY <1>0, <1>1 DEF SysExec, Fields
  <2>3. /\ r.parent = proc[p].parent /\ r.children = proc[p].children
        /\ r.has_status = proc[p].has_status /\ r.ret = proc[p].ret
        /\ proc[p].pc \in Calm
        /\ \/ r.pc \in Calm /\ (r.pc = "exit_store" => proc[p].has_status)
           \/ r.pc = "exit_children" /\ ~proc[p].has_status
    BY <1>0, <1>1 DEF SysExec, Fields, Calm
  <2> HIDE DEF r
  <2> QED BY <1>0, <1>1, <2>1, <2>2, <2>3, CalmStep, Zenon DEF SysExec, TypeOK
<1>2. ASSUME ExecuteFails(p) PROVE ProcessInv'
  <2> DEFINE r == [proc[p] EXCEPT !.pc = "exec_unlock"]
  <2>1. r \in Fields  BY <1>0 DEF Fields, Label
  <2>2. proc' = [proc EXCEPT ![p] = r]  BY <1>0, <1>2 DEF ExecuteFails, Fields
  <2>3. /\ r.parent = proc[p].parent /\ r.children = proc[p].children
        /\ r.has_status = proc[p].has_status /\ r.ret = proc[p].ret
        /\ proc[p].pc \in Calm
        /\ \/ r.pc \in Calm /\ (r.pc = "exit_store" => proc[p].has_status)
           \/ r.pc = "exit_children" /\ ~proc[p].has_status
    BY <1>0, <1>2 DEF ExecuteFails, Fields, Calm
  <2> HIDE DEF r
  <2> QED BY <1>0, <1>2, <2>1, <2>2, <2>3, CalmStep, Zenon DEF ExecuteFails, TypeOK
<1>3. ASSUME ExecUnlock(p) PROVE ProcessInv'
  <2> DEFINE r == [proc[p] EXCEPT !.pc = "user"]
  <2>1. r \in Fields  BY <1>0 DEF Fields, Label
  <2>2. proc' = [proc EXCEPT ![p] = r]  BY <1>0, <1>3 DEF ExecUnlock, Fields
  <2>3. /\ r.parent = proc[p].parent /\ r.children = proc[p].children
        /\ r.has_status = proc[p].has_status /\ r.ret = proc[p].ret
        /\ proc[p].pc \in Calm
        /\ \/ r.pc \in Calm /\ (r.pc = "exit_store" => proc[p].has_status)
           \/ r.pc = "exit_children" /\ ~proc[p].has_status
    BY <1>0, <1>3 DEF ExecUnlock, Fields, Calm
  <2> HIDE DEF r
  <2> QED BY <1>0, <1>3, <2>1, <2>2, <2>3, CalmStep, Zenon DEF ExecUnlock, TypeOK
<1>4. ASSUME SysOpen(p) PROVE ProcessInv'
  <2> DEFINE r == [proc[p] EXCEPT !.files = TRUE]
  <2>1. r \in Fields  BY <1>0, Zenon DEF Fields, Label
  <2>2. proc' = [proc EXCEPT ![p] = r]  BY <1>0, <1>4 DEF SysOpen, Fields
  <2>3. /\ r.parent = proc[p].parent /\ r.children = proc[p].children
        /\ r.has_status = proc[p].has_status /\ r.ret = proc[p].ret
        /\ proc[p].pc \in Calm
        /\ \/ r.pc \in Calm /\ (r.pc = "exit_store" => proc[p].has_status)
           \/ r.pc = "exit_children" /\ ~proc[p].has_status
    BY <1>0, <1>4 DEF SysOpen, Fields, Calm
  <2> HIDE DEF r
  <2> QED BY <1>0, <1>4, <2>1, <2>2, <2>3, CalmStep, Zenon DEF SysOpen, TypeOK
<1>5. ASSUME Killed(p) PROVE ProcessInv'
  <2> DEFINE r == [proc[p] EXCEPT !.pc = "exit"]
  <2>1. r \in Fields  BY <1>0 DEF Fields, Label
  <2>2. proc' = [proc EXCEPT ![p] = r]  BY <1>0, <1>5 DEF Killed, Fields
  <2>3. /\ r.parent = proc[p].parent /\ r.children = proc[p].children
        /\ r.has_status = proc[p].has_status /\ r.ret = proc[p].ret
        /\ proc[p].pc \in Calm
        /\ \/ r.pc \in Calm /\ (r.pc = "exit_store" => proc[p].has_status)
           \/ r.pc = "exit_children" /\ ~proc[p].has_status
    BY <1>0, <1>5 DEF Killed, Fields, Calm
  <2> HIDE DEF r
  <2> QED BY <1>0, <1>5, <2>1, <2>2, <2>3, CalmStep, Zenon DEF Killed, TypeOK
<1>6. ASSUME SyscallExit(p) PROVE ProcessInv'
  <2> DEFINE r == [proc[p] EXCEPT !.pc = IF proc[p].has_status THEN "exit_store"
                                                   ELSE "exit_children",
                             !.files = FALSE]
  <2>1. r \in Fields  BY <1>0, Zenon DEF Fields, Label
  <2>2. proc' = [proc EXCEPT ![p] = r]  BY <1>0, <1>6, Zenon DEF SyscallExit, Fields
  <2>3. /\ r.parent = proc[p].parent /\ r.children = proc[p].children
        /\ r.has_status = proc[p].has_status /\ r.ret = proc[p].ret
        /\ proc[p].pc \in Calm
        /\ \/ r.pc \in Calm /\ (r.pc = "exit_store" => proc[p].has_status)
           \/ r.pc = "exit_children" /\ ~proc[p].has_status
    BY <1>0, <1>6 DEF SyscallExit, Fields, Calm
  <2> HIDE DEF r
  <2> QED BY <1>0, <1>6, <2>1, <2>2, <2>3, CalmStep, Zenon DEF SyscallExit, TypeOK
<1>7. ASSUME NEW n \in Code, SysExit(p, n) PROVE ProcessInv'
  <2> DEFINE r == [proc[p] EXCEPT !.pc = "exit", !.exit_code = n]
  <2>1. r \in Fields  BY <1>0, ProcessAssumption, ZenonT(30) DEF Fields, Label
  <2>2. proc' = [proc EXCEPT ![p] = r]  BY <1>0, <1>7, Zenon DEF SysExit, Fields
  <2>3. /\ r.parent = proc[p].parent /\ r.children = proc[p].children
        /\ r.has_status = proc[p].has_status /\ r.ret = proc[p].ret
        /\ proc[p].pc \in Calm
        /\ \/ r.pc \in Calm /\ (r.pc = "exit_store" => proc[p].has_status)
           \/ r.pc = "exit_children" /\ ~proc[p].has_status
    BY <1>0, <1>7, Zenon DEF SysExit, Fields, Calm
  <2> HIDE DEF r
  <2> QED BY <1>0, <1>7, <2>1, <2>2, <2>3, CalmStep, ZenonT(60) DEF SysExit, TypeOK
<1> QED BY <1>1, <1>2, <1>3, <1>4, <1>5, <1>6, <1>7

\* process_execute creates a thread nobody has heard of.
LEMMA ProcessExecuteKeeps ==
  ASSUME ProcessInv, NEW p \in Proc, NEW c \in Proc, ProcessExecute(p, c)
  PROVE  ProcessInv'
<1> USE DEF Loading, Releasing
<1>1. /\ p # c /\ proc[p].pc \in {"exec", "user"} /\ proc[c].pc = "none" /\ c # Main
      /\ proc[c].parent = NULL /\ ~proc[c].has_status /\ proc[c].children = <<>>
  BY DEF ProcessExecute, At, ProcessInv, Local
<1>2. /\ TypeOK /\ proc \in [Proc -> Fields]
      /\ proc[p] \in Fields /\ proc[c] \in Fields
  BY DEF ProcessInv, TypeOK
<1> DEFINE r == [proc[p] EXCEPT !.pc = "exec_wait", !.target = c]
           u == [proc[c] EXCEPT !.pc = "load", !.parent = p]
<1>r. r \in Fields /\ u \in Fields  BY <1>2, Zenon DEF Fields, Label
<1>s. proc' = [proc EXCEPT ![p] = r, ![c] = u]
  BY <1>1, <1>2, Zenon DEF ProcessExecute, Fields
<1>t. TypeOK'
  <2>1. exec' \in [Proc -> [load_done : 0 .. 1, success : BOOLEAN]]
    BY <1>2, SMTT(60) DEF ProcessExecute, TypeOK
  <2>2. proc' \in [Proc -> Fields]
    <3> HIDE DEF r, u
    <3> QED BY <1>2, <1>r, <1>s
  <2> QED BY <1>2, <2>1, <2>2 DEF ProcessExecute, TypeOK
<1>3. /\ \A q \in Proc \ {p, c} : proc'[q] = proc[q]
      /\ \A q \in Proc : /\ proc'[q].children = proc[q].children
                         /\ proc'[q].has_status = proc[q].has_status
                         /\ proc'[q].ret = proc[q].ret
                         /\ proc'[q].exit_code = proc[q].exit_code
                         /\ proc'[q].code = proc[q].code
                         /\ q # c => proc'[q].parent = proc[q].parent
                         /\ q # p => proc'[q].target = proc[q].target
      /\ proc'[p].pc = "exec_wait" /\ proc'[p].target = c
      /\ proc'[c].pc = "load" /\ proc'[c].parent = p
  <2>1. /\ proc'[p] = r /\ proc'[c] = u
        /\ \A q \in Proc \ {p, c} : proc'[q] = proc[q]
    BY <1>1, <1>2, <1>s
  <2>2. /\ r.pc = "exec_wait" /\ r.target = c /\ r.parent = proc[p].parent
        /\ r.children = proc[p].children /\ r.has_status = proc[p].has_status
        /\ r.ret = proc[p].ret /\ r.exit_code = proc[p].exit_code
        /\ r.code = proc[p].code
    BY <1>2 DEF Fields
  <2>3. /\ u.pc = "load" /\ u.parent = p /\ u.target = proc[c].target
        /\ u.children = proc[c].children /\ u.has_status = proc[c].has_status
        /\ u.ret = proc[c].ret /\ u.exit_code = proc[c].exit_code
        /\ u.code = proc[c].code
    BY <1>2 DEF Fields
  <2> HIDE DEF r, u
  <2> QED BY <2>1, <2>2, <2>3
<1> HIDE DEF r, u
<1>4. /\ UNCHANGED ws /\ exec'[p].load_done = 0
      /\ \A q \in Proc \ {p} : exec'[q] = exec[q]
  BY DEF ProcessExecute, ProcessInv, TypeOK
<1> DEFINE Ours(q) == proc[q].pc \in Releasing \cup {"wait", "exec_wait"} => proc[q].target # c
<1>5. ASSUME NEW q \in Proc PROVE Ours(q) /\ c \notin Elems(proc[q].children)
  BY <1>1, ProcessAssumption, SMTT(60) DEF ProcessInv, TargetOf, ChildrenOf, Loaded
<1>6. ASSUME NEW q \in Proc PROVE Local(q)'
  BY <1>1, <1>3, ProcessAssumption DEF ProcessInv, Local
<1>7. ASSUME NEW q \in Proc, NEW d, Loaded(q, d) PROVE Loaded(q, d)'
  BY <1>1, <1>3, <1>7, ZenonT(60) DEF Loaded
<1>8. ASSUME NEW q \in Proc PROVE ChildrenOf(q)'
  BY <1>3, <1>7, SMTT(60) DEF ProcessInv, ChildrenOf, NoDuplicates, Elems
<1>9. ASSUME NEW q \in Proc PROVE TargetOf(q)'
  <2>1. CASE q = p  BY <1>3, <1>5, <2>1, SMTT(60) DEF TargetOf, Elems
  <2>2. CASE q = c  BY <1>3, <2>2, <1>1, Zenon DEF TargetOf
  <2>3. CASE q \in Proc \ {p, c}
    BY <1>3, <1>5, <1>7, <2>3, SMTT(60) DEF ProcessInv, TargetOf, Elems
  <2> QED BY <2>1, <2>2, <2>3, Zenon
<1>10. ASSUME NEW q \in Proc PROVE LoadProtocol(q)'
  <2>1. CASE q = p  BY <1>3, <1>4, <2>1 DEF LoadProtocol
  <2>2. CASE q = c  BY <1>3, <2>2, <1>1, Zenon DEF LoadProtocol
  <2>3. CASE q \in Proc \ {p, c}
    <3>1. proc[q].pc = "exec_wait" => proc[q].target \in Proc \ {p, c} \/ proc[q].target = p
      BY <1>5, <2>3, Zenon DEF ProcessInv, TargetOf
    <3> QED BY <1>1, <1>3, <1>4, <2>3, <3>1, SMTT(60) DEF ProcessInv, LoadProtocol
  <2> QED BY <2>1, <2>2, <2>3
<1>11. ASSUME NEW d \in Proc PROVE Counted(d)'
  <2>1. ASSUME NEW q \in Proc PROVE Holds(q, d)' <=> Holds(q, d)
    <3>1. CASE q = p  BY <1>1, <1>3, <3>1, SMTT(60) DEF Holds, Elems
    <3>2. CASE q = c  BY <1>1, <1>3, <3>2, SMTT(60) DEF Holds, Elems
    <3>3. CASE q \in Proc \ {p, c}  BY <1>1, <1>3, <3>3, SMTT(60) DEF Holds, Elems
    <3> QED BY <3>1, <3>2, <3>3, Zenon
  <2>2. \A q \in Proc : q \in Freers(d)' <=> q \in Freers(d)
    BY <1>1, <1>3, SMTT(60) DEF Freers
  <2> QED BY <1>4, <2>1, <2>2, SameReferences DEF ProcessInv
<1>12. ASSUME NEW d \in Proc PROVE DeadMeansStored(d)'
  BY <1>1, <1>3, <1>4 DEF ProcessInv, DeadMeansStored, Exited
<1>13. ExecInfoAlive'
  <2> SUFFICES ASSUME NEW d \in Proc, proc'[d].pc \in Loading
               PROVE  /\ proc'[proc'[d].parent].pc = "exec_wait"
                      /\ proc'[proc'[d].parent].target = d
    BY DEF ExecInfoAlive
  <2>1. CASE d = c  BY <1>3, <2>1
  <2>2. CASE d # c
    <3>1. proc'[d] = proc[d]  BY <1>3, <2>2, Zenon
    <3>2. /\ proc[d].parent \in Proc \ {p, c} /\ proc[proc[d].parent].pc = "exec_wait"
          /\ proc[proc[d].parent].target = d
      BY <1>1, <3>1, WhileLoading, SMTT(60)
    <3> QED BY <1>3, <3>1, <3>2
  <2> QED BY <2>1, <2>2
<1>14. WaitGetsExitCode'
  <2> SUFFICES ASSUME NEW q \in Proc, proc'[q].ret = "user", NEW d, d = proc'[q].target
               PROVE  /\ proc'[q].code = proc'[d].exit_code
                      /\ proc'[d].pc \in {"exit_children", "dead"} \/ proc'[d].ret = "exit_children"
    BY ZenonT(60) DEF WaitGetsExitCode
  <2>1. q \in Proc \ {p, c}
    BY <1>1, <1>3, ProcessAssumption, SMTT(60) DEF ProcessInv, Local
  <2>2. Loaded(q, d) /\ proc[q].code = proc[d].exit_code /\ Exited(d)
    BY <1>3, <2>1, AfterWait
  <2>3. d \in Proc \ {p, c}
    BY <1>1, <2>2, ProcessAssumption, ZenonT(60) DEF ProcessInv, Local, Exited, Loaded
  <2> QED BY <1>3, <2>1, <2>2, <2>3 DEF Exited
<1> QED BY <1>t, <1>6, <1>8, <1>9, <1>10, <1>11, <1>12, <1>13, <1>14, SMTT(20) DEF ProcessInv

\* A step of a loading child that changes only its program point, from one where it
\* loads, and perhaps its wait_status and its parent's exec_info.
LEMMA LoadingStep ==
  ASSUME ProcessInv, TypeOK', NEW c \in Proc, proc[c].pc \in Loading,
         NEW p, p = proc[c].parent,
         \A q \in Proc \ {c} : proc'[q] = proc[q] /\ ws'[q] = ws[q],
         \A q \in Proc \ {p} : exec'[q] = exec[q],
         proc'[c].parent = proc[c].parent,
         proc'[c].children = proc[c].children,
         proc'[c].ret = proc[c].ret,
         proc'[c].pc \in {"notify", "up", "user", "exit"},
         exec'[p].load_done = 0 <=> proc'[c].pc \in Loading,
         proc'[c].pc # "notify" => exec'[p].success = proc'[c].has_status,
         Counted(c)',
         ws'[c] # NULL => ws'[c].dead = 0,
         \A q \in Proc, d \in Proc \ {c} : Holds(q, d)' <=> Holds(q, d)
  PROVE  ProcessInv'
<1> USE DEF Loading, Releasing
<1>1. /\ p \in Proc /\ p # c /\ c # Main
      /\ proc[p].pc = "exec_wait" /\ proc[p].target = c /\ exec[p].load_done = 0
      /\ proc[c].children = <<>> /\ proc[c].ret = NULL
      /\ \A q \in Proc : /\ c \notin Elems(proc[q].children)
                         /\ proc[q].pc \in Releasing \cup {"wait"} => proc[q].target # c
                         /\ proc[q].pc = "exec_wait" /\ proc[q].target = c => q = p
  BY WhileLoading, SMTT(60)
<1>2. ASSUME NEW q \in Proc PROVE Local(q)'
  <2>1. CASE q = c  BY <1>1, <2>1, SMTT(60) DEF ProcessInv, Local
  <2>2. CASE q # c  BY <2>2, SMTT(60) DEF ProcessInv, Local
  <2> QED BY <2>1, <2>2, Zenon
<1>3. ASSUME NEW q \in Proc, NEW d, Loaded(q, d) PROVE Loaded(q, d)'
  BY <1>3 DEF Loaded
<1>4. ASSUME NEW q \in Proc PROVE ChildrenOf(q)'
  <2>1. proc'[q].children = proc[q].children  OBVIOUS
  <2> QED BY <1>3, <2>1 DEF ProcessInv, ChildrenOf, NoDuplicates, Elems
<1>5. ASSUME NEW q \in Proc PROVE TargetOf(q)'
  <2>1. CASE q = c  BY <2>1, ZenonT(60) DEF TargetOf
  <2>2. CASE q # c
    <3>1. proc'[q] = proc[q] /\ TargetOf(q)  BY <2>2, Zenon DEF ProcessInv
    <3>2. proc[q].pc = "exec_wait" => proc'[proc[q].target].parent = q
      BY <3>1, ZenonT(60) DEF TargetOf
    <3>3. \A d : Loaded(q, d) => Loaded(q, d)'  BY <1>3, Zenon
    <3>4. Elems(proc[q].children)' = Elems(proc[q].children)  BY <3>1, SMTT(60) DEF Elems
    <3> QED BY <3>1, <3>2, <3>3, <3>4, ZenonT(60) DEF TargetOf
  <2> QED BY <2>1, <2>2, Zenon
<1>6. ASSUME NEW q \in Proc PROVE LoadProtocol(q)'
  <2>1. CASE q = c  BY <2>1, Zenon DEF LoadProtocol
  <2>2. CASE q = p  BY <1>1, <2>2, SMTT(60) DEF LoadProtocol
  <2>3. CASE q \in Proc \ {c, p}
    <3>1. proc[q].pc = "exec_wait" => proc[q].target \in Proc \ {c}
      BY <1>1, <2>3, Zenon DEF ProcessInv, TargetOf
    <3> QED BY <2>3, <3>1, SMTT(60) DEF ProcessInv, LoadProtocol
  <2> QED BY <2>1, <2>2, <2>3, Zenon
<1>7. ASSUME NEW d \in Proc PROVE Counted(d)'
  <2>1. CASE d = c  BY <2>1, Zenon
  <2>2. CASE d # c
    <3>1. \A q \in Proc : q \in Freers(d)' <=> q \in Freers(d)
      BY DEF Freers
    <3> QED BY <2>2, <3>1, SameReferences, ZenonT(60) DEF ProcessInv
  <2> QED BY <2>1, <2>2, SMTT(20)
<1>8. ASSUME NEW d \in Proc PROVE DeadMeansStored(d)'
  <2>1. CASE d = c  BY <2>1 DEF DeadMeansStored
  <2>2. CASE d # c  BY <2>2, ZenonT(60) DEF ProcessInv, DeadMeansStored, Exited
  <2> QED BY <2>1, <2>2, ZenonT(60)
<1>9. ExecInfoAlive'
  <2> SUFFICES ASSUME NEW d \in Proc, proc'[d].pc \in Loading
               PROVE  /\ proc'[proc'[d].parent].pc = "exec_wait"
                      /\ proc'[proc'[d].parent].target = d
    BY Zenon DEF ExecInfoAlive
  <2>1. proc[d].pc \in Loading /\ proc'[d].parent = proc[d].parent
    BY ZenonT(60)
  <2>2. /\ proc[d].parent \in Proc \ {c} /\ proc[proc[d].parent].pc = "exec_wait"
        /\ proc[proc[d].parent].target = d
    BY <2>1, WhileLoading
  <2> QED BY <2>1, <2>2, ZenonT(60)
<1>10. WaitGetsExitCode'
  <2> SUFFICES ASSUME NEW q \in Proc, proc'[q].ret = "user", NEW d, d = proc'[q].target
               PROVE  /\ proc'[q].code = proc'[d].exit_code
                      /\ proc'[d].pc \in {"exit_children", "dead"} \/ proc'[d].ret = "exit_children"
    BY DEF WaitGetsExitCode
  <2>1. q # c  BY <1>1, ProcessAssumption, ZenonT(60)
  <2>2. Loaded(q, d) /\ proc[q].code = proc[d].exit_code /\ Exited(d)
    BY <2>1, AfterWait, SMTT(60)
  <2>3. d \in Proc \ {c}  BY <2>2 DEF Loaded
  <2> QED BY <2>1, <2>2, <2>3, Zenon DEF Exited
<1> QED BY <1>2, <1>4, <1>5, <1>6, <1>7, <1>8, <1>9, <1>10, Zenon DEF ProcessInv

\* The child tells its parent whether it was loaded.
LEMMA NotifyKeeps ==
  ASSUME ProcessInv, NEW c \in Proc, Notify(c)
  PROVE  ProcessInv'
<1> USE DEF Loading, Releasing
<1>1. PICK p \in Proc :
        /\ p = proc[c].parent /\ p # c
        /\ proc[c].children = <<>> /\ proc[c].ret = NULL /\ exec[p].load_done = 0
  BY WhileLoading DEF Notify, At
<1>2. /\ proc[c].pc = "notify" /\ UNCHANGED <<ws, fs_lock>>
      /\ TypeOK /\ proc \in [Proc -> Fields] /\ proc[c] \in Fields
  BY DEF Notify, At, ProcessInv, TypeOK
<1> DEFINE r == [proc[c] EXCEPT !.pc = "up"]
<1>3. r \in Fields  BY <1>2 DEF Fields, Label
<1>4. proc' = [proc EXCEPT ![c] = r]  BY <1>2 DEF Notify, Fields, Goto
<1>5. /\ r.parent = p /\ r.children = <<>> /\ r.ret = NULL
      /\ r.pc = "up" /\ r.has_status = proc[c].has_status /\ r.has_status \in BOOLEAN
  BY <1>1, <1>2 DEF Fields
<1> HIDE DEF r
<1>6. /\ \A q \in Proc \ {p} : exec'[q] = exec[q]
      /\ exec' \in [Proc -> [load_done : 0 .. 1, success : BOOLEAN]]
      /\ exec'[p].load_done = 0 /\ exec'[p].success = r.has_status
  BY <1>1, <1>2, <1>5 DEF Notify, TypeOK
<1>7. /\ proc'[c] = r /\ \A q \in Proc \ {c} : proc'[q] = proc[q]
      /\ TypeOK'
  BY <1>2, <1>3, <1>4, <1>6, ZenonT(60) DEF TypeOK
<1>8. \A q, d \in Proc : Holds(q, d)' <=> Holds(q, d)
  BY <1>1, <1>2, <1>5, <1>7, SMTT(60) DEF Holds, Elems
<1>9. \A q \in Proc : q \in Freers(c)' <=> q \in Freers(c)
  BY <1>2, <1>5, <1>7 DEF Freers
<1>10. Counted(c)'  BY <1>2, <1>8, <1>9, SameReferences, Zenon DEF ProcessInv
<1>11. ws'[c] # NULL => ws'[c].dead = 0
  <2>1. ~Exited(c)  BY <1>1, <1>2, ProcessAssumption, ZenonT(60) DEF Exited
  <2> QED BY <1>2, <2>1, NotYetDead
<1> QED BY <1>1, <1>2, <1>5, <1>6, <1>7, <1>8, <1>10, <1>11, LoadingStep, ZenonT(60)

\* The child lets its parent go on and starts its program, or exits.
LEMMA LoadDoneKeeps ==
  ASSUME ProcessInv, NEW c \in Proc, LoadDone(c)
  PROVE  ProcessInv'
<1> USE DEF Loading, Releasing
<1>1. PICK p \in Proc :
        /\ p = proc[c].parent /\ p # c /\ proc[p].pc = "exec_wait" /\ proc[p].target = c
        /\ proc[c].children = <<>> /\ proc[c].ret = NULL /\ exec[p].load_done = 0
  BY WhileLoading DEF LoadDone, At
<1>2. /\ proc[c].pc = "up" /\ UNCHANGED <<ws, fs_lock>>
      /\ TypeOK /\ proc \in [Proc -> Fields] /\ proc[c] \in Fields
      /\ exec[p].success = proc[c].has_status
  BY <1>1, Zenon DEF LoadDone, At, ProcessInv, TypeOK, LoadProtocol
<1> DEFINE r == [proc[c] EXCEPT !.pc = IF proc[c].has_status THEN "user" ELSE "exit"]
<1>3. r \in Fields  BY <1>2, Zenon DEF Fields, Label
<1>4. proc' = [proc EXCEPT ![c] = r]  BY <1>2 DEF LoadDone, Fields, Goto
<1>5. /\ r.parent = p /\ r.children = <<>> /\ r.ret = NULL
      /\ r.pc = (IF proc[c].has_status THEN "user" ELSE "exit")
      /\ r.has_status = proc[c].has_status
  BY <1>1, <1>2 DEF Fields
<1> HIDE DEF r
<1>6. /\ \A q \in Proc \ {p} : exec'[q] = exec[q]
      /\ exec' \in [Proc -> [load_done : 0 .. 1, success : BOOLEAN]]
      /\ exec'[p].load_done = 1 /\ exec'[p].success = exec[p].success
  BY <1>1, <1>2 DEF LoadDone, TypeOK
<1>7. /\ proc'[c] = r /\ \A q \in Proc \ {c} : proc'[q] = proc[q]
      /\ TypeOK'
  BY <1>2, <1>3, <1>4, <1>6, Zenon DEF TypeOK
<1>8. \A q, d \in Proc : Holds(q, d)' <=> Holds(q, d)
  BY <1>1, <1>2, <1>5, <1>7, SMTT(60) DEF Holds, Elems
<1>9. \A q \in Proc : q \in Freers(c)' <=> q \in Freers(c)
  BY <1>2, <1>5, <1>7, Zenon DEF Freers
<1>10. Counted(c)'  BY <1>2, <1>8, <1>9, SameReferences, Zenon DEF ProcessInv
<1>11. ws'[c] # NULL => ws'[c].dead = 0
  <2>1. ~Exited(c)  BY <1>1, <1>2, ProcessAssumption DEF Exited
  <2> QED BY <1>2, <2>1, NotYetDead
<1>12. exec'[p].load_done = 0 <=> proc'[c].pc \in Loading  BY <1>5, <1>6, <1>7, SMTT(60)
<1> QED BY <1>1, <1>2, <1>5, <1>6, <1>7, <1>8, <1>10, <1>11, <1>12, LoadingStep, SMTT(60)
(***************************************************************************)
(* Steps of one thread that has been loaded                                *)
(***************************************************************************)

\* The step changes the fields of p, from its present ones to r, but neither its
\* parent, nor whether it has a wait_status, nor its exit code.  If it returns from
\* process_execute then the child is loaded; if it was past its exit it still is.
Moves(p, r) ==
  /\ proc' = [proc EXCEPT ![p] = r] /\ r \in Fields
  /\ r.parent = proc[p].parent /\ r.has_status = proc[p].has_status
  /\ r.exit_code = proc[p].exit_code
  /\ proc[p].pc \notin Loading \cup {"none"}
  /\ r.pc \notin Loading \cup {"none", "exec_wait"}
  /\ proc[p].pc = "exec_wait" => exec[p].load_done # 0
  /\ \A q \in Proc \ {p} : exec'[q] = exec[q]
  /\ Exited(p) => r.pc \in {"exit_children", "dead"} \/ r.ret = "exit_children"

\* What the new fields of p must satisfy for the invariant.
WellFormed(p, r) ==
  /\ r.pc \in {"exit_store", "exit_up"} => proc[p].has_status
  /\ r.ret # NULL <=> r.pc \in Releasing
  /\ NoDuplicates(r.children)
  /\ \A c \in Elems(r.children) : Loaded(p, c)
  /\ r.pc \in Releasing \cup {"wait"} =>
       /\ r.target \notin Elems(r.children)
       /\ \/ Loaded(p, r.target)
          \/ r.target = p /\ proc[p].has_status /\ r.ret = "exit_children"
  /\ r.ret = "user" => r.code = proc[r.target].exit_code /\ Exited(r.target)

\* Such a step changes no other thread, and what is loaded stays loaded.
LEMMA OthersStay ==
  ASSUME ProcessInv, NEW p \in Proc, NEW r, Moves(p, r)
  PROVE  /\ proc'[p] = r /\ \A q \in Proc \ {p} : proc'[q] = proc[q]
         /\ \A q \in Proc : \A d : Loaded(q, d) => Loaded(q, d)'
         /\ \A q \in Proc \ {p}, c \in Proc : Holds(q, c)' <=> Holds(q, c)
<1>1. proc'[p] = r /\ \A q \in Proc \ {p} : proc'[q] = proc[q]
  BY DEF Moves, ProcessInv, TypeOK
<1>2. r.parent = proc[p].parent /\ r.has_status = proc[p].has_status
        /\ r.pc \notin Loading \cup {"none"}
  BY DEF Moves
<1>3. ASSUME NEW q \in Proc, NEW d, Loaded(q, d) PROVE Loaded(q, d)'
  <2>1. CASE d = p  BY <1>1, <1>2, <1>3, <2>1, Zenon DEF Loaded
  <2>2. CASE d # p  BY <1>1, <1>3, <2>2, Zenon DEF Loaded
  <2> QED BY <2>1, <2>2, Zenon
<1>4. ASSUME NEW q \in Proc \ {p}, NEW c \in Proc PROVE Holds(q, c)' <=> Holds(q, c)
  <2>1. proc'[q] = proc[q] /\ proc'[c].has_status = proc[c].has_status
    BY <1>1, <1>2
  <2> QED BY <2>1 DEF Holds, Elems
<1> QED BY <1>1, <1>3, <1>4, Zenon

\* Such a step keeps the invariant when it leaves p well formed and every
\* wait_status counted.
LEMMA OneMoves ==
  ASSUME ProcessInv, TypeOK', NEW p \in Proc, NEW r, Moves(p, r), WellFormed(p, r),
         \A c \in Proc : Counted(c)' /\ DeadMeansStored(c)'
  PROVE  ProcessInv'
<1> USE DEF Loading, Releasing
<1>1. /\ proc'[p] = r /\ \A q \in Proc \ {p} : proc'[q] = proc[q]
      /\ \A q \in Proc : \A d : Loaded(q, d) => Loaded(q, d)'
  BY OthersStay
<1>2. ASSUME NEW q \in Proc PROVE Local(q)'
  <2>1. CASE q = p
    <3>1. Local(p)  BY Zenon DEF ProcessInv
    <3> QED BY <1>1, <2>1, <3>1, ZenonT(60) DEF Local, Moves, WellFormed
  <2>2. CASE q # p
    <3>1. Local(q)  BY Zenon DEF ProcessInv
    <3> QED BY <1>1, <2>2, <3>1 DEF Local
  <2> QED BY <2>1, <2>2, ZenonT(60)
<1>3. ASSUME NEW q \in Proc PROVE ChildrenOf(q)'
  <2>1. CASE q = p  BY <1>1, <2>1, SMTT(60) DEF ChildrenOf, WellFormed, NoDuplicates, Elems
  <2>2. CASE q # p
    <3>1. ChildrenOf(q)  BY ZenonT(60) DEF ProcessInv
    <3> QED BY <1>1, <2>2, <3>1 DEF ChildrenOf, NoDuplicates, Elems
  <2> QED BY <2>1, <2>2
<1>4. ASSUME NEW q \in Proc PROVE TargetOf(q)'
  <2>1. CASE q = p
    BY <1>1, <2>1, SMTT(60) DEF TargetOf, Moves, WellFormed, Elems
  <2>2. CASE q # p
    <3>1. TargetOf(q) /\ proc'[q] = proc[q]  BY <1>1, <2>2 DEF ProcessInv
    <3>2. \A d \in Proc : proc'[d].parent = proc[d].parent  BY <1>1 DEF Moves
    <3> QED BY <1>1, <3>1, <3>2 DEF TargetOf, Elems
  <2> QED BY <2>1, <2>2
<1>5. ASSUME NEW q \in Proc PROVE LoadProtocol(q)'
  <2>1. CASE q = p  BY <1>1, <2>1, Zenon DEF LoadProtocol, Moves
  <2>2. CASE q # p
    <3>1. /\ LoadProtocol(q) /\ proc'[q] = proc[q] /\ exec'[q] = exec[q]
          /\ proc[q].pc = "exec_wait" => proc[q].target \in Proc
      BY <1>1, <2>2, Zenon DEF ProcessInv, Moves, TargetOf
    <3>2. ASSUME NEW d \in Proc
          PROVE  /\ proc'[d].has_status = proc[d].has_status
                 /\ proc'[d].pc \in Loading <=> proc[d].pc \in Loading
                 /\ proc'[d].pc \in {"load", "notify"} <=> proc[d].pc \in {"load", "notify"}
      BY <1>1, ZenonT(60) DEF Moves
    <3> QED BY <3>1, <3>2, Zenon DEF LoadProtocol
  <2> QED BY <2>1, <2>2
<1>6. ExecInfoAlive'
  <2> SUFFICES ASSUME NEW d \in Proc, proc'[d].pc \in Loading
               PROVE  /\ proc'[proc'[d].parent].pc = "exec_wait"
                      /\ proc'[proc'[d].parent].target = d
    BY Zenon DEF ExecInfoAlive
  <2>1. d # p /\ proc'[d] = proc[d]  BY <1>1, Zenon DEF Moves
  <2>2. /\ proc[d].parent \in Proc /\ proc[proc[d].parent].pc = "exec_wait"
        /\ proc[proc[d].parent].target = d /\ exec[proc[d].parent].load_done = 0
    BY <2>1, WhileLoading
  <2>3. proc[d].parent # p  BY <2>2, Zenon DEF Moves
  <2> QED BY <1>1, <2>1, <2>2, <2>3, Zenon
<1>7. WaitGetsExitCode'
  <2> SUFFICES ASSUME NEW q \in Proc, proc'[q].ret = "user", NEW d, d = proc'[q].target
               PROVE  /\ proc'[q].code = proc'[d].exit_code
                      /\ proc'[d].pc \in {"exit_children", "dead"} \/ proc'[d].ret = "exit_children"
    BY Zenon DEF WaitGetsExitCode
  <2>1. d \in Proc /\ proc'[q].code = proc[d].exit_code /\ Exited(d)
    <3>1. CASE q = p
      <4>1. r.ret # NULL /\ r.ret # "exit_children"  BY <1>1, <3>1, ProcessAssumption, Zenon
      <4>2. Loaded(p, d)  BY <1>1, <3>1, <4>1, Zenon DEF WellFormed
      <4> QED BY <1>1, <3>1, <4>2, Zenon DEF WellFormed, Loaded
    <3>2. CASE q # p  BY <1>1, <3>2, AfterWait DEF Loaded
    <3> QED BY <3>1, <3>2, Zenon
  <2>2. CASE d = p  BY <1>1, <2>1, <2>2, ZenonT(60) DEF Moves
  <2>3. CASE d # p  BY <1>1, <2>1, <2>3, Zenon DEF Exited
  <2> QED BY <2>2, <2>3
<1> QED BY <1>2, <1>3, <1>4, <1>5, <1>6, <1>7, ZenonT(60) DEF ProcessInv

\* The count of c's wait_status stays right when p keeps, or keeps not having, its
\* reference, and is about to free it neither before nor after.
LEMMA StaysCounted ==
  ASSUME ProcessInv, NEW p \in Proc, NEW r, Moves(p, r), NEW c \in Proc,
         Holds(p, c)' <=> Holds(p, c),
         p \notin Freers(c),
         ~(r.pc = "rel_free" /\ r.target = c /\ r.new_ref_cnt = 0),
         ws'[c] = NULL <=> ws[c] = NULL,
         ws[c] # NULL => ws'[c].ref_cnt = ws[c].ref_cnt
  PROVE  Counted(c)'
<1>1. \A q \in Proc : Holds(q, c)' <=> Holds(q, c)  BY OthersStay, Zenon
<1>2. \A q \in Proc : q \in Freers(c)' <=> q \in Freers(c)
  BY OthersStay, ZenonT(60) DEF Freers
<1> QED BY <1>1, <1>2, SameReferences, Zenon DEF ProcessInv

\* The exit code in c's wait_status stays final in a step that stores none, does not
\* raise dead and does not bring the thread to the point where it does.
LEMMA StaysStored ==
  ASSUME ProcessInv, NEW p \in Proc, NEW r, Moves(p, r), NEW c \in Proc,
         r.pc = "exit_up" => c # p,
         ws'[c] # NULL => /\ ws[c] # NULL /\ (ws'[c].dead > 0 => ws[c].dead > 0)
                          /\ ws'[c].exit_code = ws[c].exit_code
  PROVE  DeadMeansStored(c)'
<1>1. proc'[p] = r /\ \A q \in Proc \ {p} : proc'[q] = proc[q]  BY OthersStay
<1>2. proc'[c].exit_code = proc[c].exit_code  BY <1>1 DEF Moves
<1>3. Exited(c) => Exited(c)'  BY <1>1, Zenon DEF Moves, Exited
<1>4. proc'[c].pc = "exit_up" => proc[c].pc = "exit_up"  BY <1>1, Zenon
<1> QED BY <1>2, <1>3, <1>4, Zenon DEF ProcessInv, DeadMeansStored

\* The wait_status a thread waits for or releases is alive, and the thread is one of
\* those counted in it.
LEMMA Target ==
  ASSUME ProcessInv, NEW p \in Proc, proc[p].pc \in {"wait", "rel_lock", "rel_dec"},
         NEW c, c = proc[p].target
  PROVE  /\ c \in Proc /\ c \notin Elems(proc[p].children)
         /\ ws[c] # NULL /\ ws[c] \in WaitStatus /\ p \in Holders(c)
         /\ Loaded(p, c) \/ (c = p /\ proc[p].has_status /\ proc[p].ret = "exit_children")
<1> USE DEF Loading, Releasing
<1>0. TargetOf(p)  BY Zenon DEF ProcessInv
<1>1. c \in Proc /\ c \notin Elems(proc[p].children)
  BY <1>0, Zenon DEF TargetOf, Loaded
<1>2. p \in Holders(c)  BY Zenon DEF Holders, Holds
<1>3. ws[c] # NULL  BY <1>1, <1>2 DEF ProcessInv, Counted
<1>4. Loaded(p, c) \/ (c = p /\ proc[p].has_status /\ proc[p].ret = "exit_children")
  BY <1>0, Zenon DEF TargetOf
<1> QED BY <1>1, <1>2, <1>3, <1>4, Zenon DEF ProcessInv, TypeOK

\* No thread is its own child.
LEMMA NotOwnChild ==
  ASSUME ProcessInv, NEW p \in Proc
  PROVE  p \notin Elems(proc[p].children) /\ ~Loaded(p, p)
BY DEF ProcessInv, ChildrenOf, Loaded, Local

-----------------------------------------------------------------------------
=============================================================================
