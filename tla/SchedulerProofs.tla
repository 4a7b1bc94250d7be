------------------------- MODULE SchedulerProofs -------------------------
(***************************************************************************)
(* The invariant of Threads holds initially, and the operations of thread.c*)
(* keep it.                                                                *)
(***************************************************************************)
EXTENDS Threads, TLAPS

-----------------------------------------------------------------------------
(***************************************************************************)
(* Lists                                                                   *)
(***************************************************************************)

\* Lists with the same elements in the same places are the same list.
LEMMA SameList ==
  ASSUME NEW S, NEW p \in Seq(S), NEW q \in Seq(S), Len(p) = Len(q),
         \A i \in 1 .. Len(p) : p[i] = q[i]
  PROVE  p = q
OBVIOUS

\* list_push_back adds one element at the end, and keeps a list free of
\* duplicates when the element was not on it.
LEMMA PushBack ==
  ASSUME NEW S, NEW q \in Seq(S), NEW e \in S
  PROVE  /\ Append(q, e) \in Seq(S)
         /\ Append(q, e) # <<>>
         /\ Elems(Append(q, e)) = Elems(q) \cup {e}
         /\ NoDuplicates(q) /\ e \notin Elems(q) => NoDuplicates(Append(q, e))
<1> DEFINE r == Append(q, e)
<1>1. /\ r \in Seq(S) /\ r # <<>> /\ Len(r) = Len(q) + 1
      /\ \A i \in 1 .. Len(q) : r[i] = q[i]
      /\ r[Len(q) + 1] = e
      /\ Len(q) \in Nat
  OBVIOUS
<1> HIDE DEF r
<1>2. Elems(r) = Elems(q) \cup {e}
  <2>1. ASSUME NEW x \in Elems(r) PROVE x \in Elems(q) \cup {e}
    <3>1. PICK i \in 1 .. Len(r) : x = r[i]
      BY <2>1 DEF Elems
    <3>2. i \in 1 .. Len(q) \/ i = Len(q) + 1
      BY <1>1
    <3> QED BY <1>1, <3>1, <3>2 DEF Elems
  <2>2. ASSUME NEW x \in Elems(q) PROVE x \in Elems(r)
    <3>1. PICK i \in 1 .. Len(q) : x = q[i]
      BY <2>2 DEF Elems
    <3>2. i \in 1 .. Len(r) /\ r[i] = x
      BY <1>1, <3>1
    <3> QED BY <3>2 DEF Elems
  <2>3. e \in Elems(r)
    <3>1. Len(q) + 1 \in 1 .. Len(r) BY <1>1
    <3> QED BY <1>1, <3>1 DEF Elems
  <2> QED BY <2>1, <2>2, <2>3
<1>3. ASSUME NoDuplicates(q), e \notin Elems(q) PROVE NoDuplicates(r)
  <2> SUFFICES ASSUME NEW i \in 1 .. Len(r), NEW j \in 1 .. Len(r), r[i] = r[j]
               PROVE  i = j
    BY DEF NoDuplicates
  <2>1. \A k \in 1 .. Len(q) : q[k] # e
    BY <1>3 DEF Elems
  <2>2. /\ i \in 1 .. Len(q) \/ i = Len(q) + 1
        /\ j \in 1 .. Len(q) \/ j = Len(q) + 1
    BY <1>1
  <2> QED BY <1>1, <1>3, <2>1, <2>2 DEF NoDuplicates
<1> QED BY <1>1, <1>2, <1>3 DEF r

\* list_pop_front takes the front element off a list; without duplicates that
\* element is then on the list no more.
LEMMA PopFront ==
  ASSUME NEW S, NEW q \in Seq(S), q # <<>>
  PROVE  /\ Head(q) \in S /\ Head(q) \in Elems(q)
         /\ Tail(q) \in Seq(S)
         /\ Elems(q) = Elems(Tail(q)) \cup {Head(q)}
         /\ NoDuplicates(q) =>
              NoDuplicates(Tail(q)) /\ Head(q) \notin Elems(Tail(q))
<1> DEFINE r == Tail(q)
<1>1. /\ r \in Seq(S) /\ Len(q) \in Nat \ {0} /\ Len(r) = Len(q) - 1
      /\ \A i \in 1 .. Len(r) : r[i] = q[i + 1]
      /\ Head(q) = q[1] /\ q[1] \in S
  OBVIOUS
<1> HIDE DEF r
<1>2. Head(q) \in Elems(q)
  <2>1. 1 \in 1 .. Len(q) BY <1>1
  <2> QED BY <1>1, <2>1 DEF Elems
<1>3. Elems(q) = Elems(r) \cup {Head(q)}
  <2>1. ASSUME NEW x \in Elems(q) PROVE x \in Elems(r) \cup {Head(q)}
    <3>1. PICK i \in 1 .. Len(q) : x = q[i]
      BY <2>1 DEF Elems
    <3>2. CASE i = 1
      BY <1>1, <3>1, <3>2
    <3>3. CASE i # 1
      <4>1. i - 1 \in 1 .. Len(r) /\ r[i - 1] = x
        BY <1>1, <3>1, <3>3
      <4> QED BY <4>1 DEF Elems
    <3> QED BY <3>2, <3>3
  <2>2. ASSUME NEW x \in Elems(r) PROVE x \in Elems(q)
    <3>1. PICK i \in 1 .. Len(r) : x = r[i]
      BY <2>2 DEF Elems
    <3>2. i + 1 \in 1 .. Len(q) /\ q[i + 1] = x
      BY <1>1, <3>1
    <3> QED BY <3>2 DEF Elems
  <2> QED BY <1>2, <2>1, <2>2
<1>4. ASSUME NoDuplicates(q)
      PROVE  NoDuplicates(r) /\ Head(q) \notin Elems(r)
  <2>1. ASSUME NEW i \in 1 .. Len(r), NEW j \in 1 .. Len(r), r[i] = r[j]
        PROVE  i = j
    <3>1. i + 1 \in 1 .. Len(q) /\ j + 1 \in 1 .. Len(q) /\ q[i + 1] = q[j + 1]
      BY <1>1, <2>1
    <3>2. i + 1 = j + 1
      BY <1>4, <3>1 DEF NoDuplicates
    <3> QED BY <3>2
  <2>2. ASSUME NEW i \in 1 .. Len(r), r[i] = Head(q) PROVE FALSE
    <3>1. i + 1 \in 1 .. Len(q) /\ 1 \in 1 .. Len(q) /\ q[i + 1] = q[1]
      BY <1>1, <2>2
    <3>2. i + 1 = 1
      BY <1>4, <3>1 DEF NoDuplicates
    <3> QED BY <3>2
  <2> QED BY <2>1, <2>2 DEF NoDuplicates, Elems
<1> QED BY <1>1, <1>2, <1>3, <1>4 DEF r

\* Taking the last element off a list undoes list_push_back.
LEMMA FrontOfAppend ==
  ASSUME NEW S, NEW q \in Seq(S), NEW e \in S
  PROVE  SubSeq(Append(q, e), 1, Len(q)) = q
<1> DEFINE r == Append(q, e)
           f == SubSeq(r, 1, Len(q))
<1>1. /\ Len(q) \in Nat /\ r \in Seq(S) /\ Len(r) = Len(q) + 1
      /\ \A i \in 1 .. Len(q) : r[i] = q[i] /\ q[i] \in S
  OBVIOUS
<1> HIDE DEF r
<1>2. /\ f \in Seq(S) /\ Len(f) = IF 1 <= Len(q) THEN Len(q) - 1 + 1 ELSE 0
      /\ \A i \in 1 .. Len(q) - 1 + 1 : f[i] = r[1 + i - 1]
  BY <1>1
<1> HIDE DEF f
<1>3. /\ Len(f) = Len(q)
      /\ \A i \in 1 .. Len(q) : f[i] = q[i]
  BY <1>1, <1>2
<1>4. f = q  BY <1>2, <1>3, SameList
<1> QED BY <1>4 DEF f, r

\* And the other way round.
LEMMA AppendLast ==
  ASSUME NEW S, NEW q \in Seq(S), Len(q) > 0
  PROVE  Append(SubSeq(q, 1, Len(q) - 1), q[Len(q)]) = q
<1> DEFINE n == Len(q)
           f == SubSeq(q, 1, n - 1)
           r == Append(f, q[n])
<1>1. n \in Nat /\ n > 0 /\ \A i \in 1 .. n : q[i] \in S  OBVIOUS
<1> HIDE DEF n
<1>2. /\ f \in Seq(S) /\ Len(f) = IF 1 <= n - 1 THEN n - 1 - 1 + 1 ELSE 0
      /\ \A i \in 1 .. n - 1 - 1 + 1 : f[i] = q[1 + i - 1]
  BY <1>1
<1> HIDE DEF f
<1>3. /\ Len(f) = n - 1 /\ Len(f) + 1 = n
      /\ \A i \in 1 .. n - 1 : f[i] = q[i]
  BY <1>1, <1>2
<1>4. q[n] \in S  BY <1>1
<1>5. /\ r \in Seq(S) /\ Len(r) = Len(f) + 1
      /\ \A i \in 1 .. Len(f) : r[i] = f[i]
      /\ r[Len(f) + 1] = q[n]
  BY <1>2, <1>4
<1> HIDE DEF r
<1>6. ASSUME NEW i \in 1 .. n PROVE r[i] = q[i]
  <2>1. i \in 1 .. n - 1 \/ i = n  BY <1>1
  <2> QED BY <1>1, <1>3, <1>5, <2>1
<1>7. Len(r) = Len(q) /\ \A i \in 1 .. Len(r) : r[i] = q[i]  BY <1>3, <1>5, <1>6 DEF n
<1>8. r = q  BY <1>5, <1>7, SameList
<1> QED BY <1>8 DEF n, f, r

\* Lists of at most two elements, the run queues of a booting kernel.
LEMMA ShortLists ==
  ASSUME NEW S, NEW x \in S, NEW y \in S
  PROVE  /\ Append(<<>>, x) = <<x>>
         /\ Head(<<x>>) = x /\ Tail(<<x>>) = <<>>
         /\ Head(Append(<<x>>, y)) = x /\ Tail(Append(<<x>>, y)) = <<y>>
<1>1. Append(<<>>, x) = <<x>>  OBVIOUS
<1>2. Head(<<x>>) = x  OBVIOUS
<1>3. Tail(<<x>>) = <<>>  OBVIOUS
<1>4. Head(Append(<<x>>, y)) = x  OBVIOUS
<1>5. Tail(Append(<<x>>, y)) = <<y>>
  <2>1. /\ <<x>> \in Seq(S) /\ Len(<<x>>) = 1 /\ <<y>> \in Seq(S)
        /\ Len(<<y>>) = 1 /\ <<y>>[1] = y
    OBVIOUS
  <2>2. /\ Append(<<x>>, y) \in Seq(S) /\ Len(Append(<<x>>, y)) = 2
        /\ Append(<<x>>, y)[2] = y
    BY <2>1
  <2>3. /\ Tail(Append(<<x>>, y)) \in Seq(S) /\ Len(Tail(Append(<<x>>, y))) = 1
        /\ Tail(Append(<<x>>, y))[1] = y
    BY <2>2
  <2> DEFINE r == Tail(Append(<<x>>, y))
             q == <<y>>
  <2> HIDE DEF r, q
  <2>4. r \in Seq(S) /\ q \in Seq(S) /\ Len(r) = Len(q)
    BY <2>1, <2>3 DEF r, q
  <2>5. \A i \in 1 .. Len(r) : r[i] = q[i]
    BY <2>1, <2>3 DEF r, q
  <2>6. r = q
    BY <2>4, <2>5, SameList, Zenon
  <2> QED BY <2>6 DEF r, q
<1> QED BY <1>1, <1>2, <1>3, <1>4, <1>5

\* The lists thread_init, sema_init and cond_init start from.
LEMMA EmptyList == Elems(<<>>) = {} /\ NoDuplicates(<<>>)
BY DEF Elems, NoDuplicates

-----------------------------------------------------------------------------
(***************************************************************************)
(* The inductive invariant holds initially                                 *)
(***************************************************************************)

\* What thread_init, sema_init, lock_init and cond_init set up satisfies the
\* inductive invariant.
LEMMA InitInvariant == Init => IInv
<1> SUFFICES ASSUME Init PROVE IInv
  OBVIOUS
<1> USE ThreadsAssumption DEF Init, thread_init
<1>1. TypeOK
  BY DEF TypeOK, SemaId, sema_init, Status, Label
<1>2. FrameInv
  BY DEF FrameInv, FrameOf, IdleFrame, IdleLabel
<1>3. BootInv
  BY DEF BootInv, SemaId, sema_init
<1>4. ElemExclusive /\ NoThreadForgotten
  BY EmptyList DEF ElemExclusive, NoThreadForgotten
<1>5. HolderInv /\ MutualExclusion
  BY DEF HolderInv, MutualExclusion, Owns, SemaId, sema_init
<1> QED BY <1>1, <1>2, <1>3, <1>4, <1>5 DEF IInv

-----------------------------------------------------------------------------
(***************************************************************************)
(* Carrying the invariant over a step that leaves its variables alone      *)
(***************************************************************************)

\* A thread whose frame a step does not touch keeps the invariant of its frame,
\* unless the step frees or kills it.
LEMMA SameFrame ==
  ASSUME NEW t, FrameOf(t), pc[t] # "boot",
         pc'[t] = pc[t], sem'[t] = sem[t], arg'[t] = arg[t],
         status'[t] = "FREE" => status[t] = "FREE" \/ pc[t] = "run",
         status'[t] = "DYING" => status[t] = "DYING" \/ t = Main
  PROVE  FrameOf(t)'
BY DEF FrameOf

\* A step that changes no lock's value or holder, and takes no thread in or out
\* of the labels at which it owns a lock, keeps the invariants of the locks.
LEMMA SameOwners ==
  ASSUME HolderInv, MutualExclusion, holder' = holder,
         \A l \in Lock : value'[l] = value[l],
         \A t \in Thread :
           \/ pc'[t] = pc[t] /\ sem'[t] = sem[t] /\ arg'[t] = arg[t]
           \/ /\ pc[t] \notin {"own", "rel", "cw_rel"}
              /\ pc'[t] \notin {"own", "rel", "cw_rel", "cw_release"}
  PROVE  HolderInv' /\ MutualExclusion'
<1>1. ASSUME NEW t \in Thread, NEW l \in Lock
      PROVE  Owns(t, l)' <=> Owns(t, l)
  BY DEF Owns
<1>2. ASSUME NEW l \in Lock
      PROVE  /\ value'[l] \in {0, 1}
             /\ value'[l] = 1 => \A t \in Thread : ~Owns(t, l)'
             /\ value'[l] = 0 => \E t \in Thread : Owns(t, l)'
             /\ \A t, u \in Thread : Owns(t, l)' /\ Owns(u, l)' => t = u
  BY <1>1 DEF MutualExclusion
<1>3. MutualExclusion'
  BY <1>2 DEF MutualExclusion
<1>4. ASSUME NEW l \in Lock, NEW t \in Thread,
             \/ pc'[t] = "own" /\ sem'[t] = l
             \/ pc'[t] \in {"rel", "cw_rel"} /\ arg'[t] = l
      PROVE  holder'[l] = NULL
  BY <1>4 DEF HolderInv
<1>5. ASSUME NEW t \in Thread, pc'[t] = "cw_release"
      PROVE  holder'[arg'[t]] = t
  BY <1>5 DEF HolderInv
<1>6. HolderInv'
  BY <1>4, <1>5 DEF HolderInv
<1> QED BY <1>3, <1>6

\* A step that changes nothing keeps the invariant.
LEMMA Stutter ==
  ASSUME IInv, UNCHANGED vars
  PROVE  IInv'
<1>1. TypeOK /\ FrameInv /\ BootInv /\ ElemExclusive /\ NoThreadForgotten
      /\ HolderInv /\ MutualExclusion
  BY DEF IInv
<1>2. /\ UNCHANGED <<status, ready_list, current, idle_thread, intr, thread_ticks>>
      /\ UNCHANGED <<value, waiters, holder, cond_waiters, pc, sem, arg>>
  BY DEF vars, sched, synch, frames
<1>3. TypeOK'
  BY <1>1, <1>2 DEF TypeOK
<1>4. FrameInv'
  BY <1>1, <1>2 DEF FrameInv, FrameOf, IdleFrame
<1>5. BootInv'
  BY <1>1, <1>2 DEF BootInv
<1>6. ElemExclusive'
  BY <1>1, <1>2 DEF ElemExclusive
<1>7. NoThreadForgotten'
  BY <1>1, <1>2 DEF NoThreadForgotten
<1>8. HolderInv' /\ MutualExclusion'
  BY <1>1, <1>2, SameOwners
<1> QED BY <1>3, <1>4, <1>5, <1>6, <1>7, <1>8 DEF IInv

\* Steps of the running thread that touch no list: every conjunct about the
\* scheduler and the lists carries over.
LEMMA QuietStep ==
  ASSUME IInv,
         UNCHANGED <<status, ready_list, current, idle_thread, waiters>>,
         \A t \in Thread : status[t] = "BLOCKED" =>
           (pc'[t] = "down" <=> pc[t] = "down") /\ sem'[t] = sem[t]
  PROVE  ElemExclusive' /\ NoThreadForgotten'
<1>1. TypeOK /\ ElemExclusive /\ NoThreadForgotten
  BY DEF IInv
<1>2. ElemExclusive'
  <2>1. ASSUME NEW s \in SemaId, NEW t \in Elems(waiters[s])
        PROVE  status[t] = "BLOCKED" /\ pc'[t] = "down" /\ sem'[t] = s
    <3>1. t \in Thread /\ status[t] = "BLOCKED" /\ pc[t] = "down" /\ sem[t] = s
      BY <1>1, <2>1 DEF ElemExclusive, TypeOK, Elems
    <3> QED BY <3>1
  <2> QED BY <1>1, <2>1 DEF ElemExclusive
<1>3. NoThreadForgotten'
  BY <1>1 DEF NoThreadForgotten
<1> QED BY <1>2, <1>3

-----------------------------------------------------------------------------
(***************************************************************************)
(* schedule                                                                *)
(***************************************************************************)

\* schedule gives the processor to the front of the run queue, or to the idle
\* thread if the queue is empty, and takes no other thread off the queue.
LEMMA Schedule ==
  ASSUME IInv,
         NEW st \in [Thread -> Status], NEW rl \in Seq(Thread),
         rl # <<>> \/ idle_thread = Idle,
         NoDuplicates(rl),
         schedule(st, rl)
  PROVE  /\ current' \in Thread
         /\ rl # <<>> => current' = Head(rl) /\ current' \in Elems(rl)
         /\ rl = <<>> => current' = Idle
         /\ ready_list' \in Seq(Thread)
         /\ NoDuplicates(ready_list')
         /\ Elems(ready_list') = Elems(rl) \ {current'}
         /\ status' \in [Thread -> Status]
         /\ status'[current'] = "RUNNING"
         /\ \A t \in Thread : t # current' =>
              status'[t] = IF st[t] = "DYING" /\ t # Main THEN "FREE" ELSE st[t]
         /\ thread_ticks' \in 0 .. TIME_SLICE - 1
         /\ intr' \in {"ON", "OFF"}
         /\ intr' = "OFF" <=> pc[current'] = "down"
<1>1. /\ current' = next_thread_to_run(rl)
      /\ status' = thread_schedule_tail(st, next_thread_to_run(rl))
      /\ ready_list' = IF rl = <<>> THEN rl ELSE Tail(rl)
      /\ thread_ticks' = 0
      /\ intr' = IF current' # NULL /\ pc[current'] = "down" THEN "OFF" ELSE "ON"
  BY DEF schedule
<1>2. /\ current' \in Thread
      /\ rl # <<>> => current' = Head(rl) /\ current' \in Elems(rl)
      /\ rl = <<>> => current' = Idle
  BY <1>1, PopFront, ThreadsAssumption DEF next_thread_to_run
<1>3. /\ ready_list' \in Seq(Thread)
      /\ NoDuplicates(ready_list')
      /\ Elems(ready_list') = Elems(rl) \ {current'}
  BY <1>1, <1>2, PopFront, EmptyList
<1>4. /\ status' \in [Thread -> Status]
      /\ status'[current'] = "RUNNING"
      /\ \A t \in Thread : t # current' =>
           status'[t] = IF st[t] = "DYING" /\ t # Main THEN "FREE" ELSE st[t]
  BY <1>1, <1>2 DEF thread_schedule_tail, Status
<1>5. /\ thread_ticks' \in 0 .. TIME_SLICE - 1
      /\ intr' \in {"ON", "OFF"}
      /\ intr' = "OFF" <=> pc[current'] = "down"
  BY <1>1, <1>2, ThreadsAssumption
<1> QED BY <1>2, <1>3, <1>4, <1>5

\* Giving up the processor, at the end of a time slice or in thread_yield.
LEMMA YieldStep ==
  ASSUME IInv, intr = "ON", thread_yield, EndHlt,
         UNCHANGED <<idle_thread, synch, sem, arg>>
  PROVE  IInv'
<1> DEFINE st == [status EXCEPT ![current] = "READY"]
           rl == IF current # idle_thread THEN Append(ready_list, current)
                                          ELSE ready_list
<1>1. TypeOK /\ FrameInv /\ BootInv /\ ElemExclusive /\ NoThreadForgotten
      /\ HolderInv /\ MutualExclusion
  BY DEF IInv
<1>2. /\ st \in [Thread -> Status] /\ rl \in Seq(Thread) /\ NoDuplicates(rl)
      /\ Elems(rl) = Elems(ready_list) \cup (IF current # idle_thread THEN {current} ELSE {})
      /\ \A t \in Elems(rl) : st[t] = "READY"
  <2>1. current \notin Elems(ready_list)
    BY <1>1 DEF TypeOK, ElemExclusive, NoThreadForgotten
  <2> QED
    BY <1>1, <2>1, PushBack DEF TypeOK, ElemExclusive, Status
<1>3. rl # <<>> \/ idle_thread = Idle
  BY <1>1, PushBack, ThreadsAssumption, ZenonT(60) DEF TypeOK
<1>4. schedule(st, rl)
  BY DEF thread_yield
<1> HIDE DEF st, rl
<1>5. /\ current' \in Thread
      /\ rl # <<>> => current' = Head(rl) /\ current' \in Elems(rl)
      /\ rl = <<>> => current' = Idle
      /\ ready_list' \in Seq(Thread)
      /\ NoDuplicates(ready_list')
      /\ Elems(ready_list') = Elems(rl) \ {current'}
      /\ status' \in [Thread -> Status]
      /\ status'[current'] = "RUNNING"
      /\ \A t \in Thread : t # current' =>
           status'[t] = IF st[t] = "DYING" /\ t # Main THEN "FREE" ELSE st[t]
      /\ thread_ticks' \in 0 .. TIME_SLICE - 1
      /\ intr' \in {"ON", "OFF"}
      /\ intr' = "OFF" <=> pc[current'] = "down"
  BY <1>2, <1>3, <1>4, Schedule
<1>6. /\ pc' \in [Thread -> Label]
      /\ \A t \in Thread : \/ pc'[t] = pc[t]
                           \/ pc[t] = "hlt" /\ pc'[t] = "idle2" /\ t = Idle
  BY <1>1, SMTT(60) DEF EndHlt, Goto, TypeOK, FrameInv, FrameOf, IdleFrame, IdleLabel, Label
<1>7. TypeOK'
  BY <1>1, <1>5, <1>6 DEF TypeOK, synch
<1>8. FrameInv'
  <2>1. /\ \A t \in Thread : status[t] = "DYING" => t = Main
        /\ idle_thread = Idle => status[Idle] # "FREE"
        /\ status[current] = "RUNNING"
        /\ status \in [Thread -> Status] /\ current \in Thread
    BY <1>1, Zenon DEF FrameInv, FrameOf, IdleFrame, NoThreadForgotten, TypeOK
  <2>2. \A t \in Thread : status'[t] = "FREE" <=> status[t] = "FREE"
    BY <1>2, <1>3, <1>5, <2>1 DEF st
  <2>3. \A t \in Thread : status'[t] = "DYING" => t = Main
    BY <1>5, <2>1, Zenon DEF st
  <2> QED
    BY <1>1, <1>5, <1>6, <2>2, <2>3, ThreadsAssumption, SMTT(60)
    DEF FrameInv, FrameOf, IdleFrame, IdleLabel, TypeOK
<1>9. BootInv'
  <2> SUFFICES ASSUME idle_thread = NULL PROVE BootInv'
    BY DEF BootInv
  <2>1. pc' = pc
    BY <1>1, <1>6, ThreadsAssumption DEF TypeOK, FrameInv, FrameOf, IdleFrame
  <2>2. rl = Append(ready_list, current)
    BY <1>1, ThreadsAssumption DEF rl, TypeOK
  <2>3. /\ current' = Head(rl) /\ ready_list' = Tail(rl)
    BY <1>4, <2>2, <1>1, PushBack, Zenon DEF schedule, next_thread_to_run, TypeOK
  <2>4. /\ pc[Idle] = "idle0"
        /\ \/ current = Idle /\ ready_list = <<>> /\ pc[Main] = "down"
           \/ current = Idle /\ ready_list = <<Main>> /\ pc[Main] = "booted"
           \/ current = Main /\ ready_list = <<Idle>> /\ pc[Main] = "booted"
    BY <1>1 DEF BootInv, FrameInv, FrameOf, IdleFrame
  <2>5. \/ current' = Idle /\ ready_list' = <<>> /\ pc[Main] = "down"
        \/ current' = Idle /\ ready_list' = <<Main>> /\ pc[Main] = "booted"
        \/ current' = Main /\ ready_list' = <<Idle>> /\ pc[Main] = "booted"
    BY <2>2, <2>3, <2>4, ShortLists, ThreadsAssumption
  <2> QED
    BY <1>1, <2>1, <2>4, <2>5, Zenon DEF BootInv, synch
<1>10. ElemExclusive'
  <2>1. ASSUME NEW t \in Elems(ready_list') PROVE status'[t] = "READY"
    <3>1. t \in Elems(rl) /\ t # current' /\ t \in Thread
      BY <1>5, <2>1, SMTT(60) DEF Elems
    <3> QED BY <1>2, <1>5, <3>1
  <2>2. ASSUME NEW s \in SemaId, NEW t \in Elems(waiters[s])
        PROVE  status'[t] = "BLOCKED" /\ pc'[t] = "down" /\ sem[t] = s
    <3>1. t \in Thread /\ status[t] = "BLOCKED" /\ pc[t] = "down" /\ sem[t] = s
      BY <1>1, <2>2, SMTT(60) DEF ElemExclusive, TypeOK, Elems
    <3>2. t # current /\ t # Idle
      BY <1>1, <3>1 DEF NoThreadForgotten, FrameInv, FrameOf, IdleFrame, IdleLabel
    <3>3. st[t] = "BLOCKED" /\ t \notin Elems(rl)
      BY <1>1, <1>2, <3>1, <3>2, Zenon DEF st, TypeOK
    <3> QED BY <1>5, <1>6, <3>1, <3>2, <3>3, Zenon
  <2> QED
    BY <1>1, <1>5, <2>1, <2>2 DEF ElemExclusive, synch
<1>12. NoThreadForgotten'
  <2> SUFFICES ASSUME NEW t \in Thread
               PROVE  /\ status'[t] = "RUNNING" <=> t = current'
                      /\ status'[t] = "READY" /\ t # idle_thread => t \in Elems(ready_list')
                      /\ status'[t] = "BLOCKED" /\ t # idle_thread =>
                           sem[t] \in SemaId /\ t \in Elems(waiters[sem[t]])
    BY DEF NoThreadForgotten, synch
  <2>1. st[t] = IF t = current THEN "READY" ELSE status[t]
    BY <1>1, Zenon DEF st, TypeOK
  <2> QED
    BY <1>1, <1>2, <1>5, <2>1, Zenon DEF NoThreadForgotten
<1>11. HolderInv' /\ MutualExclusion'
  BY <1>1, <1>6 DEF HolderInv, MutualExclusion, Owns, synch
<1> QED BY <1>7, <1>8, <1>9, <1>10, <1>11, <1>12 DEF IInv

-----------------------------------------------------------------------------
(***************************************************************************)
(* The other operations of thread.c                                        *)
(***************************************************************************)

\* Once a thread is outside the primitives, or inside them after boot, there is
\* an idle thread to fall back on.
LEMMA Booted ==
  ASSUME IInv, pc[current] \notin {"boot", "booted", "idle0"}
  PROVE  idle_thread = Idle
BY DEF IInv, TypeOK, BootInv

\* The running thread gives up the processor for good (thread_exit), or as the
\* idle thread.
LEMMA LeaveStep ==
  ASSUME IInv, NEW x \in {"DYING", "BLOCKED"},
         schedule([status EXCEPT ![current] = x], ready_list),
         \/ x = "DYING" /\ pc[current] = "run" /\ pc' = pc
         \/ x = "BLOCKED" /\ pc[current] = "idle2" /\ pc' = [pc EXCEPT ![current] = "hlt"],
         UNCHANGED <<idle_thread, synch, sem, arg>>
  PROVE  IInv'
<1> DEFINE st == [status EXCEPT ![current] = x]
<1>1. TypeOK /\ FrameInv /\ ElemExclusive /\ NoThreadForgotten
      /\ HolderInv /\ MutualExclusion
  BY DEF IInv
<1>2. /\ current \in Thread /\ status[current] = "RUNNING"
      /\ current \notin Elems(ready_list)
      /\ st \in [Thread -> Status] /\ ready_list \in Seq(Thread) /\ NoDuplicates(ready_list)
  <2>1. current \in Thread /\ status[current] = "RUNNING"
    BY <1>1, Zenon DEF TypeOK, NoThreadForgotten
  <2> QED BY <1>1, <2>1 DEF TypeOK, ElemExclusive, Status
<1>3. /\ idle_thread = Idle /\ status[Idle] # "FREE"
      /\ x = "DYING" => current # Idle
      /\ x = "BLOCKED" => current = Idle
  <2>1. idle_thread = Idle
    BY Booted, Zenon
  <2> QED BY <1>1, <1>2, <2>1 DEF FrameInv, FrameOf, IdleFrame, IdleLabel
<1>4. /\ \A t \in Thread : st[t] = IF t = current THEN x ELSE status[t]
      /\ pc' \in [Thread -> Label]
      /\ \A t \in Thread : \/ pc'[t] = pc[t]
                           \/ t = Idle /\ pc[t] = "idle2" /\ pc'[t] = "hlt"
  BY <1>1, <1>2, <1>3, Zenon DEF TypeOK, Label
<1>5. schedule(st, ready_list)
  OBVIOUS
<1> HIDE DEF st
<1>6. /\ current' \in Thread
      /\ ready_list # <<>> => current' = Head(ready_list) /\ current' \in Elems(ready_list)
      /\ ready_list = <<>> => current' = Idle
      /\ ready_list' \in Seq(Thread)
      /\ NoDuplicates(ready_list')
      /\ Elems(ready_list') = Elems(ready_list) \ {current'}
      /\ status' \in [Thread -> Status]
      /\ status'[current'] = "RUNNING"
      /\ \A t \in Thread : t # current' =>
           status'[t] = IF st[t] = "DYING" /\ t # Main THEN "FREE" ELSE st[t]
      /\ thread_ticks' \in 0 .. TIME_SLICE - 1
      /\ intr' \in {"ON", "OFF"}
      /\ intr' = "OFF" <=> pc[current'] = "down"
  BY <1>2, <1>3, <1>5, Schedule
<1>7. /\ status[current'] # "FREE"
      /\ \A t \in Thread : t # current /\ t # current' => status'[t] = status[t]
      /\ current # current' =>
           status'[current] = IF x = "DYING" /\ current # Main THEN "FREE" ELSE x
  <2>1. \A t \in Thread : status[t] = "DYING" => t = Main
    BY <1>1, Zenon DEF FrameInv, FrameOf, IdleFrame
  <2>2. status[current'] # "FREE"
    BY <1>1, <1>3, <1>6, Zenon DEF ElemExclusive
  <2> QED BY <1>2, <1>4, <1>6, <2>1, <2>2
<1>8. TypeOK'
  BY <1>1, <1>4, <1>6 DEF TypeOK, synch
<1>9. FrameInv'
  <2>2. /\ status'[Idle] # "FREE"
        /\ \A t \in Thread : status'[t] = "FREE" => pc'[t] = "run"
        /\ \A t \in Thread : status'[t] = "DYING" => t = Main
    <3>1. \A t \in Thread : /\ status[t] = "FREE" => pc[t] = "run"
                            /\ status[t] = "DYING" => t = Main
      BY <1>1 DEF FrameInv, FrameOf, IdleFrame
    <3>2. ASSUME NEW t \in Thread
          PROVE  /\ t = Idle => status'[t] # "FREE"
                 /\ status'[t] = "FREE" => pc'[t] = "run"
                 /\ status'[t] = "DYING" => t = Main
      <4>1. CASE t = current'
        BY <1>6, <4>1, Zenon
      <4>2. CASE t # current' /\ t = current
        BY <1>3, <1>7, <4>2, Zenon
      <4>3. CASE t # current' /\ t # current
        BY <1>3, <1>4, <1>7, <3>1, <4>3, Zenon
      <4> QED BY <4>1, <4>2, <4>3
    <3> QED BY <3>2, ThreadsAssumption, Zenon
  <2>3. \A t \in Thread : pc[t] # "boot"
    BY <1>1, Zenon DEF FrameInv, FrameOf, IdleFrame
  <2>4. ASSUME NEW t \in Thread
        PROVE  FrameOf(t)'
    <3>1. FrameOf(t)
      BY <1>1, Zenon DEF FrameInv
    <3>2. CASE pc'[t] = pc[t]
      BY <2>2, <2>3, <3>1, <3>2, SameFrame, Zenon
    <3>3. CASE t = Idle /\ pc'[t] = "hlt"
      BY <2>2, <3>3, ThreadsAssumption, Zenon DEF FrameOf, IdleLabel
    <3> QED BY <1>4, <3>2, <3>3
  <2>5. IdleFrame'
    <3>1. IdleFrame /\ Idle \in Thread
      BY <1>1, ThreadsAssumption, Zenon DEF FrameInv
    <3>2. pc'[Idle] \in IdleLabel /\ pc'[Idle] # "idle0"
      BY <1>3, <1>4, <3>1, Zenon DEF IdleFrame, IdleLabel
    <3>3. pc'[current'] = "down" <=> pc[current'] = "down"
      BY <1>4, <1>6, Zenon
    <3>4. pc'[current'] # "boot"
      BY <1>4, <1>6, <2>3, Zenon
    <3> QED BY <1>3, <1>6, <2>2, <3>2, <3>3, <3>4, Zenon DEF IdleFrame
  <2> QED BY <2>4, <2>5, Zenon DEF FrameInv
<1>10. BootInv'
  <2>1. idle_thread' # NULL
    BY <1>3, ThreadsAssumption, Zenon
  <2> QED BY <2>1 DEF BootInv
<1>11. ElemExclusive'
  <2>1. \A t \in Elems(ready_list') : status'[t] = "READY"
    <3>1. \A t \in Elems(ready_list) : t \in Thread /\ status[t] = "READY"
      BY <1>1, SMTT(60) DEF ElemExclusive, TypeOK, Elems
    <3> QED BY <1>2, <1>6, <1>7, <3>1, Zenon
  <2>2. ASSUME NEW q \in SemaId, NEW t \in Elems(waiters[q])
        PROVE  status'[t] = "BLOCKED" /\ pc'[t] = "down" /\ sem[t] = q
    <3>1. t \in Thread /\ status[t] = "BLOCKED" /\ pc[t] = "down" /\ sem[t] = q
      BY <1>1, <2>2, SMTT(60) DEF ElemExclusive, TypeOK, Elems
    <3>2. t # current /\ t # Idle
      BY <1>1, <1>2, <3>1, Zenon DEF FrameInv, FrameOf, IdleFrame, IdleLabel
    <3>3. t # current'
      BY <1>1, <1>6, <3>1, <3>2, Zenon DEF ElemExclusive
    <3> QED BY <1>4, <1>7, <3>1, <3>2, <3>3, Zenon
  <2> QED BY <1>1, <1>6, <2>1, <2>2, SMTT(60) DEF ElemExclusive, synch
<1>12. NoThreadForgotten'
  <2> SUFFICES ASSUME NEW t \in Thread
               PROVE  /\ status'[t] = "RUNNING" <=> t = current'
                      /\ status'[t] = "READY" /\ t # idle_thread => t \in Elems(ready_list')
                      /\ status'[t] = "BLOCKED" /\ t # idle_thread =>
                           sem[t] \in SemaId /\ t \in Elems(waiters[sem[t]])
    BY DEF NoThreadForgotten, synch
  <2>1. /\ status[t] = "RUNNING" <=> t = current
        /\ status[t] = "READY" /\ t # idle_thread => t \in Elems(ready_list)
        /\ status[t] = "BLOCKED" /\ t # idle_thread =>
             sem[t] \in SemaId /\ t \in Elems(waiters[sem[t]])
    BY <1>1, Zenon DEF NoThreadForgotten
  <2>2. CASE t = current'
    BY <1>6, <2>2, Zenon
  <2>3. CASE t # current' /\ t = current
    BY <1>3, <1>7, <2>3, Zenon
  <2>4. CASE t # current' /\ t # current
    BY <1>6, <1>7, <2>1, <2>4, Zenon
  <2> QED BY <2>2, <2>3, <2>4, Zenon
<1>13. HolderInv' /\ MutualExclusion'
  BY <1>1, <1>4, SameOwners DEF synch
<1> QED BY <1>8, <1>9, <1>10, <1>11, <1>12, <1>13 DEF IInv

\* A timer interrupt within the time slice.
LEMMA ShortTick ==
  ASSUME IInv, Tick, ~(thread_ticks + 1 >= TIME_SLICE)
  PROVE  IInv'
<1>1. TypeOK /\ FrameInv /\ BootInv /\ HolderInv /\ MutualExclusion
  BY DEF IInv
<1>2. /\ thread_ticks' = thread_ticks + 1
      /\ UNCHANGED <<status, ready_list, current, intr, idle_thread, synch, sem, arg>>
      /\ EndHlt
  BY DEF Tick
<1>3. /\ pc' \in [Thread -> Label]
      /\ \A t \in Thread : \/ pc'[t] = pc[t]
                           \/ pc[t] = "hlt" /\ pc'[t] = "idle2" /\ t = Idle
  BY <1>1, <1>2 DEF EndHlt, Goto, TypeOK, FrameInv, FrameOf, IdleFrame, IdleLabel, Label
<1>4. TypeOK'
  BY <1>1, <1>2, <1>3, ThreadsAssumption DEF TypeOK, synch
<1>5. FrameInv'
  <2>1. ASSUME NEW t \in Thread
        PROVE  FrameOf(t)'
    <3>1. FrameOf(t)
      BY <1>1, Zenon DEF FrameInv
    <3>2. CASE pc'[t] = pc[t]
      BY <1>2, <3>1, <3>2, Zenon DEF FrameOf
    <3>3. CASE pc[t] = "hlt" /\ pc'[t] = "idle2" /\ t = Idle
      BY <1>2, <3>1, <3>3, Zenon DEF FrameOf, IdleLabel
    <3> QED BY <1>3, <3>2, <3>3
  <2>2. IdleFrame'
    <3>1. IdleFrame /\ Idle \in Thread /\ current \in Thread
      BY <1>1, ThreadsAssumption, Zenon DEF FrameInv, TypeOK
    <3> QED BY <1>2, <1>3, <3>1 DEF IdleFrame, IdleLabel
  <2> QED BY <2>1, <2>2 DEF FrameInv
<1>6. BootInv'
  <2> SUFFICES ASSUME idle_thread = NULL PROVE BootInv'
    BY <1>2, Zenon DEF BootInv
  <2>1. pc'[Main] = pc[Main] /\ pc'[Idle] = pc[Idle]
    BY <1>1, <1>3, ThreadsAssumption, SMTT(60) DEF FrameInv, FrameOf, IdleFrame
  <2> QED BY <1>1, <1>2, <2>1, Zenon DEF BootInv, synch
<1>7. ElemExclusive' /\ NoThreadForgotten'
  BY <1>2, <1>3, QuietStep, Zenon DEF synch
<1>8. HolderInv' /\ MutualExclusion'
  BY <1>1, <1>2, <1>3, SameOwners, Zenon DEF synch
<1> QED BY <1>4, <1>5, <1>6, <1>7, <1>8 DEF IInv

\* thread_create, and thread_start's creation of the idle thread: a page that
\* held no thread joins the run queue.
LEMMA NewThreadLists ==
  ASSUME IInv, NEW u \in Thread, status[u] = "FREE", thread_unblock(u),
         UNCHANGED <<current, idle_thread, waiters, sem>>,
         \A t \in Thread : pc'[t] = "down" <=> pc[t] = "down"
  PROVE  /\ status' \in [Thread -> Status]
         /\ status'[u] = "READY"
         /\ \A t \in Thread : t # u => status'[t] = status[t]
         /\ ready_list' = Append(ready_list, u)
         /\ ready_list' \in Seq(Thread)
         /\ ElemExclusive' /\ NoThreadForgotten'
<1>1. TypeOK /\ ElemExclusive /\ NoThreadForgotten
  BY DEF IInv
<1>2. /\ ready_list' = Append(ready_list, u)
      /\ status' \in [Thread -> Status]
      /\ status'[u] = "READY"
      /\ \A t \in Thread : t # u => status'[t] = status[t]
  BY <1>1, Zenon DEF thread_unblock, TypeOK, Status
<1>3. /\ \A t \in Elems(ready_list) : t \in Thread /\ status[t] = "READY"
      /\ \A s \in SemaId : \A t \in Elems(waiters[s]) :
           t \in Thread /\ status[t] = "BLOCKED" /\ pc[t] = "down" /\ sem[t] = s
  <2>1. ready_list \in Seq(Thread) /\ waiters \in [SemaId -> Seq(Thread)]
    BY <1>1 DEF TypeOK
  <2>2. \A t \in Elems(ready_list) : t \in Thread
    BY <2>1 DEF Elems
  <2>3. \A s \in SemaId : \A t \in Elems(waiters[s]) : t \in Thread
    BY <2>1, SMTT(60) DEF Elems
  <2> QED BY <1>1, <2>2, <2>3 DEF ElemExclusive
<1>4. /\ ready_list' \in Seq(Thread)
      /\ Elems(ready_list') = Elems(ready_list) \cup {u}
      /\ NoDuplicates(ready_list')
  BY <1>1, <1>2, <1>3, PushBack, SMTT(60) DEF ElemExclusive, TypeOK
<1>5. ElemExclusive'
  <2>1. ASSUME NEW s \in SemaId, NEW t \in Elems(waiters[s])
        PROVE  status'[t] = "BLOCKED" /\ pc'[t] = "down" /\ sem'[t] = s
    <3>1. t \in Thread /\ status[t] = "BLOCKED" /\ pc[t] = "down" /\ sem[t] = s
      BY <1>3, Zenon
    <3>2. t # u  BY <3>1, Zenon
    <3> QED BY <1>2, <3>1, <3>2, Zenon
  <2>2. ASSUME NEW t \in Elems(ready_list') PROVE status'[t] = "READY"
    <3>1. t = u \/ t \in Elems(ready_list)  BY <1>4, Zenon
    <3>2. CASE t = u  BY <1>2, <3>2, Zenon
    <3>3. CASE t # u
      <4>1. t \in Elems(ready_list)  BY <3>1, <3>3, Zenon
      <4>2. t \in Thread /\ status[t] = "READY"  BY <1>3, <4>1, Zenon
      <4> QED BY <1>2, <3>3, <4>2, Zenon
    <3> QED BY <3>2, <3>3, Zenon
  <2> QED BY <1>1, <1>4, <2>1, <2>2, Zenon DEF ElemExclusive
<1>6. NoThreadForgotten'
  BY <1>1, <1>2, <1>4 DEF NoThreadForgotten
<1> QED BY <1>2, <1>4, <1>5, <1>6, Zenon

\* thread_create by a running thread keeps the invariant.
LEMMA CreateStep ==
  ASSUME IInv, NEW u \in Thread, ThreadCreate(u)
  PROVE  IInv'
<1>1. TypeOK /\ FrameInv /\ HolderInv /\ MutualExclusion
  BY DEF IInv
<1>2. /\ intr = "ON" /\ pc[current] = "run" /\ status[u] = "FREE" /\ thread_unblock(u)
      /\ UNCHANGED <<current, idle_thread, intr, thread_ticks, synch, sem, arg>>
  BY DEF ThreadCreate, At
<1>3. idle_thread = Idle
  BY <1>2, Booted, Zenon
<1>4. pc' = pc
  BY <1>1, <1>2, SMTT(60) DEF ThreadCreate, TypeOK, FrameInv, FrameOf, IdleFrame
<1>5. /\ status' \in [Thread -> Status]
      /\ status'[u] = "READY"
      /\ \A t \in Thread : t # u => status'[t] = status[t]
      /\ ready_list' \in Seq(Thread)
      /\ ElemExclusive' /\ NoThreadForgotten'
  BY <1>2, <1>4, NewThreadLists, Zenon DEF synch
<1>6. TypeOK'
  BY <1>1, <1>2, <1>4, <1>5 DEF TypeOK, synch
<1>7. FrameInv'
  <2>1. status[Idle] # "FREE"
    BY <1>1, <1>3 DEF FrameInv, FrameOf, IdleFrame
  <2>2. \A t \in Thread : /\ status'[t] = "FREE" => status[t] = "FREE"
                          /\ status'[t] = "DYING" => status[t] = "DYING"
    BY <1>5, Zenon
  <2>3. status'[Idle] # "FREE"
    BY <1>5, <2>1, ThreadsAssumption, Zenon
  <2>4. ASSUME NEW t \in Thread
        PROVE  FrameOf(t)'
    <3>1. FrameOf(t)
      BY <1>1, Zenon DEF FrameInv
    <3>2. pc[t] # "boot"
      BY <1>2, <3>1, Zenon DEF FrameOf
    <3> QED BY <1>2, <1>4, <2>2, <3>1, <3>2, SameFrame
  <2>5. IdleFrame'
    <3>1. IdleFrame
      BY <1>1, Zenon DEF FrameInv
    <3> QED BY <1>2, <1>4, <2>1, <2>3, <3>1 DEF IdleFrame
  <2> QED BY <2>4, <2>5, Zenon DEF FrameInv
<1>8. BootInv'
  BY <1>2, <1>3, ThreadsAssumption, Zenon DEF BootInv
<1>9. HolderInv' /\ MutualExclusion'
  BY <1>1, <1>2, <1>4, SameOwners, Zenon DEF synch
<1> QED BY <1>5, <1>6, <1>7, <1>8, <1>9 DEF IInv

\* thread_start creates the idle thread and enables interrupts.
LEMMA StartStep ==
  ASSUME IInv, ThreadStart
  PROVE  IInv'
<1>1. TypeOK /\ FrameInv /\ BootInv /\ HolderInv /\ MutualExclusion
  BY DEF IInv
<1>2. /\ pc[current] = "boot" /\ thread_unblock(Idle) /\ intr' = "ON"
      /\ pc' = [pc EXCEPT ![Idle] = "idle0", ![current] = "booted"]
      /\ UNCHANGED <<current, idle_thread, thread_ticks, synch, sem, arg>>
  BY Zenon DEF ThreadStart
<1>3. /\ current = Main /\ idle_thread = NULL
      /\ \A t \in Thread : t # Main => pc[t] # "boot"
  BY <1>1, <1>2, ThreadsAssumption, Zenon DEF FrameInv, FrameOf, IdleFrame, TypeOK
<1>4. status[Idle] = "FREE" /\ ready_list = <<>> /\ pc[Idle] = "run"
  BY <1>1, <1>2, <1>3, ThreadsAssumption, Zenon DEF BootInv, FrameInv, FrameOf, IdleFrame
<1>5. /\ pc' \in [Thread -> Label]
      /\ pc'[Main] = "booted" /\ pc'[Idle] = "idle0"
      /\ \A t \in Thread \ {Main, Idle} : pc'[t] = pc[t]
  BY <1>1, <1>2, <1>3, ThreadsAssumption, Zenon DEF TypeOK, Label
<1>6. \A t \in Thread : pc'[t] = "down" <=> pc[t] = "down"
  BY <1>2, <1>3, <1>4, <1>5, Zenon
<1>7. /\ status' \in [Thread -> Status]
      /\ status'[Idle] = "READY"
      /\ \A t \in Thread : t # Idle => status'[t] = status[t]
      /\ ready_list' = Append(ready_list, Idle)
      /\ ready_list' \in Seq(Thread)
      /\ ElemExclusive' /\ NoThreadForgotten'
  BY <1>2, <1>4, <1>6, NewThreadLists, ThreadsAssumption, Zenon DEF synch
<1>8. TypeOK'
  BY <1>1, <1>2, <1>5, <1>7, Zenon DEF TypeOK, synch
<1>9. FrameInv'
  <2>1. ASSUME NEW t \in Thread
        PROVE  /\ pc'[t] = "own" => sem[t] \in Lock
               /\ pc'[t] = "down" => sem[t] \in SemaId
               /\ pc'[t] = "down" /\ sem[t] \in Thread => sem[t] = t /\ arg[t] \in Lock
               /\ pc'[t] \in {"rel", "cw_release", "cw_rel", "cw_down", "cw_acq"} => arg[t] \in Lock
               /\ pc'[t] = "bcast" => arg[t] \in Cond
               /\ pc'[t] \in IdleLabel => t = Idle
               /\ pc'[t] \in {"boot", "booted"} => t = Main
               /\ pc'[t] # "boot"
    BY <1>1, <1>3, <1>5, SMTT(60) DEF FrameInv, FrameOf, IdleFrame, IdleLabel
  <2>2. \A t \in Thread : /\ status'[t] = "FREE" => pc'[t] = "run"
                          /\ status'[t] = "DYING" => t = Main
    <3>1. status[Main] # "FREE"
      BY <1>3, ThreadsAssumption, Zenon DEF IInv, NoThreadForgotten
    <3> QED BY <1>1, <1>5, <1>7, <3>1, ThreadsAssumption, SMTT(60) DEF FrameInv, FrameOf, IdleFrame
  <2> QED BY <1>2, <1>3, <1>5, <2>1, <2>2, ThreadsAssumption, ZenonT(60) DEF FrameInv, FrameOf, IdleFrame, IdleLabel
<1>10. BootInv'
  <2>1. ready_list' = <<Idle>>
    BY <1>4, <1>7, ShortLists, ThreadsAssumption, Zenon
  <2> QED BY <1>1, <1>2, <1>3, <1>5, <2>1, Zenon DEF BootInv, synch
<1>11. HolderInv' /\ MutualExclusion'
  <2>1. pc[Main] = "boot" /\ pc[Idle] = "run"
    BY <1>2, <1>3, <1>4
  <2> QED BY <1>1, <1>2, <1>5, <2>1, SameOwners, Zenon DEF synch
<1> QED BY <1>7, <1>8, <1>9, <1>10, <1>11 DEF IInv

\* The idle thread records itself in idle_thread, which ends the boot.
LEMMA IdleSetsStep ==
  ASSUME IInv, IdleSetsItself
  PROVE  IInv'
<1>1. TypeOK /\ FrameInv /\ HolderInv /\ MutualExclusion /\ NoThreadForgotten
  BY DEF IInv
<1>2. /\ intr = "ON" /\ pc[current] = "idle0" /\ idle_thread' = current
      /\ pc' = [pc EXCEPT ![current] = "idle1"]
      /\ UNCHANGED <<status, ready_list, current, intr, thread_ticks, synch, sem, arg>>
  BY Zenon DEF IdleSetsItself, At, Goto
<1>3. current = Idle /\ status[Idle] = "RUNNING" /\ current \in Thread /\ idle_thread = NULL
  BY <1>1, <1>2, ThreadsAssumption, Zenon DEF FrameInv, FrameOf, IdleFrame, IdleLabel, TypeOK, NoThreadForgotten
<1>4. /\ pc' \in [Thread -> Label] /\ pc'[Idle] = "idle1"
      /\ \A t \in Thread : t # Idle => pc'[t] = pc[t]
  BY <1>1, <1>2, <1>3, Zenon DEF TypeOK, Label
<1>5. TypeOK'
  BY <1>1, <1>2, <1>3, <1>4, Zenon DEF TypeOK, synch
<1>6. FrameInv'
  <2>1. ASSUME NEW t \in Thread
        PROVE  FrameOf(t)'
    <3>1. FrameOf(t)
      BY <1>1, Zenon DEF FrameInv
    <3>2. pc[t] # "boot"
      BY <1>2, <3>1, ZenonT(60) DEF FrameOf
    <3>3. CASE t = Idle
      BY <1>2, <1>3, <1>4, <3>3, Zenon DEF FrameOf, IdleLabel
    <3>4. CASE t # Idle
      BY <1>2, <1>4, <3>1, <3>2, <3>4, SameFrame, Zenon
    <3> QED BY <3>3, <3>4
  <2>2. IdleFrame'
    BY <1>2, <1>3, <1>4, Zenon DEF IdleFrame, IdleLabel
  <2> QED BY <2>1, <2>2 DEF FrameInv
<1>7. BootInv'
  <2>1. idle_thread' # NULL
    BY <1>2, <1>3, ThreadsAssumption, Zenon
  <2> QED BY <2>1, Zenon DEF BootInv
<1>8. ElemExclusive'
  <2>1. \A s \in SemaId : \A t \in Elems(waiters[s]) : t \in Thread
    BY <1>1 DEF TypeOK, Elems
  <2>2. \A t \in Thread : pc[t] = "down" => pc'[t] = "down"
    BY <1>2, <1>3, <1>4
  <2>3. ElemExclusive
    BY Zenon DEF IInv
  <2> QED BY <1>2, <2>1, <2>2, <2>3, SMTT(60) DEF ElemExclusive, synch
<1>9. NoThreadForgotten'
  BY <1>1, <1>2, <1>3, ThreadsAssumption, Zenon DEF NoThreadForgotten, synch
<1>10. HolderInv' /\ MutualExclusion'
  BY <1>1, <1>2, <1>3, <1>4, SameOwners DEF synch
<1> QED BY <1>5, <1>6, <1>7, <1>8, <1>9, <1>10 DEF IInv
============================================================================
