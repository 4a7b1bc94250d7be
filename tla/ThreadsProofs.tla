--------------------------- MODULE ThreadsProofs ----------------------------
(***************************************************************************)
(* For any number of threads, semaphores, locks and condition variables:   *)
(* the scheduler never forgets a thread or puts it on two lists, and a     *)
(* lock has at most one owner.                                             *)
(***************************************************************************)
EXTENDS SchedulerProofs

-----------------------------------------------------------------------------
(***************************************************************************)
(* sema_up                                                                 *)
(***************************************************************************)

\* sema_up moves at most one thread, from the semaphore's list to the run queue,
\* and keeps the lists consistent.
LEMMA SemaUpLists ==
  ASSUME IInv, NEW s \in SemaId, sema_up(s), sem' = sem,
         pc' \in [Thread -> Label],
         \A t \in Thread : pc'[t] = "down" <=> pc[t] = "down"
  PROVE  /\ status' \in [Thread -> Status]
         /\ ready_list' \in Seq(Thread)
         /\ value' \in [SemaId -> Nat]
         /\ value' = [value EXCEPT ![s] = @ + 1]
         /\ waiters' \in [SemaId -> Seq(Thread)]
         /\ UNCHANGED <<current, idle_thread, intr, thread_ticks>>
         /\ \A t \in Thread : \/ status'[t] = status[t]
                              \/ status[t] = "BLOCKED" /\ status'[t] = "READY"
         /\ idle_thread = NULL /\ s # IdleStarted => UNCHANGED <<waiters, status, ready_list>>
         /\ ElemExclusive' /\ NoThreadForgotten'
<1>1. TypeOK /\ FrameInv /\ BootInv /\ ElemExclusive /\ NoThreadForgotten
  BY DEF IInv
<1>2. /\ value' = [value EXCEPT ![s] = @ + 1]
      /\ value' \in [SemaId -> Nat]
      /\ UNCHANGED <<current, idle_thread, intr, thread_ticks>>
  BY <1>1 DEF sema_up, TypeOK
<1> DEFINE Moves ==
             /\ status' \in [Thread -> Status]
             /\ ready_list' \in Seq(Thread)
             /\ waiters' \in [SemaId -> Seq(Thread)]
             /\ \A t \in Thread : \/ status'[t] = status[t]
                                  \/ status[t] = "BLOCKED" /\ status'[t] = "READY"
             /\ idle_thread = NULL /\ s # IdleStarted =>
                  UNCHANGED <<waiters, status, ready_list>>
           Lists == ElemExclusive' /\ NoThreadForgotten'
<1>3. ASSUME waiters[s] = <<>> PROVE Moves /\ Lists
  <2>1. waiters' = waiters /\ status' = status /\ ready_list' = ready_list
    BY <1>3 DEF sema_up
  <2>2. Lists
    <3>1. \A q \in SemaId : \A t \in Elems(waiters[q]) : t \in Thread
      BY <1>1 DEF TypeOK, Elems
    <3> QED BY <1>1, <1>2, <2>1, <3>1 DEF ElemExclusive, NoThreadForgotten
  <2>3. Moves
    BY <1>1, <2>1 DEF TypeOK
  <2> QED BY <2>2, <2>3
<1>4. ASSUME waiters[s] # <<>> PROVE Moves /\ Lists
  <2> DEFINE w == Head(waiters[s])
  <2>1. /\ waiters[s] \in Seq(Thread) /\ NoDuplicates(waiters[s])
        /\ w \in Thread /\ w \in Elems(waiters[s])
        /\ Tail(waiters[s]) \in Seq(Thread)
        /\ Elems(waiters[s]) = Elems(Tail(waiters[s])) \cup {w}
        /\ NoDuplicates(Tail(waiters[s])) /\ w \notin Elems(Tail(waiters[s]))
    BY <1>1, <1>4, PopFront DEF TypeOK, ElemExclusive
  <2>2. /\ waiters' = [waiters EXCEPT ![s] = Tail(@)]
        /\ ready_list' = Append(ready_list, w)
        /\ status' = [status EXCEPT ![w] = "READY"]
    BY <1>4 DEF sema_up, thread_unblock
  <2> HIDE DEF w
  <2>3. status[w] = "BLOCKED" /\ pc[w] = "down" /\ sem[w] = s
    BY <1>1, <2>1 DEF ElemExclusive
  <2>4. w # current /\ w \notin Elems(ready_list)
    BY <1>1, <2>3 DEF ElemExclusive, NoThreadForgotten, TypeOK
  <2>5. /\ status' \in [Thread -> Status]
        /\ waiters' \in [SemaId -> Seq(Thread)]
        /\ waiters'[s] = Tail(waiters[s])
        /\ \A q \in SemaId : q # s => waiters'[q] = waiters[q]
        /\ status'[w] = "READY"
        /\ \A t \in Thread : t # w => status'[t] = status[t]
    BY <1>1, <2>1, <2>2 DEF TypeOK, Status
  <2>6. /\ ready_list' \in Seq(Thread)
        /\ Elems(ready_list') = Elems(ready_list) \cup {w}
        /\ NoDuplicates(ready_list')
    BY <1>1, <2>1, <2>2, <2>4, PushBack DEF TypeOK, ElemExclusive
  <2>7. idle_thread = NULL => s = IdleStarted
    BY <1>1, <1>4 DEF BootInv
  <2>8. ASSUME NEW q \in SemaId
        PROVE  /\ NoDuplicates(waiters'[q])
               /\ \A t \in Elems(waiters'[q]) :
                    t \in Thread /\ t # w /\ t \in Elems(waiters[q])
    <3>1. \A t \in Elems(waiters[q]) : t \in Thread /\ sem[t] = q
      BY <1>1 DEF TypeOK, ElemExclusive, Elems
    <3>2. CASE q = s
      BY <2>1, <2>5, <3>1, <3>2, Zenon
    <3>3. CASE q # s
      BY <1>1, <2>3, <2>5, <3>1, <3>3 DEF ElemExclusive
    <3> QED BY <3>2, <3>3
  <2>9. ElemExclusive'
    <3>1. \A t \in Elems(ready_list) : t \in Thread /\ status[t] = "READY"
      BY <1>1 DEF TypeOK, ElemExclusive, Elems
    <3>2. \A t \in Elems(ready_list') : status'[t] = "READY"
      BY <2>4, <2>5, <2>6, <3>1
    <3>3. \A q \in SemaId : \A t \in Elems(waiters'[q]) :
            status'[t] = "BLOCKED" /\ pc'[t] = "down" /\ sem'[t] = q
      BY <1>1, <2>5, <2>8 DEF ElemExclusive
    <3> QED BY <2>6, <2>8, <3>2, <3>3 DEF ElemExclusive
  <2>10. NoThreadForgotten'
    <3> SUFFICES ASSUME NEW t \in Thread
                 PROVE  /\ status'[t] = "RUNNING" <=> t = current
                        /\ status'[t] = "READY" /\ t # idle_thread => t \in Elems(ready_list')
                        /\ status'[t] = "BLOCKED" /\ t # idle_thread =>
                             sem[t] \in SemaId /\ t \in Elems(waiters'[sem[t]])
      BY <1>2 DEF NoThreadForgotten
    <3>1. CASE t = w
      BY <2>4, <2>5, <2>6, <3>1
    <3>2. CASE t # w
      <4>1. status'[t] = status[t]
        BY <2>5, <3>2
      <4>2. \A q \in SemaId : t \in Elems(waiters[q]) => t \in Elems(waiters'[q])
        BY <2>1, <2>5, <3>2, ZenonT(60)
      <4>3. status[t] = "BLOCKED" /\ t # idle_thread =>
              t \in Elems(waiters[sem[t]]) /\ sem[t] \in SemaId
        BY <1>1 DEF NoThreadForgotten
      <4> QED BY <1>1, <2>6, <4>1, <4>2, <4>3 DEF NoThreadForgotten
    <3> QED BY <3>1, <3>2
  <2>11. Moves
    BY <2>3, <2>5, <2>6, <2>7
  <2> QED BY <2>9, <2>10, <2>11
<1> HIDE DEF Lists
<1>5. Moves /\ Lists
  BY <1>3, <1>4
<1> QED BY <1>2, <1>5, Zenon DEF Lists

\* An up that leaves the lock semaphores and the owners of locks alone: of a
\* plain semaphore, of idle_started, or of a cond_wait's semaphore.
LEMMA OtherUpStep ==
  ASSUME IInv, intr = "ON", NEW s \in SemaId \ Lock, sema_up(s),
         idle_thread = NULL => s # IdleStarted,
         UNCHANGED <<holder, sem, arg>>,
         cond_waiters' \in [Cond -> Seq(Thread)],
         \/ EndHlt
         \/ pc[current] = "idle1" /\ Goto("idle2")
  PROVE  IInv'
<1>1. TypeOK /\ FrameInv /\ BootInv /\ HolderInv /\ MutualExclusion
  BY DEF IInv
<1>2. /\ pc' \in [Thread -> Label]
      /\ \A t \in Thread : \/ pc'[t] = pc[t]
                           \/ /\ pc[t] \in {"hlt", "idle1"} /\ pc'[t] = "idle2"
                              /\ t = Idle
  <2>1. /\ current \in Thread /\ pc \in [Thread -> Label]
        /\ pc[current] \in {"hlt", "idle1"} => current = Idle
    BY <1>1 DEF TypeOK, FrameInv, FrameOf, IdleFrame, IdleLabel
  <2>2. pc' = pc \/ (pc[current] \in {"hlt", "idle1"} /\ pc' = [pc EXCEPT ![current] = "idle2"])
    BY DEF EndHlt, Goto
  <2> QED BY <2>1, <2>2 DEF Label
<1>3. /\ status' \in [Thread -> Status]
      /\ ready_list' \in Seq(Thread)
      /\ value' \in [SemaId -> Nat]
      /\ value' = [value EXCEPT ![s] = @ + 1]
      /\ waiters' \in [SemaId -> Seq(Thread)]
      /\ UNCHANGED <<current, idle_thread, intr, thread_ticks>>
      /\ \A t \in Thread : \/ status'[t] = status[t]
                           \/ status[t] = "BLOCKED" /\ status'[t] = "READY"
      /\ idle_thread = NULL /\ s # IdleStarted => UNCHANGED <<waiters, status, ready_list>>
      /\ ElemExclusive' /\ NoThreadForgotten'
  BY <1>2, SemaUpLists, Zenon
<1>4. TypeOK'
  BY <1>1, <1>2, <1>3, Zenon DEF TypeOK
<1>5. FrameInv'
  <2>1. \A t \in Thread : /\ status'[t] = "FREE" <=> status[t] = "FREE"
                          /\ status'[t] = "DYING" <=> status[t] = "DYING"
    BY <1>3, Zenon
  <2> QED BY <1>1, <1>2, <1>3, <2>1, ThreadsAssumption, SMTT(60) DEF FrameInv, FrameOf, IdleFrame, IdleLabel, TypeOK
<1>6. BootInv'
  <2> SUFFICES ASSUME idle_thread = NULL PROVE BootInv'
    BY <1>3, Zenon DEF BootInv
  <2>1. UNCHANGED <<waiters, status, ready_list, current>> /\ value'[IdleStarted] = value[IdleStarted]
    BY <1>1, <1>3, Zenon DEF TypeOK, SemaId
  <2>2. pc'[Main] = pc[Main] /\ pc'[Idle] = pc[Idle]
    BY <1>1, <1>2, ThreadsAssumption, SMTT(60) DEF FrameInv, FrameOf, IdleFrame
  <2> QED BY <1>1, <2>1, <2>2, Zenon DEF BootInv
<1>7. HolderInv' /\ MutualExclusion'
  <2>1. \A l \in Lock : value'[l] = value[l]
    BY <1>1, <1>3 DEF TypeOK, SemaId
  <2>2. \A t \in Thread : /\ pc'[t] = "own" <=> pc[t] = "own"
                          /\ pc'[t] \in {"rel", "cw_rel"} <=> pc[t] \in {"rel", "cw_rel"}
                          /\ pc'[t] = "cw_release" <=> pc[t] = "cw_release"
    BY <1>2
  <2> QED BY <1>1, <2>1, <2>2, SMTT(60) DEF HolderInv, MutualExclusion, Owns
<1> QED BY <1>3, <1>4, <1>5, <1>6, <1>7 DEF IInv

\* The up that ends lock_release: the lock becomes free.
LEMMA ReleaseStep ==
  ASSUME IInv, ReleaseUp
  PROVE  IInv'
<1>1. TypeOK /\ FrameInv /\ BootInv /\ HolderInv /\ MutualExclusion
  BY DEF IInv
<1> DEFINE l == arg[current]
<1>2. /\ pc[current] \in {"rel", "cw_rel"} /\ intr = "ON"
      /\ sema_up(l)
      /\ UNCHANGED <<holder, cond_waiters, sem>>
      /\ \/ pc' = [pc EXCEPT ![current] = "run"]
         \/ pc[current] = "cw_rel" /\ pc' = [pc EXCEPT ![current] = "cw_down"] /\ UNCHANGED arg
      /\ UNCHANGED arg \/ arg' = [arg EXCEPT ![current] = NULL]
  BY Zenon DEF ReleaseUp, At, Goto
<1>3. current \in Thread /\ l \in Lock /\ l \in SemaId /\ l # IdleStarted
  BY <1>1, <1>2, ThreadsAssumption DEF TypeOK, FrameInv, FrameOf, IdleFrame, SemaId
<1> HIDE DEF l
<1>4. /\ pc' \in [Thread -> Label]
      /\ pc'[current] \in {"run", "cw_down"}
      /\ pc'[current] = "cw_down" => arg'[current] \in Lock
      /\ arg' \in [Thread -> Lock \cup Cond \cup {NULL}]
      /\ \A t \in Thread : t # current => pc'[t] = pc[t] /\ arg'[t] = arg[t]
  BY <1>1, <1>2, <1>3, ZenonT(60) DEF TypeOK, Label, l
<1>5. /\ status' \in [Thread -> Status]
      /\ ready_list' \in Seq(Thread)
      /\ value' \in [SemaId -> Nat]
      /\ value' = [value EXCEPT ![l] = @ + 1]
      /\ waiters' \in [SemaId -> Seq(Thread)]
      /\ UNCHANGED <<current, idle_thread, intr, thread_ticks>>
      /\ \A t \in Thread : \/ status'[t] = status[t]
                           \/ status[t] = "BLOCKED" /\ status'[t] = "READY"
      /\ idle_thread = NULL /\ l # IdleStarted => UNCHANGED <<waiters, status, ready_list>>
      /\ ElemExclusive' /\ NoThreadForgotten'
  <2>1. \A t \in Thread : pc'[t] = "down" <=> pc[t] = "down"
    BY <1>2, <1>3, <1>4
  <2> QED BY <1>2, <1>3, <1>4, <2>1, SemaUpLists
<1>6. TypeOK'
  BY <1>1, <1>2, <1>4, <1>5, Zenon DEF TypeOK
<1>7. FrameInv'
  <2>1. \A t \in Thread : /\ status'[t] = "FREE" <=> status[t] = "FREE"
                          /\ status'[t] = "DYING" <=> status[t] = "DYING"
    BY <1>5, Zenon
  <2>2. current # Idle /\ status[current] # "FREE"
    BY <1>1, <1>2, <1>3, Zenon DEF FrameInv, FrameOf, IdleFrame, IdleLabel
  <2> QED BY <1>1, <1>2, <1>4, <1>5, <2>1, <2>2, ThreadsAssumption, SMTT(60) DEF FrameInv, FrameOf, IdleFrame, IdleLabel, TypeOK
<1>8. BootInv'
  <2>1. idle_thread # NULL
    BY <1>1, <1>2 DEF BootInv, FrameInv, FrameOf, IdleFrame, IdleLabel
  <2> QED BY <1>5, <2>1, ZenonT(60) DEF BootInv
<1>9. HolderInv' /\ MutualExclusion'
  <2>1. PICK me \in Thread : me = current
    BY <1>3, Zenon
  <2>2. /\ holder[l] = NULL
        /\ pc[me] \in {"rel", "cw_rel"} /\ arg[me] = l
        /\ pc'[me] \in {"run", "cw_down"}
    BY <1>1, <1>2, <1>3, <1>4, <2>1, Zenon DEF HolderInv, l
  <2>3. value[l] = 0 /\ \A t \in Thread : Owns(t, l) => t = me
    BY <1>1, <1>3, <2>2, Zenon DEF MutualExclusion, Owns
  <2>4. value'[l] = 1 /\ \A k \in Lock : k # l => value'[k] = value[k]
    BY <1>1, <1>3, <1>5, <2>3 DEF TypeOK, SemaId
  <2>5. \A t \in Thread, k \in Lock : Owns(t, k)' <=> (Owns(t, k) /\ k # l)
    <3>1. ASSUME NEW t \in Thread, NEW k \in Lock, t # me
          PROVE  Owns(t, k)' <=> (Owns(t, k) /\ k # l)
      <4>1. Owns(t, k)' <=> Owns(t, k)
        BY <1>2, <1>4, <2>1, <3>1, Zenon DEF Owns
      <4> QED BY <2>3, <3>1, <4>1, Zenon
    <3>2. ASSUME NEW k \in Lock PROVE Owns(me, k)' <=> (Owns(me, k) /\ k # l)
      BY <1>2, <2>2, ThreadsAssumption, Zenon DEF Owns
    <3> QED BY <3>1, <3>2
  <2>6. MutualExclusion'
    <3> SUFFICES ASSUME NEW k \in Lock
                 PROVE  /\ value'[k] \in {0, 1}
                        /\ value'[k] = 1 => \A t \in Thread : ~Owns(t, k)'
                        /\ value'[k] = 0 => \E t \in Thread : Owns(t, k)'
                        /\ \A t, u \in Thread : Owns(t, k)' /\ Owns(u, k)' => t = u
      BY Zenon DEF MutualExclusion
    <3>1. CASE k = l
      BY <2>4, <2>5, <3>1, SMTT(60)
    <3>2. CASE k # l
      BY <1>1, <2>4, <2>5, <3>2, Zenon DEF MutualExclusion
    <3> QED BY <3>1, <3>2
  <2>7. HolderInv'
    BY <1>1, <1>2, <1>3, <1>4, SMTT(60) DEF HolderInv
  <2> QED BY <2>6, <2>7
<1> QED BY <1>5, <1>6, <1>7, <1>8, <1>9 DEF IInv

-----------------------------------------------------------------------------
(***************************************************************************)
(* sema_down                                                               *)
(***************************************************************************)

\* Where a thread calls sema_down, or takes another turn of its loop.
DownContext(s) ==
  /\ s \in SemaId
  /\ \/ intr = "ON" /\ pc[current] \in {"run", "booted", "cw_down", "cw_acq"}
     \/ intr = "OFF" /\ pc[current] = "down"
  /\ s \in Thread => s = current /\ arg[current] \in Lock
  /\ idle_thread = NULL => s = IdleStarted

\* sema_down on a semaphore of value 0: the caller joins the semaphore's list
\* and another thread runs.
LEMMA DownBlocks ==
  ASSUME IInv, NEW s, DownContext(s), sema_down(s), value[s] = 0
  PROVE  IInv'
<1> DEFINE st == [status EXCEPT ![current] = "BLOCKED"]
<1>1. TypeOK /\ FrameInv /\ BootInv /\ ElemExclusive /\ NoThreadForgotten
      /\ HolderInv /\ MutualExclusion
  BY Zenon DEF IInv
<1>2. /\ sem' = [sem EXCEPT ![current] = s]
      /\ waiters' = [waiters EXCEPT ![s] = Append(@, current)]
      /\ schedule(st, ready_list)
      /\ pc' = [pc EXCEPT ![current] = "down"]
      /\ UNCHANGED <<value, idle_thread, holder, cond_waiters, arg>>
  BY <1>1 DEF sema_down, thread_block, Goto, TypeOK, DownContext
<1>3. /\ s \in SemaId
      /\ pc[current] \in {"run", "booted", "cw_down", "cw_acq", "down"}
      /\ s \in Thread => s = current /\ arg[current] \in Lock
      /\ idle_thread = NULL => s = IdleStarted
  BY Zenon DEF DownContext
<1>4. /\ current \in Thread /\ status[current] = "RUNNING" /\ current # Idle
      /\ current \notin Elems(ready_list)
      /\ st \in [Thread -> Status] /\ ready_list \in Seq(Thread) /\ NoDuplicates(ready_list)
  <2>1. current \in Thread /\ status[current] = "RUNNING"
    BY <1>1, Zenon DEF TypeOK, NoThreadForgotten
  <2>2. current # Idle
    BY <1>1, <1>3, <2>1 DEF FrameInv, FrameOf, IdleFrame, IdleLabel
  <2> QED BY <1>1, <2>1, <2>2, Zenon DEF TypeOK, ElemExclusive, Status
<1>5. /\ ready_list # <<>> \/ idle_thread = Idle
      /\ idle_thread = NULL =>
           current = Main /\ ready_list = <<Idle>> /\ pc[Main] = "booted" /\ pc[Idle] = "idle0"
  <2>1. idle_thread = NULL \/ idle_thread = Idle
    BY <1>1, Zenon DEF TypeOK
  <2>2. ASSUME idle_thread = NULL
        PROVE  current = Main /\ ready_list = <<Idle>> /\ pc[Main] = "booted" /\ pc[Idle] = "idle0"
    BY <1>1, <1>3, <1>4, <2>2, Zenon DEF BootInv
  <2> QED BY <2>1, <2>2
<1>6. /\ current' \in Thread /\ current' # current
      /\ ready_list # <<>> => current' = Head(ready_list) /\ current' \in Elems(ready_list)
      /\ ready_list = <<>> => current' = Idle
      /\ ready_list' \in Seq(Thread)
      /\ NoDuplicates(ready_list')
      /\ Elems(ready_list') = Elems(ready_list) \ {current'}
      /\ status' \in [Thread -> Status]
      /\ status'[current'] = "RUNNING"
      /\ \A t \in Thread : t # current' =>
           status'[t] = IF st[t] = "DYING" /\ t # Main THEN "FREE" ELSE st[t]
      /\ thread_ticks' \in 0 .. TIME_SLICE - 1
      /\ intr' \in {"ON", "OFF"}
      /\ intr' = "OFF" <=> pc[current'] = "down"
  <2> HIDE DEF st
  <2> QED BY <1>2, <1>4, <1>5, Schedule, ZenonT(60)
<1>7. /\ \A t \in Thread : st[t] = IF t = current THEN "BLOCKED" ELSE status[t]
      /\ \A t \in Thread : t # current => pc'[t] = pc[t] /\ sem'[t] = sem[t]
      /\ pc'[current] = "down" /\ sem'[current] = s
      /\ pc' \in [Thread -> Label] /\ sem' \in [Thread -> SemaId \cup {NULL}]
  BY <1>1, <1>2, <1>3, <1>4, Zenon DEF TypeOK, Label
<1> HIDE DEF st
<1>8. /\ status'[current] = "BLOCKED"
      /\ \A t \in Thread : t # current /\ t # current' => status'[t] = status[t]
  <2>1. \A t \in Thread : status[t] = "DYING" => t = Main
    BY <1>1, Zenon DEF FrameInv, FrameOf, IdleFrame
  <2> QED BY <1>4, <1>6, <1>7, <2>1, ZenonT(60)
<1>9. /\ waiters' \in [SemaId -> Seq(Thread)]
      /\ \A q \in SemaId : q # s => waiters'[q] = waiters[q]
      /\ Elems(waiters'[s]) = Elems(waiters[s]) \cup {current}
      /\ NoDuplicates(waiters'[s])
  <2>1. /\ waiters[s] \in Seq(Thread) /\ NoDuplicates(waiters[s])
        /\ current \notin Elems(waiters[s])
    BY <1>1, <1>3, <1>4, ZenonT(60) DEF TypeOK, ElemExclusive
  <2>2. Append(waiters[s], current) \in Seq(Thread)
    BY <1>4, <2>1, PushBack, Zenon
  <2>3. /\ waiters' \in [SemaId -> Seq(Thread)]
        /\ waiters'[s] = Append(waiters[s], current)
        /\ \A q \in SemaId : q # s => waiters'[q] = waiters[q]
    BY <1>1, <1>2, <1>3, <2>2, Zenon DEF TypeOK
  <2> QED BY <1>4, <2>1, <2>3, PushBack, SMTT(60)
<1>10. TypeOK'
  BY <1>1, <1>2, <1>6, <1>7, <1>9, Zenon DEF TypeOK
<1>11. FrameInv'
  <2>1. /\ status[current'] # "FREE"
        /\ \A t \in Thread : /\ status'[t] = "FREE" => status[t] = "FREE" /\ t # current
                             /\ status'[t] = "DYING" => status[t] = "DYING"
                             /\ pc'[t] = pc[t] \/ t = current
        /\ idle_thread = Idle => status'[Idle] # "FREE"
        /\ status'[Idle] # "FREE" => status[Idle] # "FREE"
    <3>1. idle_thread = Idle => status[Idle] # "FREE"
      BY <1>1, Zenon DEF FrameInv, FrameOf, IdleFrame
    <3>2. status[current'] # "FREE"
      BY <1>1, <1>5, <1>6, <3>1, Zenon DEF ElemExclusive
    <3> QED BY <1>4, <1>6, <1>7, <1>8, <3>1, <3>2, ThreadsAssumption, Zenon
  <2>2. \A t \in Thread : pc[t] # "boot"
    BY <1>1, <1>3, Zenon DEF FrameInv, FrameOf, IdleFrame
  <2>3. pc'[Idle] = pc[Idle]
    BY <1>4, <1>7, ThreadsAssumption, Zenon
  <2>4. pc'[current'] = pc[current']
    BY <1>6, <1>7
  <2>5. ASSUME NEW t \in Thread
        PROVE  FrameOf(t)'
    <3>1. CASE t = current
      <4>1. pc'[t] = "down" /\ sem'[t] = s /\ status'[t] = "BLOCKED" /\ arg'[t] = arg[t]
        BY <1>2, <1>7, <1>8, <3>1, Zenon
      <4> QED BY <1>3, <3>1, <4>1, Zenon DEF FrameOf, IdleLabel
    <3>2. CASE t # current
      <4>1. pc'[t] = pc[t] /\ sem'[t] = sem[t] /\ arg'[t] = arg[t]
        BY <1>2, <1>7, <3>2
      <4>2. FrameOf(t)
        BY <1>1, Zenon DEF FrameInv
      <4> QED BY <2>1, <2>2, <4>1, <4>2, SameFrame, Zenon
    <3> QED BY <3>1, <3>2, Zenon
  <2>6. IdleFrame'
    <3>1. IdleFrame /\ pc[current'] # "boot"
      BY <1>1, <1>6, <2>2, Zenon DEF FrameInv
    <3> QED BY <1>2, <1>6, <2>1, <2>3, <2>4, <3>1, ZenonT(60) DEF IdleFrame
  <2> QED BY <2>5, <2>6, Zenon DEF FrameInv
<1>12. BootInv'
  <2> SUFFICES ASSUME idle_thread = NULL PROVE BootInv'
    BY <1>2, Zenon DEF BootInv
  <2>1. current' = Idle /\ ready_list' = <<>>
    BY <1>2, <1>5, ShortLists, ThreadsAssumption, ZenonT(60) DEF schedule, next_thread_to_run
  <2>2. pc'[Main] = "down" /\ pc'[Idle] = "idle0"
    BY <1>4, <1>5, <1>7, ThreadsAssumption
  <2>3. \A q \in SemaId \ {IdleStarted} : waiters'[q] = <<>>
    BY <1>1, <1>3, <1>9, Zenon DEF BootInv
  <2>4. value'[IdleStarted] = 0
    BY <1>1, <1>2, Zenon DEF BootInv
  <2> QED BY <2>1, <2>2, <2>3, <2>4, Zenon DEF BootInv
<1>13. ElemExclusive'
  <2>1. \A t \in Elems(ready_list') : status'[t] = "READY"
    BY <1>1, <1>4, <1>6, <1>8, SMTT(60) DEF ElemExclusive, Elems
  <2>2. ASSUME NEW q \in SemaId, NEW t \in Elems(waiters'[q])
        PROVE  status'[t] = "BLOCKED" /\ pc'[t] = "down" /\ sem'[t] = q
    <3>1. CASE t = current
      <4>1. q = s
        BY <1>1, <1>4, <1>9, <2>2, <3>1, Zenon DEF ElemExclusive
      <4> QED BY <1>7, <1>8, <3>1, <4>1
    <3>2. CASE t # current
      <4>1. t \in Elems(waiters[q])
        BY <1>9, <2>2, <3>2, Zenon
      <4>2. t \in Thread /\ status[t] = "BLOCKED" /\ pc[t] = "down" /\ sem[t] = q
        BY <1>1, <4>1, SMTT(60) DEF ElemExclusive, TypeOK, Elems
      <4>3. t # Idle
        BY <1>1, <4>2, Zenon DEF FrameInv, FrameOf, IdleFrame, IdleLabel
      <4>4. t # current'
        BY <1>1, <1>6, <4>2, <4>3, Zenon DEF ElemExclusive
      <4> QED BY <1>7, <1>8, <3>2, <4>2, <4>4, Zenon
    <3> QED BY <3>1, <3>2
  <2>3. \A q \in SemaId : NoDuplicates(waiters'[q])
    BY <1>1, <1>9, Zenon DEF ElemExclusive
  <2> QED BY <1>6, <2>1, <2>2, <2>3, Zenon DEF ElemExclusive
<1>14. NoThreadForgotten'
  <2> SUFFICES ASSUME NEW t \in Thread
               PROVE  /\ status'[t] = "RUNNING" <=> t = current'
                      /\ status'[t] = "READY" /\ t # idle_thread => t \in Elems(ready_list')
                      /\ status'[t] = "BLOCKED" /\ t # idle_thread =>
                           sem'[t] \in SemaId /\ t \in Elems(waiters'[sem'[t]])
    BY <1>2, Zenon DEF NoThreadForgotten
  <2>1. CASE t = current
    BY <1>3, <1>6, <1>7, <1>8, <1>9, <2>1, ZenonT(60)
  <2>2. CASE t # current
    <3>1. \A q \in SemaId : t \in Elems(waiters[q]) => t \in Elems(waiters'[q])
      BY <1>9, <2>2, Zenon
    <3>2. sem'[t] = sem[t]
      BY <1>7, <2>2, Zenon
    <3>3. /\ status[t] = "RUNNING" <=> t = current
          /\ status[t] = "READY" /\ t # idle_thread => t \in Elems(ready_list)
          /\ status[t] = "BLOCKED" /\ t # idle_thread =>
               sem[t] \in SemaId /\ t \in Elems(waiters[sem[t]])
      BY <1>1 DEF NoThreadForgotten
    <3> QED BY <1>6, <1>8, <2>2, <3>1, <3>2, <3>3, Zenon
  <2> QED BY <2>1, <2>2, Zenon
<1>15. HolderInv' /\ MutualExclusion'
  <2>1. \A t \in Thread, l \in Lock :
          /\ (pc'[t] = "own" /\ sem'[t] = l) <=> (pc[t] = "own" /\ sem[t] = l)
          /\ (pc'[t] \in {"rel", "cw_rel"}) <=> (pc[t] \in {"rel", "cw_rel"})
    BY <1>3, <1>4, <1>7, Zenon
  <2>2. \A t \in Thread, l \in Lock : Owns(t, l)' <=> Owns(t, l)
    BY <1>2, <2>1, Zenon DEF Owns
  <2>3. MutualExclusion'
    BY <1>1, <1>2, <2>2, Zenon DEF MutualExclusion
  <2>4. HolderInv'
    BY <1>1, <1>2, <2>1 DEF HolderInv
  <2> QED BY <2>3, <2>4, Zenon
<1> QED BY <1>10, <1>11, <1>12, <1>13, <1>14, <1>15, Zenon DEF IInv

\* sema_down on a semaphore of positive value: the caller takes a unit and goes
\* on with interrupts enabled.  If the semaphore is a lock's, the lock was free
\* and now is the caller's.
LEMMA DownTakes ==
  ASSUME IInv, NEW s, DownContext(s), sema_down(s), value[s] > 0
  PROVE  IInv'
<1>1. TypeOK /\ FrameInv /\ BootInv /\ HolderInv /\ MutualExclusion /\ NoThreadForgotten
  BY DEF IInv
<1>2. /\ s \in SemaId
      /\ pc[current] \in {"run", "booted", "cw_down", "cw_acq", "down"}
      /\ s \in Thread => s = current /\ arg[current] \in Lock
      /\ idle_thread = NULL => s = IdleStarted
  BY Zenon DEF DownContext
<1>3. /\ sem' = [sem EXCEPT ![current] = IF s \in Lock THEN s ELSE NULL]
      /\ value' = [value EXCEPT ![s] = @ - 1]
      /\ intr' = "ON"
      /\ pc' = [pc EXCEPT ![current] = After(s)]
      /\ UNCHANGED <<status, ready_list, current, thread_ticks, waiters, idle_thread,
                     holder, cond_waiters, arg>>
  BY <1>1, <1>2 DEF sema_down, Goto, TypeOK
<1>4. /\ current \in Thread /\ status[current] = "RUNNING" /\ current # Idle
      /\ idle_thread # NULL
  <2>1. current \in Thread /\ status[current] = "RUNNING"
    BY <1>1, Zenon DEF TypeOK, NoThreadForgotten
  <2>2. current # Idle
    BY <1>1, <1>2, <2>1, Zenon DEF FrameInv, FrameOf, IdleFrame, IdleLabel
  <2>3. idle_thread # NULL
    BY <1>1, <1>2, SMTT(60) DEF BootInv
  <2> QED BY <2>1, <2>2, <2>3, Zenon
<1>5. /\ pc' \in [Thread -> Label] /\ sem' \in [Thread -> SemaId \cup {NULL}]
      /\ \A t \in Thread : t # current => pc'[t] = pc[t] /\ sem'[t] = sem[t]
      /\ pc'[current] = After(s)
      /\ sem'[current] = IF s \in Lock THEN s ELSE NULL
      /\ value' \in [SemaId -> Nat] /\ value'[s] = value[s] - 1
      /\ \A q \in SemaId : q # s => value'[q] = value[q]
  BY <1>1, <1>2, <1>3, <1>4, SMTT(60) DEF TypeOK, Label, After
<1>6. TypeOK'
  BY <1>1, <1>3, <1>5 DEF TypeOK
<1>7. FrameInv'
  <2>1. \A t \in Thread : pc[t] # "boot"
    BY <1>1, <1>2, Zenon DEF FrameInv, FrameOf, IdleFrame
  <2>2. pc'[Idle] = pc[Idle]
    BY <1>4, <1>5, ThreadsAssumption
  <2>3. ASSUME NEW t \in Thread
        PROVE  FrameOf(t)'
    <3>1. FrameOf(t)
      BY <1>1, Zenon DEF FrameInv
    <3>2. CASE t = current
      <4>1. /\ pc'[t] = After(s) /\ sem'[t] = IF s \in Lock THEN s ELSE NULL
            /\ status'[t] = "RUNNING" /\ arg'[t] = arg[t]
        BY <1>3, <1>4, <1>5, <3>2, ZenonT(60)
      <4> QED BY <1>2, <3>2, <4>1, Zenon DEF FrameOf, IdleLabel, After
    <3>3. CASE t # current
      BY <1>3, <1>5, <2>1, <3>1, <3>3, SameFrame, Zenon
    <3> QED BY <3>2, <3>3
  <2>4. pc'[current] \notin {"boot", "down"}
    BY <1>5, Zenon DEF After
  <2>5. IdleFrame'
    <3>1. IdleFrame
      BY <1>1, Zenon DEF FrameInv
    <3> QED BY <1>3, <2>2, <2>4, <3>1 DEF IdleFrame
  <2> QED BY <2>3, <2>5, Zenon DEF FrameInv
<1>8. BootInv'
  BY <1>3, <1>4, Zenon DEF BootInv
<1>9. ElemExclusive' /\ NoThreadForgotten'
  <2>1. \A t \in Thread : status[t] = "BLOCKED" => pc'[t] = pc[t] /\ sem'[t] = sem[t]
    BY <1>4, <1>5
  <2> QED BY <1>3, <2>1, QuietStep, Zenon
<1>10. HolderInv' /\ MutualExclusion'
  <2>1. PICK me \in Thread : me = current
    BY <1>4
  <2>2. \A l \in Lock : l \in SemaId
    BY Zenon DEF SemaId
  <2>3. \A t \in Thread, l \in Lock : t # me =>
          /\ Owns(t, l)' <=> Owns(t, l)
          /\ pc'[t] = pc[t] /\ sem'[t] = sem[t]
    BY <1>3, <1>5, <2>1, Zenon DEF Owns
  <2>4. CASE s \notin Lock
    <3>1. /\ pc[me] \notin {"own", "rel", "cw_rel"}
          /\ pc'[me] \notin {"own", "rel", "cw_rel", "cw_release"}
      BY <1>2, <1>5, <2>1, <2>4, Zenon DEF After
    <3>2. \A l \in Lock : value'[l] = value[l]
      BY <1>5, <2>2, <2>4, Zenon
    <3>3. ASSUME NEW t \in Thread, t # me
          PROVE  pc'[t] = pc[t] /\ sem'[t] = sem[t] /\ arg'[t] = arg[t]
      BY <1>3, <1>5, <2>1, <3>3, Zenon
    <3>4. HolderInv /\ MutualExclusion /\ holder' = holder
      BY <1>1, <1>3
    <3> QED BY <3>1, <3>2, <3>3, <3>4, SameOwners, ZenonT(60)
  <2>5. CASE s \in Lock
    <3>1. value[s] = 1 /\ \A t \in Thread : ~Owns(t, s)
      BY <1>1, <2>5, SMTT(60) DEF MutualExclusion
    <3>2. holder[s] = NULL
      BY <1>1, <2>5, <3>1, Zenon DEF TypeOK, Owns
    <3>3. value'[s] = 0 /\ \A l \in Lock : l # s => value'[l] = value[l]
      BY <1>5, <2>2, <3>1, SMTT(60)
    <3>4. /\ pc[me] \notin {"own", "rel", "cw_rel", "cw_release"}
          /\ pc'[me] = "own" /\ sem'[me] = s
      BY <1>2, <1>5, <2>1, <2>5, Zenon DEF After
    <3>5. \A l \in Lock : Owns(me, l)' <=> (Owns(me, l) \/ l = s)
      BY <1>3, <3>4, Zenon DEF Owns
    <3>6. MutualExclusion'
      <4> SUFFICES ASSUME NEW k \in Lock
                   PROVE  /\ value'[k] \in {0, 1}
                          /\ value'[k] = 1 => \A t \in Thread : ~Owns(t, k)'
                          /\ value'[k] = 0 => \E t \in Thread : Owns(t, k)'
                          /\ \A t, u \in Thread : Owns(t, k)' /\ Owns(u, k)' => t = u
        BY Zenon DEF MutualExclusion
      <4>1. CASE k = s
        BY <2>3, <3>1, <3>3, <3>5, <4>1, SMTT(60)
      <4>2. CASE k # s
        BY <1>1, <2>3, <3>3, <3>5, <4>2, SMTT(60) DEF MutualExclusion
      <4> QED BY <4>1, <4>2, Zenon
    <3>7. HolderInv'
      BY <1>1, <1>3, <2>3, <3>2, <3>4, SMTT(60) DEF HolderInv
    <3> QED BY <3>6, <3>7, Zenon
  <2> QED BY <2>4, <2>5
<1> QED BY <1>6, <1>7, <1>8, <1>9, <1>10 DEF IInv

\* sema_down, from wherever the primitives call it: it blocks or takes a unit.
LEMMA DownStep ==
  ASSUME IInv, NEW s, DownContext(s), sema_down(s)
  PROVE  IInv'
<1>1. value[s] = 0 \/ value[s] > 0
  BY Zenon DEF sema_down
<1> QED BY <1>1, DownBlocks, DownTakes

-----------------------------------------------------------------------------
(***************************************************************************)
(* Locks and condition variables                                           *)
(***************************************************************************)

\* A step of a thread inside the primitives that moves no thread: it changes its
\* own frame, the value of a semaphore, a holder or a condition's list.
LEMMA LocalStep ==
  ASSUME IInv, intr = "ON", pc[current] \in {"run", "own", "cw_release", "bcast"},
         UNCHANGED <<sched, waiters>>,
         value' \in [SemaId -> Nat],
         holder' \in [Lock -> Thread \cup {NULL}],
         cond_waiters' \in [Cond -> Seq(Thread)],
         pc' \in [Thread -> Label],
         sem' \in [Thread -> SemaId \cup {NULL}],
         arg' \in [Thread -> Lock \cup Cond \cup {NULL}],
         \A t \in Thread : t # current =>
           pc'[t] = pc[t] /\ sem'[t] = sem[t] /\ arg'[t] = arg[t],
         pc'[current] \in {"run", "own", "rel", "cw_release", "cw_rel", "bcast"},
         pc'[current] = "own" => sem'[current] \in Lock,
         pc'[current] \in {"rel", "cw_release", "cw_rel"} => arg'[current] \in Lock,
         pc'[current] = "bcast" => arg'[current] \in Cond,
         HolderInv', MutualExclusion'
  PROVE  IInv'
<1>1. TypeOK /\ FrameInv /\ NoThreadForgotten
  BY Zenon DEF IInv
<1>2. /\ current \in Thread /\ status[current] = "RUNNING" /\ current # Idle
      /\ idle_thread = Idle
  <2>1. current \in Thread /\ status[current] = "RUNNING"
    BY <1>1, Zenon DEF TypeOK, NoThreadForgotten
  <2>2. current # Idle
    BY <1>1, <2>1, Zenon DEF FrameInv, FrameOf, IdleFrame, IdleLabel
  <2> QED BY <2>1, <2>2, Booted, Zenon
<1>3. TypeOK'
  BY <1>1, Zenon DEF TypeOK, sched
<1>4. FrameInv'
  <2>1. \A t \in Thread : pc[t] # "boot"
    BY <1>1, ZenonT(60) DEF FrameInv, FrameOf, IdleFrame
  <2>2. ASSUME NEW t \in Thread
        PROVE  /\ pc'[t] = "own" => sem'[t] \in Lock
               /\ pc'[t] = "down" => sem'[t] \in SemaId
               /\ pc'[t] = "down" /\ sem'[t] \in Thread => sem'[t] = t /\ arg'[t] \in Lock
               /\ pc'[t] \in {"rel", "cw_release", "cw_rel", "cw_down", "cw_acq"} => arg'[t] \in Lock
               /\ pc'[t] = "bcast" => arg'[t] \in Cond
               /\ pc'[t] \in IdleLabel => t = Idle
               /\ pc'[t] \in {"boot", "booted"} => t = Main
               /\ pc'[t] # "boot"
               /\ status[t] = "FREE" => pc'[t] = "run"
    <3>1. CASE t = current
      BY <1>2, <3>1, ZenonT(60) DEF IdleLabel
    <3>2. CASE t # current
      BY <1>1, <2>1, <3>2, SMTT(60) DEF FrameInv, FrameOf, IdleFrame, IdleLabel
    <3> QED BY <3>1, <3>2, ZenonT(60)
  <2>3. pc'[Idle] = pc[Idle]
    BY <1>2, ThreadsAssumption, Zenon
  <2> QED BY <1>1, <2>2, <2>3, ZenonT(60) DEF FrameInv, FrameOf, IdleFrame, IdleLabel, sched
<1>5. BootInv'
  BY <1>2, ThreadsAssumption, Zenon DEF BootInv, sched
<1>6. ElemExclusive' /\ NoThreadForgotten'
  <2>1. \A t \in Thread : status[t] = "BLOCKED" => pc'[t] = pc[t] /\ sem'[t] = sem[t]
    BY <1>2, ZenonT(60)
  <2> QED BY <2>1, QuietStep, Zenon DEF sched
<1> QED BY <1>3, <1>4, <1>5, <1>6, Zenon DEF IInv

\* The types of what the running thread's frame and locks may be set to.
LEMMA RunningTypes ==
  ASSUME IInv
  PROVE  /\ current \in Thread
         /\ value \in [SemaId -> Nat] /\ waiters \in [SemaId -> Seq(Thread)]
         /\ holder \in [Lock -> Thread \cup {NULL}]
         /\ cond_waiters \in [Cond -> Seq(Thread)]
         /\ pc \in [Thread -> Label]
         /\ sem \in [Thread -> SemaId \cup {NULL}]
         /\ arg \in [Thread -> Lock \cup Cond \cup {NULL}]
         /\ Lock \subseteq SemaId /\ Sema \subseteq SemaId /\ Thread \subseteq SemaId
         /\ {"run", "own", "rel", "cw_release", "cw_rel", "bcast"} \subseteq Label
         /\ HolderInv /\ MutualExclusion
BY Zenon DEF IInv, TypeOK, SemaId, Label

\* sema_try_down takes a unit or fails, without blocking.
LEMMA TryDownStep ==
  ASSUME IInv, NEW s \in Sema, SemaTryDown(s)
  PROVE  IInv'
<1>1. /\ intr = "ON" /\ pc[current] = "run" /\ value[s] > 0
      /\ value' = [value EXCEPT ![s] = @ - 1]
      /\ UNCHANGED <<sched, waiters, holder, cond_waiters, pc, sem, arg>>
  BY DEF SemaTryDown, sema_try_down, At, frames
<1>2. value' \in [SemaId -> Nat] /\ \A l \in Lock : value'[l] = value[l]
  BY <1>1, RunningTypes, ThreadsAssumption, SMTT(60)
<1>3. HolderInv' /\ MutualExclusion'
  BY <1>1, <1>2, RunningTypes, SameOwners, Zenon
<1> QED BY <1>1, <1>2, <1>3, RunningTypes, LocalStep, Zenon

\* The holder is recorded by the thread that took the semaphore.
LEMMA SetHolderStep ==
  ASSUME IInv, SetHolder
  PROVE  IInv'
<1>1. /\ intr = "ON" /\ pc[current] = "own"
      /\ holder' = [holder EXCEPT ![sem[current]] = current]
      /\ pc' = [pc EXCEPT ![current] = "run"]
      /\ sem' = [sem EXCEPT ![current] = NULL]
      /\ arg' = [arg EXCEPT ![current] = NULL]
      /\ UNCHANGED <<sched, value, waiters, cond_waiters>>
  BY Zenon DEF SetHolder, At, Goto
<1>2. PICK l \in Lock : l = sem[current]
  BY <1>1, RunningTypes, Zenon DEF IInv, FrameInv, FrameOf, IdleFrame
<1>3. PICK me \in Thread : me = current
  BY RunningTypes
<1>4. pc[me] = "own" /\ sem[me] = l
  BY <1>1, <1>2, <1>3, Zenon
<1>5. /\ pc' \in [Thread -> Label]
      /\ sem' \in [Thread -> SemaId \cup {NULL}]
      /\ arg' \in [Thread -> Lock \cup Cond \cup {NULL}]
      /\ holder' \in [Lock -> Thread \cup {NULL}]
      /\ pc'[me] = "run" /\ holder'[l] = me
      /\ \A k \in Lock : k # l => holder'[k] = holder[k]
      /\ \A t \in Thread : t # me => pc'[t] = pc[t] /\ sem'[t] = sem[t] /\ arg'[t] = arg[t]
  BY <1>1, <1>2, <1>3, RunningTypes, ZenonT(60)
<1>6. value[l] = 0 /\ \A t \in Thread : Owns(t, l) <=> t = me
  BY <1>2, <1>4, RunningTypes, SMTT(60) DEF MutualExclusion, Owns
<1>7. \A t \in Thread, k \in Lock : Owns(t, k)' <=> Owns(t, k)
  <2>1. ASSUME NEW t \in Thread PROVE Owns(t, l)' <=> t = me
    BY <1>2, <1>5, <1>6, Zenon DEF Owns
  <2>2. ASSUME NEW t \in Thread, NEW k \in Lock, k # l PROVE Owns(t, k)' <=> Owns(t, k)
    BY <1>4, <1>5, <2>2, Zenon DEF Owns
  <2> QED BY <1>6, <2>1, <2>2, Zenon
<1>8. MutualExclusion'
  BY <1>1, <1>7, RunningTypes, Zenon DEF MutualExclusion
<1>9. HolderInv'
  <2>1. ASSUME NEW k \in Lock, NEW t \in Thread,
               \/ pc'[t] = "own" /\ sem'[t] = k
               \/ pc'[t] \in {"rel", "cw_rel"} /\ arg'[t] = k
        PROVE  holder'[k] = NULL
    <3>1. t # me /\ Owns(t, k)
      BY <1>5, <2>1, Zenon DEF Owns
    <3>2. k # l
      BY <1>6, <3>1, Zenon
    <3> QED BY <1>5, <2>1, <3>1, <3>2, RunningTypes, SMTT(60) DEF HolderInv
  <2>2. ASSUME NEW t \in Thread, pc'[t] = "cw_release" PROVE holder'[arg'[t]] = t
    <3>0. t # me /\ pc[t] = "cw_release" /\ arg'[t] = arg[t]
      BY <1>5, <2>2, Zenon
    <3>1. t # me /\ holder[arg[t]] = t /\ arg'[t] = arg[t] /\ arg[t] \in Lock
      BY <3>0, RunningTypes, Zenon DEF HolderInv, IInv, FrameInv, FrameOf, IdleFrame
    <3>2. arg[t] # l
      BY <1>6, <3>1 DEF Owns
    <3> QED BY <1>5, <3>1, <3>2, ZenonT(60)
  <2> QED BY <2>1, <2>2, Zenon DEF HolderInv
<1>10. UNCHANGED <<sched, waiters, cond_waiters, value>>
  BY <1>1
<1> QED BY <1>1, <1>3, <1>5, <1>8, <1>9, <1>10, RunningTypes, LocalStep, Zenon

\* lock_try_acquire takes a free lock or fails, without blocking.
LEMMA TryAcquireStep ==
  ASSUME IInv, NEW l \in Lock, LockTryAcquire(l)
  PROVE  IInv'
<1>1. /\ intr = "ON" /\ pc[current] = "run" /\ value[l] > 0
      /\ value' = [value EXCEPT ![l] = @ - 1]
      /\ pc' = [pc EXCEPT ![current] = "own"]
      /\ sem' = [sem EXCEPT ![current] = l]
      /\ UNCHANGED <<sched, waiters, holder, cond_waiters, arg>>
  BY Zenon DEF LockTryAcquire, sema_try_down, At, Goto
<1>2. PICK me \in Thread : me = current
  BY RunningTypes, Zenon
<1>3. /\ pc' \in [Thread -> Label]
      /\ sem' \in [Thread -> SemaId \cup {NULL}]
      /\ value' \in [SemaId -> Nat] /\ value'[l] = value[l] - 1
      /\ \A k \in Lock : k # l => value'[k] = value[k]
      /\ pc[me] = "run" /\ pc'[me] = "own" /\ sem'[me] = l
      /\ \A t \in Thread : t # me => pc'[t] = pc[t] /\ sem'[t] = sem[t]
  BY <1>1, <1>2, RunningTypes, SMTT(60)
<1>4. value[l] = 1 /\ (\A t \in Thread : ~Owns(t, l)) /\ holder[l] = NULL
  <2>1. value[l] = 1 /\ \A t \in Thread : ~Owns(t, l)
    BY <1>1, RunningTypes, SMTT(60) DEF MutualExclusion
  <2>2. holder[l] = NULL
    BY <2>1, RunningTypes, ZenonT(60) DEF Owns
  <2> QED BY <2>1, <2>2, Zenon
<1>5. \A t \in Thread, k \in Lock :
        Owns(t, k)' <=> (Owns(t, k) \/ (t = me /\ k = l))
  BY <1>1, <1>3, ZenonT(60) DEF Owns
<1>6. MutualExclusion'
  <2> SUFFICES ASSUME NEW k \in Lock
               PROVE  /\ value'[k] \in {0, 1}
                      /\ value'[k] = 1 => \A t \in Thread : ~Owns(t, k)'
                      /\ value'[k] = 0 => \E t \in Thread : Owns(t, k)'
                      /\ \A t, u \in Thread : Owns(t, k)' /\ Owns(u, k)' => t = u
    BY Zenon DEF MutualExclusion
  <2>1. CASE k = l
    BY <1>3, <1>4, <1>5, <2>1, SMTT(60)
  <2>2. CASE k # l
    <3>1. MutualExclusion /\ value'[k] = value[k]
      BY <1>3, <2>2, RunningTypes, Zenon
    <3>2. \A t \in Thread : Owns(t, k)' <=> Owns(t, k)
      BY <1>5, <2>2, Zenon
    <3> QED BY <3>1, <3>2, Zenon DEF MutualExclusion
  <2> QED BY <2>1, <2>2, Zenon
<1>7. HolderInv'
  BY <1>1, <1>3, <1>4, RunningTypes, SMTT(60) DEF HolderInv
<1>8. arg' \in [Thread -> Lock \cup Cond \cup {NULL}] /\ cond_waiters' = cond_waiters
  BY <1>1, RunningTypes
<1> QED BY <1>1, <1>2, <1>3, <1>6, <1>7, <1>8, RunningTypes, LocalStep, ZenonT(60)

\* The first half of lock_release, called by itself or from cond_wait: the
\* holder is cleared, and the lock is still its owner's until the up.
LEMMA ClearHolder ==
  ASSUME IInv, NEW l \in Lock, holder[l] = current,
         intr = "ON", pc[current] \in {"run", "cw_release"},
         NEW x \in {"rel", "cw_rel"},
         holder' = [holder EXCEPT ![l] = NULL],
         pc' = [pc EXCEPT ![current] = x],
         arg' = [arg EXCEPT ![current] = l],
         UNCHANGED <<sched, value, waiters, cond_waiters, sem>>
  PROVE  IInv'
<1>1. PICK me \in Thread : me = current
  BY RunningTypes, Zenon
<1>2. /\ pc' \in [Thread -> Label]
      /\ arg' \in [Thread -> Lock \cup Cond \cup {NULL}]
      /\ holder' \in [Lock -> Thread \cup {NULL}]
      /\ holder[l] = me /\ holder'[l] = NULL
      /\ \A k \in Lock : k # l => holder'[k] = holder[k]
      /\ pc[me] \in {"run", "cw_release"} /\ pc'[me] \in {"rel", "cw_rel"} /\ arg'[me] = l
      /\ \A t \in Thread : t # me => pc'[t] = pc[t] /\ arg'[t] = arg[t]
  BY <1>1, RunningTypes, ZenonT(60)
<1>3. \A t \in Thread : Owns(t, l) <=> t = me
  BY <1>2, RunningTypes, SMTT(60) DEF MutualExclusion, Owns
<1>4. \A t \in Thread, k \in Lock : Owns(t, k)' <=> Owns(t, k)
  <2>1. ASSUME NEW t \in Thread, NEW k \in Lock, t # me PROVE Owns(t, k)' <=> Owns(t, k)
    <3>1. CASE k = l
      <4>1. holder[l] # t
        BY <1>2, <2>1, Zenon
      <4>2. holder'[l] # t
        BY <1>2, ThreadsAssumption, SMTT(60)
      <4> QED BY <1>2, <2>1, <3>1, <4>1, <4>2, ZenonT(60) DEF Owns
    <3>2. CASE k # l
      BY <1>2, <2>1, <3>2, Zenon DEF Owns
    <3> QED BY <3>1, <3>2
  <2>2. ASSUME NEW k \in Lock PROVE Owns(me, k)' <=> Owns(me, k)
    <3>1. CASE k = l
      BY <1>2, <3>1, Zenon DEF Owns
    <3>2. CASE k # l
      BY <1>2, <3>2, Zenon DEF Owns
    <3> QED BY <3>1, <3>2, Zenon
  <2> QED BY <2>1, <2>2
<1>5. MutualExclusion'
  BY <1>4, RunningTypes, Zenon DEF MutualExclusion
<1>6. HolderInv'
  BY <1>2, RunningTypes, SMTT(60) DEF HolderInv
<1> QED BY <1>1, <1>2, <1>5, <1>6, RunningTypes, LocalStep, ZenonT(60)

\* A thread in cond_wait still holds the condition's lock until it releases it.
LEMMA CondWaitReleaseStep ==
  ASSUME IInv, CondWaitRelease
  PROVE  IInv'
<1>1. /\ intr = "ON" /\ pc[current] = "cw_release"
      /\ holder' = [holder EXCEPT ![arg[current]] = NULL]
      /\ pc' = [pc EXCEPT ![current] = "cw_rel"]
      /\ UNCHANGED <<sched, value, waiters, cond_waiters, sem, arg>>
  BY Zenon DEF CondWaitRelease, At, Goto
<1>2. PICK l \in Lock : l = arg[current] /\ holder[l] = current
  BY <1>1, RunningTypes, ZenonT(60) DEF IInv, FrameInv, FrameOf, IdleFrame, HolderInv
<1>3. arg' = [arg EXCEPT ![current] = l]
  BY <1>1, <1>2, RunningTypes
<1> QED BY <1>1, <1>2, <1>3, ClearHolder, Zenon

\* lock_release clears the holder before the up.
LEMMA LockReleaseStep ==
  ASSUME IInv, NEW l \in Lock, LockRelease(l)
  PROVE  IInv'
<1>1. "rel" \in {"rel", "cw_rel"}
  BY Zenon
<1> QED BY <1>1, ClearHolder, Zenon DEF LockRelease, At, Goto

\* cond_wait initialises the semaphore in its own frame, on which nobody waits.
LEMMA CondWaitStep ==
  ASSUME IInv, NEW c \in Cond, CondWait(c)
  PROVE  IInv'
<1>1. /\ intr = "ON" /\ pc[current] = "run" /\ holder[CondLock[c]] = current
      /\ value' = [value EXCEPT ![current] = 0]
      /\ waiters' = [waiters EXCEPT ![current] = <<>>]
      /\ cond_waiters' = [cond_waiters EXCEPT ![c] = Append(@, current)]
      /\ arg' = [arg EXCEPT ![current] = CondLock[c]]
      /\ pc' = [pc EXCEPT ![current] = "cw_release"]
      /\ UNCHANGED <<sched, holder, sem>>
  BY Zenon DEF CondWait, At, Goto
<1>2. PICK me \in Thread : me = current
  BY RunningTypes, Zenon
<1>3. waiters' = waiters
  <2>1. waiters[me] \in Seq(Thread) /\ me \in SemaId
    BY RunningTypes, Zenon
  <2>2. \A t \in Elems(waiters[me]) : t \in Thread /\ pc[t] = "down" /\ sem[t] = me
    BY <2>1, SMTT(60) DEF IInv, ElemExclusive, Elems
  <2>3. \A t \in Elems(waiters[me]) : t = me
    BY <2>2, ZenonT(60) DEF IInv, FrameInv, FrameOf, IdleFrame
  <2>4. Elems(waiters[me]) = {}
    BY <1>1, <1>2, <2>2, <2>3, Zenon
  <2>5. waiters[me] = <<>>
    BY <2>1, <2>4, PopFront, Zenon
  <2> QED BY <1>1, <1>2, <2>1, <2>5, RunningTypes, Zenon
<1>4. CondLock[c] \in Lock
  BY ThreadsAssumption, Zenon
<1>5. /\ pc' \in [Thread -> Label]
      /\ arg' \in [Thread -> Lock \cup Cond \cup {NULL}]
      /\ value' \in [SemaId -> Nat]
      /\ \A l \in Lock : value'[l] = value[l]
      /\ pc[me] = "run" /\ pc'[me] = "cw_release" /\ arg'[me] = CondLock[c]
      /\ \A t \in Thread : t # me => pc'[t] = pc[t] /\ arg'[t] = arg[t]
  BY <1>1, <1>2, <1>4, RunningTypes, ThreadsAssumption, ZenonT(60)
<1>6. cond_waiters' \in [Cond -> Seq(Thread)]
  <2>1. cond_waiters[c] \in Seq(Thread) /\ Append(cond_waiters[c], current) \in Seq(Thread)
    BY RunningTypes, PushBack, Zenon
  <2> QED BY <1>1, <2>1, RunningTypes, Zenon
<1>7. \A t \in Thread, k \in Lock : Owns(t, k)' <=> Owns(t, k)
  BY <1>1, <1>5, Zenon DEF Owns
<1>8. MutualExclusion'
  <2> SUFFICES ASSUME NEW k \in Lock
               PROVE  /\ value'[k] \in {0, 1}
                      /\ value'[k] = 1 => \A t \in Thread : ~Owns(t, k)'
                      /\ value'[k] = 0 => \E t \in Thread : Owns(t, k)'
                      /\ \A t, u \in Thread : Owns(t, k)' /\ Owns(u, k)' => t = u
    BY Zenon DEF MutualExclusion
  <2>1. MutualExclusion /\ value'[k] = value[k]
    BY <1>5, RunningTypes, Zenon
  <2> QED BY <1>7, <2>1, Zenon DEF MutualExclusion
<1>9. HolderInv'
  BY <1>1, <1>2, <1>5, RunningTypes, SMTT(60) DEF HolderInv
<1>10. UNCHANGED <<sched, waiters>> /\ holder' = holder /\ sem' = sem
  BY <1>1, <1>3, Zenon
<1> QED BY <1>1, <1>2, <1>4, <1>5, <1>6, <1>8, <1>9, <1>10, RunningTypes, LocalStep, ZenonT(60)

\* cond_broadcast enters its loop over the waiters.
LEMMA BroadcastStep ==
  ASSUME IInv, NEW x \in {"run", "bcast"}, intr = "ON", pc[current] \in {"run", "bcast"},
         NEW y \in Cond \cup {NULL}, x = "bcast" => y \in Cond,
         pc' = [pc EXCEPT ![current] = x], arg' = [arg EXCEPT ![current] = y],
         UNCHANGED <<sched, synch, sem>>
  PROVE  IInv'
<1>1. PICK me \in Thread : me = current
  BY RunningTypes, Zenon
<1>2. /\ pc' \in [Thread -> Label]
      /\ arg' \in [Thread -> Lock \cup Cond \cup {NULL}]
      /\ pc[me] \in {"run", "bcast"} /\ pc'[me] = x /\ arg'[me] = y
      /\ \A t \in Thread : t # me => pc'[t] = pc[t] /\ arg'[t] = arg[t]
  BY <1>1, RunningTypes, Zenon
<1>3. value' = value /\ waiters' = waiters /\ holder' = holder /\ cond_waiters' = cond_waiters
  BY Zenon DEF synch
<1>4. \A t \in Thread, k \in Lock : Owns(t, k)' <=> Owns(t, k)
  BY <1>2, <1>3, ZenonT(60) DEF Owns
<1>5. MutualExclusion'
  BY <1>3, <1>4, RunningTypes, ZenonT(60) DEF MutualExclusion
<1>6. HolderInv'
  BY <1>2, <1>3, RunningTypes, SMTT(60) DEF HolderInv
<1> QED BY <1>1, <1>2, <1>3, <1>5, <1>6, RunningTypes, LocalStep, ZenonT(60)

\* cond_signal ups the semaphore of the first waiter, if there is one.
LEMMA SignalStep ==
  ASSUME IInv, NEW c \in Cond, intr = "ON", pc[current] \in {"run", "bcast"},
         cond_signal(c), UNCHANGED <<pc, sem, arg>>
  PROVE  IInv'
<1>1. CASE cond_waiters[c] = <<>>
  <2>1. UNCHANGED vars
    BY <1>1, Zenon DEF cond_signal, vars, frames
  <2> QED BY <2>1, Stutter
<1>2. CASE cond_waiters[c] # <<>>
  <2>1. /\ cond_waiters' = [cond_waiters EXCEPT ![c] = Tail(@)]
        /\ sema_up(Head(cond_waiters[c])) /\ holder' = holder
    BY <1>2, Zenon DEF cond_signal
  <2>2. /\ Head(cond_waiters[c]) \in Thread
        /\ Tail(cond_waiters[c]) \in Seq(Thread)
    BY <1>2, RunningTypes, PopFront, Zenon
  <2>3. cond_waiters' \in [Cond -> Seq(Thread)]
    BY <2>1, <2>2, RunningTypes, Zenon
  <2>4. Head(cond_waiters[c]) \in SemaId \ Lock /\ Head(cond_waiters[c]) # IdleStarted
    BY <2>2, ThreadsAssumption, Zenon DEF SemaId
  <2>5. EndHlt
    BY Zenon DEF EndHlt
  <2> QED BY <2>1, <2>3, <2>4, <2>5, OtherUpStep, Zenon
<1> QED BY <1>1, <1>2

-----------------------------------------------------------------------------
(***************************************************************************)
(* The theorems                                                            *)
(***************************************************************************)

\* Every call of sema_down is made from a place DownContext describes.
LEMMA DownContexts ==
  ASSUME IInv
  PROVE  /\ \A s \in Sema \cup Lock : At("run") => DownContext(s)
         /\ At("booted") => DownContext(IdleStarted)
         /\ intr = "OFF" /\ pc[current] = "down" => DownContext(sem[current])
         /\ At("cw_down") => DownContext(current)
         /\ At("cw_acq") => DownContext(arg[current])
<1>1. /\ current \in Thread
      /\ Sema \cup Lock \subseteq SemaId /\ Thread \subseteq SemaId /\ IdleStarted \in SemaId
      /\ (Sema \cup Lock) \cap Thread = {} /\ IdleStarted \notin Thread
      /\ idle_thread # NULL \/ pc[current] \in {"boot", "booted", "idle0"}
      /\ pc[current] = "down" => sem[current] \in SemaId
      /\ pc[current] = "down" /\ sem[current] \in Thread =>
           sem[current] = current /\ arg[current] \in Lock
      /\ pc[current] \in {"cw_down", "cw_acq"} => arg[current] \in Lock
  <2>1. idle_thread # NULL \/ pc[current] \in {"boot", "booted", "idle0"}
    BY Booted, ThreadsAssumption
  <2> QED BY <2>1, ThreadsAssumption, ZenonT(60) DEF IInv, TypeOK, FrameInv, FrameOf, IdleFrame, SemaId
<1> QED BY <1>1, ZenonT(60) DEF At, DownContext

\* Every step of the kernel keeps the inductive invariant.
LEMMA NextInvariant == IInv /\ [Next]_vars => IInv'
<1> SUFFICES ASSUME IInv, [Next]_vars PROVE IInv'
  OBVIOUS
<1>1. CASE Tick
  <2>1. CASE thread_ticks + 1 >= TIME_SLICE
    BY <1>1, <2>1, YieldStep, Zenon DEF Tick
  <2>2. CASE ~(thread_ticks + 1 >= TIME_SLICE)
    BY <1>1, <2>2, ShortTick, Zenon
  <2> QED BY <2>1, <2>2, Zenon
<1>2. CASE ThreadYield
  <2>1. EndHlt /\ UNCHANGED <<sem, arg>> /\ intr = "ON" /\ thread_yield
        /\ UNCHANGED <<idle_thread, synch>>
    BY <1>2, Zenon DEF ThreadYield, At, EndHlt, frames
  <2> QED BY <2>1, YieldStep, Zenon
<1>3. CASE ThreadExit
  BY <1>3, LeaveStep DEF ThreadExit, At, frames
<1>4. CASE ThreadStart
  BY <1>4, StartStep
<1>5. CASE IdleSetsItself
  BY <1>5, IdleSetsStep, Zenon
<1>6. CASE IdleBlocks
  BY <1>6, LeaveStep, Zenon DEF IdleBlocks, thread_block, At, Goto
<1>7. CASE IdleUps
  <2>1. /\ intr = "ON" /\ sema_up(IdleStarted) /\ UNCHANGED <<holder, cond_waiters, sem, arg>>
        /\ pc[current] = "idle1" /\ Goto("idle2")
    BY <1>7, Zenon DEF IdleUps, At
  <2>2. IdleStarted \in SemaId \ Lock /\ idle_thread # NULL
        /\ cond_waiters' \in [Cond -> Seq(Thread)]
    BY <2>1, Booted, RunningTypes, ThreadsAssumption, Zenon DEF SemaId
  <2> QED BY <2>1, <2>2, OtherUpStep, Zenon
<1>8. CASE StartDown
  BY <1>8, DownContexts, DownStep DEF StartDown
<1>9. CASE \E t \in Thread : ThreadCreate(t)
  BY <1>9, CreateStep, Zenon
<1>10. CASE SemaDownLoop
  BY <1>10, DownContexts, DownStep, Zenon DEF SemaDownLoop
<1>11. ASSUME NEW s \in Sema, SemaDown(s) PROVE IInv'
  BY <1>11, DownContexts, DownStep, Zenon DEF SemaDown
<1>12. ASSUME NEW s \in Sema, SemaTryDown(s) PROVE IInv'
  BY <1>12, TryDownStep, Zenon
<1>13. ASSUME NEW s \in Sema, SemaUp(s) \/ InterruptUp(s) PROVE IInv'
  <2>1. intr = "ON" /\ sema_up(s) /\ EndHlt /\ UNCHANGED <<holder, cond_waiters, sem, arg>>
    BY <1>13, Zenon DEF SemaUp, InterruptUp, EndHlt, At, frames
  <2>2. s \in SemaId \ Lock /\ s # IdleStarted /\ cond_waiters' \in [Cond -> Seq(Thread)]
    BY <2>1, RunningTypes, ThreadsAssumption, Zenon
  <2> QED BY <2>1, <2>2, OtherUpStep, Zenon
<1>14. ASSUME NEW l \in Lock, LockAcquire(l) PROVE IInv'
  BY <1>14, DownContexts, DownStep, ZenonT(60) DEF LockAcquire
<1>15. ASSUME NEW l \in Lock, LockTryAcquire(l) PROVE IInv'
  BY <1>15, TryAcquireStep
<1>16. ASSUME NEW l \in Lock, LockRelease(l) PROVE IInv'
  BY <1>16, LockReleaseStep
<1>17. CASE SetHolder
  BY <1>17, SetHolderStep
<1>18. CASE ReleaseUp
  BY <1>18, ReleaseStep
<1>19. ASSUME NEW c \in Cond, CondWait(c) PROVE IInv'
  BY <1>19, CondWaitStep
<1>20. ASSUME NEW c \in Cond, CondSignal(c) PROVE IInv'
  BY <1>20, SignalStep, Zenon DEF CondSignal, At, frames
<1>21. ASSUME NEW c \in Cond, CondBroadcast(c) PROVE IInv'
  <2>1. /\ intr = "ON" /\ pc[current] = "run"
        /\ pc' = [pc EXCEPT ![current] = "bcast"] /\ arg' = [arg EXCEPT ![current] = c]
        /\ UNCHANGED <<sched, synch, sem>>
    BY <1>21, Zenon DEF CondBroadcast, At, Goto
  <2> QED BY <2>1, BroadcastStep, ZenonT(60)
<1>22. CASE CondWaitRelease
  BY <1>22, CondWaitReleaseStep
<1>23. CASE CondWaitDown
  BY <1>23, DownContexts, DownStep, Zenon DEF CondWaitDown
<1>24. CASE CondWaitAcquire
  BY <1>24, DownContexts, DownStep, Zenon DEF CondWaitAcquire
<1>25. CASE CondBroadcastLoop
  <2>1. intr = "ON" /\ pc[current] = "bcast" /\ arg[current] \in Cond /\ sem' = sem
    BY <1>25, RunningTypes, ZenonT(60) DEF CondBroadcastLoop, At, IInv, FrameInv, FrameOf, IdleFrame
  <2>2. \/ cond_signal(arg[current]) /\ UNCHANGED <<pc, arg>>
        \/ /\ pc' = [pc EXCEPT ![current] = "run"]
           /\ arg' = [arg EXCEPT ![current] = NULL]
           /\ UNCHANGED <<sched, synch>>
    BY <1>25, Zenon DEF CondBroadcastLoop, Goto
  <2> QED BY <2>1, <2>2, SignalStep, BroadcastStep, ZenonT(60)
<1>26. CASE UNCHANGED vars
  BY <1>26, Stutter, Zenon
<1> QED
  BY <1>1, <1>2, <1>3, <1>4, <1>5, <1>6, <1>7, <1>8, <1>9, <1>10, <1>11, <1>12, <1>13,
     <1>14, <1>15, <1>16, <1>17, <1>18, <1>19, <1>20, <1>21, <1>22, <1>23, <1>24, <1>25,
     <1>26, ZenonT(60) DEF Next

\* The inductive invariant holds in every reachable state of the scheduler and
\* the synchronization primitives, for any number of threads, semaphores, locks
\* and condition variables, any time slice and any initial semaphore values.
THEOREM Invariance == Spec => []IInv
BY InitInvariant, NextInvariant, PTL DEF Spec

\* Every variable of the scheduler and of the primitives keeps its type: the
\* scheduler always finds a thread to run, and no semaphore value goes below 0.
THEOREM TypeCorrect == Spec => []TypeOK
<1>1. IInv => TypeOK
  BY DEF IInv
<1> QED BY <1>1, Invariance, PTL

\* thread.h's claim that one list element per thread is enough: no thread is on
\* the run queue and a wait list, on two wait lists, or twice on a list.
THEOREM ElemIsExclusive == Spec => []ElemExclusive
<1>1. IInv => ElemExclusive
  BY DEF IInv
<1> QED BY <1>1, Invariance, PTL

\* The scheduler and sema_down lose no thread: a ready thread is on the run
\* queue, a blocked one on the wait list of the semaphore it downs.
THEOREM NobodyForgotten == Spec => []NoThreadForgotten
<1>1. IInv => NoThreadForgotten
  BY DEF IInv
<1> QED BY <1>1, Invariance, PTL

\* lock_acquire, lock_try_acquire, lock_release and cond_wait keep every lock
\* free or owned by exactly one thread.
THEOREM LocksExclude == Spec => []MutualExclusion
<1>1. IInv => MutualExclusion
  BY DEF IInv
<1> QED BY <1>1, Invariance, PTL
=============================================================================
