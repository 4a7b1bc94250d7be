--------------------------- MODULE MonitorProofs ----------------------------
(***************************************************************************)
(* No signal is lost, and locks and condition variables are the atomic     *)
(* ones of Monitor: for any number of threads, locks and condition         *)
(* variables.                                                              *)
(***************************************************************************)
EXTENDS ThreadsProofs

-----------------------------------------------------------------------------
(***************************************************************************)
(* The inductive invariant                                                 *)
(***************************************************************************)

Listed(t, c) == t \in Elems(cond_waiters[c])

\* A thread that awaits a signal is on one list or has been signalled, and no
\* other thread is on a list.
SignalOf(t) ==
  /\ AwaitsSignal(t) =>
       \/ /\ value[t] = 0
          /\ \E c \in Cond : Listed(t, c) /\ \A d \in Cond : Listed(t, d) => d = c
       \/ value[t] = 1 /\ \A d \in Cond : ~Listed(t, d)
  /\ ~AwaitsSignal(t) => \A d \in Cond : ~Listed(t, d)

LastIs(list, t) == Len(list) > 0 /\ list[Len(list)] = t

\* Until it gives up the lock, a thread in cond_wait is the last on its list.
EnteringOf(t) ==
  Entering(t) => \E c \in Cond : CondLock[c] = arg[t] /\ LastIs(cond_waiters[c], t)

BroadcastOf(t) == pc[t] = "bcast" => holder[CondLock[arg[t]]] = t

SignalInv ==
  /\ \A c \in Cond : NoDuplicates(cond_waiters[c])
  /\ \A t \in Thread : SignalOf(t) /\ EnteringOf(t) /\ BroadcastOf(t)

-----------------------------------------------------------------------------
(***************************************************************************)
(* Owners and waiters, abstractly                                          *)
(***************************************************************************)

\* The owner of a lock is the thread that owns it, if there is one.
LEMMA OwnerIs ==
  ASSUME MutualExclusion, NEW l \in Lock
  PROVE  /\ \A t \in Thread : Owns(t, l) => OwnerOf(l) = t
         /\ (\A t \in Thread : ~Owns(t, l)) => OwnerOf(l) = NULL
BY DEF MutualExclusion, OwnerOf

\* The same after a step.
LEMMA NextOwnerIs ==
  ASSUME MutualExclusion', NEW l \in Lock
  PROVE  /\ \A t \in Thread : Owns(t, l)' => OwnerOf(l)' = t
         /\ (\A t \in Thread : ~Owns(t, l)') => OwnerOf(l)' = NULL
BY DEF MutualExclusion, OwnerOf

\* A step that changes no ownership changes no owner.
LEMMA SameOwner ==
  ASSUME MutualExclusion, MutualExclusion', NEW l \in Lock,
         \A t \in Thread : Owns(t, l)' <=> Owns(t, l)
  PROVE  OwnerOf(l)' = OwnerOf(l)
<1>1. CASE \E t \in Thread : Owns(t, l)
  <2>1. PICK t \in Thread : Owns(t, l)  BY <1>1
  <2>2. OwnerOf(l) = t /\ OwnerOf(l)' = t  BY <2>1, OwnerIs, NextOwnerIs
  <2> QED BY <2>2
<1>2. CASE \A t \in Thread : ~Owns(t, l)
  <2>1. OwnerOf(l) = NULL /\ OwnerOf(l)' = NULL  BY <1>2, OwnerIs, NextOwnerIs
  <2> QED BY <2>1
<1> QED BY <1>1, <1>2

\* A step that changes neither a list nor who is entering cond_wait changes none of
\* the abstract lists.
LEMMA SameWaiting ==
  ASSUME TypeOK, NEW c \in Cond, cond_waiters'[c] = cond_waiters[c],
         \A t \in Thread : Entering(t)' <=> Entering(t)
  PROVE  WaitingOn(c)' = WaitingOn(c)
<1>1. PICK list \in Seq(Thread) : list = cond_waiters[c]  BY DEF TypeOK
<1>2. Len(list) > 0 => list[Len(list)] \in Thread  OBVIOUS
<1> QED BY <1>1, <1>2 DEF WaitingOn

\* Both together: the step stutters in Monitor.
LEMMA SameAbstract ==
  ASSUME IInv, IInv', cond_waiters' = cond_waiters,
         \A t \in Thread : Entering(t)' <=> Entering(t),
         \A l \in Lock, t \in Thread : Owns(t, l)' <=> Owns(t, l)
  PROVE  UNCHANGED Abstract!vars
<1>1. \A l \in Lock : OwnerOf(l)' = OwnerOf(l)  BY SameOwner DEF IInv
<1>2. \A c \in Cond : WaitingOn(c)' = WaitingOn(c)  BY SameWaiting DEF IInv
<1> QED BY <1>1, <1>2 DEF Abstract!vars

-----------------------------------------------------------------------------
(***************************************************************************)
(* Steps without a signal                                                  *)
(***************************************************************************)

\* What a step must keep of each thread to keep the invariant of signals.
LEMMA QuietSignals ==
  ASSUME SignalInv, cond_waiters' = cond_waiters,
         \A t \in Thread :
           /\ value'[t] = value[t]
           /\ AwaitsSignal(t)' <=> AwaitsSignal(t)
           /\ Entering(t)' => Entering(t) /\ arg'[t] = arg[t]
           /\ pc'[t] = "bcast" =>
                /\ pc[t] = "bcast" /\ arg'[t] = arg[t]
                /\ holder'[CondLock[arg[t]]] = holder[CondLock[arg[t]]]
  PROVE  SignalInv'
<1>1. \A t, c : Listed(t, c)' <=> Listed(t, c)  BY DEF Listed, Elems
<1>2. \A c \in Cond : NoDuplicates(cond_waiters[c])'
  BY DEF SignalInv, NoDuplicates
<1>3. ASSUME NEW t \in Thread PROVE SignalOf(t)' /\ EnteringOf(t)' /\ BroadcastOf(t)'
  <2>1. SignalOf(t) /\ EnteringOf(t) /\ BroadcastOf(t)  BY DEF SignalInv
  <2>2. SignalOf(t)'  BY <1>1, <2>1 DEF SignalOf
  <2>3. EnteringOf(t)'  BY <2>1 DEF EnteringOf, LastIs
  <2>4. BroadcastOf(t)'  BY <2>1 DEF BroadcastOf
  <2> QED BY <2>2, <2>3, <2>4
<1> QED BY <1>2, <1>3 DEF SignalInv

\* What is to be shown of every step: it keeps the invariant, and it is a step of
\* Monitor or changes nothing there.
Simulated == SignalInv' /\ (Abstract!Next \/ UNCHANGED Abstract!vars)

\* A step of thread u that changes its own frame and leaves the others' alone.
Alone(u) ==
  /\ cond_waiters' = cond_waiters
  /\ \A t \in Thread : value'[t] = value[t]
  /\ \A t \in Thread \ {u} : pc'[t] = pc[t] /\ sem'[t] = sem[t] /\ arg'[t] = arg[t]
  /\ AwaitsSignal(u)' <=> AwaitsSignal(u)
  /\ Entering(u)' => Entering(u) /\ arg'[u] = arg[u]
  /\ pc'[u] # "bcast"
  /\ \A l \in Lock : \/ holder'[l] = holder[l]
                     \/ holder[l] \in {NULL, u} /\ holder'[l] \in {NULL, u}

\* Such a step keeps the invariant, and what the others own.
LEMMA OneFrame ==
  ASSUME IInv, SignalInv, NEW u \in Thread, Alone(u)
  PROVE  /\ SignalInv'
         /\ \A l \in Lock, t \in Thread \ {u} : Owns(t, l)' <=> Owns(t, l)
         /\ \A t \in Thread \ {u} : Entering(t)' <=> Entering(t)
<1> USE DEF Alone
<1>1. ASSUME NEW t \in Thread \ {u}
      PROVE  /\ AwaitsSignal(t)' <=> AwaitsSignal(t)
             /\ Entering(t)' <=> Entering(t)
             /\ pc[t] = "bcast" =>
                  holder'[CondLock[arg[t]]] = holder[CondLock[arg[t]]]
  <2>1. t # NULL  BY ThreadsAssumption
  <2>2. pc[t] = "bcast" => CondLock[arg[t]] \in Lock /\ holder[CondLock[arg[t]]] = t
    <3>1. FrameOf(t) /\ BroadcastOf(t)  BY DEF IInv, FrameInv, SignalInv
    <3> QED BY <3>1, ThreadsAssumption DEF FrameOf, BroadcastOf
  <2> QED BY <2>1, <2>2 DEF AwaitsSignal, Entering
<1>2. SignalInv'  BY <1>1, QuietSignals
<1>3. ASSUME NEW l \in Lock, NEW t \in Thread \ {u} PROVE Owns(t, l)' <=> Owns(t, l)
  <2>1. t # NULL  BY ThreadsAssumption
  <2> QED BY <2>1 DEF Owns
<1> QED BY <1>1, <1>2, <1>3, Zenon

\* If moreover it takes and gives up no lock, Monitor does not see the step.
LEMMA StutterFrame ==
  ASSUME IInv, IInv', SignalInv, NEW u \in Thread, Alone(u),
         Entering(u)' <=> Entering(u), \A l \in Lock : Owns(u, l)' <=> Owns(u, l)
  PROVE  Simulated
<1>1. /\ SignalInv'
      /\ \A l \in Lock, t \in Thread \ {u} : Owns(t, l)' <=> Owns(t, l)
      /\ \A t \in Thread \ {u} : Entering(t)' <=> Entering(t)
  BY OneFrame
<1>2. UNCHANGED Abstract!vars  BY <1>1, SameAbstract DEF Alone
<1> QED BY <1>1, <1>2 DEF Simulated

\* A step of the scheduler, or one on a plain semaphore, changes no frame.
LEMMA SameFrames ==
  ASSUME IInv, IInv', SignalInv, UNCHANGED <<cond_waiters, holder, pc, sem, arg>>,
         \A t \in Thread : value'[t] = value[t]
  PROVE  Simulated
<1>1. \A t \in Thread : /\ AwaitsSignal(t)' <=> AwaitsSignal(t)
                        /\ Entering(t)' <=> Entering(t)
  BY DEF AwaitsSignal, Entering
<1>2. \A l \in Lock, t \in Thread : Owns(t, l)' <=> Owns(t, l)  BY DEF Owns
<1>3. SignalInv'  BY <1>1, QuietSignals
<1>4. UNCHANGED Abstract!vars  BY <1>1, <1>2, SameAbstract
<1> QED BY <1>3, <1>4 DEF Simulated

\* The end of hlt is seen by nobody.
LEMMA EndHltSimulated ==
  ASSUME IInv, IInv', SignalInv, EndHlt, UNCHANGED <<cond_waiters, holder, sem, arg>>,
         \A t \in Thread : value'[t] = value[t]
  PROVE  Simulated
<1>1. CASE pc' = pc  BY <1>1, SameFrames, Zenon
<1>2. CASE pc' # pc
  <2>1. PICK u \in Thread : u = current  BY DEF IInv, TypeOK
  <2>2. /\ pc[u] = "hlt" /\ pc'[u] = "idle2"
        /\ \A t \in Thread \ {u} : pc'[t] = pc[t]
    BY <1>2, <2>1, Zenon DEF EndHlt, Goto, IInv, TypeOK
  <2>3. /\ AwaitsSignal(u)' <=> AwaitsSignal(u)
        /\ ~Entering(u)' /\ ~Entering(u)
        /\ \A l \in Lock : Owns(u, l)' <=> Owns(u, l)
    BY <2>2 DEF AwaitsSignal, Entering, Owns
  <2>4. Alone(u)  BY <2>2, <2>3 DEF Alone
  <2> QED BY <2>3, <2>4, StutterFrame, Zenon
<1> QED BY <1>1, <1>2

\* The steps of thread.c and of the idle thread.
LEMMA SchedulerSimulated ==
  ASSUME IInv, IInv', SignalInv,
         \/ Tick \/ ThreadYield \/ ThreadExit \/ ThreadStart \/ IdleSetsItself
         \/ IdleBlocks \/ IdleUps \/ \E t \in Thread : ThreadCreate(t)
  PROVE  Simulated
<1>0. TypeOK /\ FrameInv  BY DEF IInv
<1>1. PICK u \in Thread : u = current  BY <1>0 DEF TypeOK
<1>2. CASE Tick  BY <1>2, EndHltSimulated DEF Tick, synch
<1>3. CASE ThreadYield \/ ThreadExit
  BY <1>3, SameFrames DEF ThreadYield, ThreadExit, synch, frames
<1>4. CASE ThreadStart
  <2>1. /\ pc[u] = "boot" /\ u = Main /\ status[Idle] = "FREE" /\ pc[Idle] = "run"
        /\ UNCHANGED <<value, holder, cond_waiters, sem, arg>>
        /\ pc' = [pc EXCEPT ![Idle] = "idle0", ![u] = "booted"]
    <3>1. pc[u] = "boot" /\ u = Main /\ idle_thread = NULL
      BY <1>0, <1>1, <1>4, Zenon DEF ThreadStart, FrameInv, FrameOf
    <3>2. status[Idle] = "FREE"
      BY <1>1, <3>1, ThreadsAssumption, Zenon DEF IInv, BootInv
    <3> QED BY <1>0, <1>1, <1>4, <3>1, <3>2, ThreadsAssumption, Zenon
            DEF ThreadStart, synch, FrameInv, FrameOf
  <2>2. ASSUME NEW t \in Thread
        PROVE  /\ AwaitsSignal(t)' <=> AwaitsSignal(t)
               /\ Entering(t)' <=> Entering(t)
               /\ pc'[t] = "bcast" => pc[t] = "bcast"
               /\ \A l \in Lock : Owns(t, l)' <=> Owns(t, l)
    <3>1. pc'[t] = pc[t] \/ (pc[t] \in {"run", "boot"} /\ pc'[t] \in {"idle0", "booted"})
      BY <1>0, <2>1 DEF TypeOK
    <3> QED BY <2>1, <3>1, Zenon DEF AwaitsSignal, Entering, Owns
  <2>3. SignalInv'  BY <2>1, <2>2, QuietSignals, Zenon
  <2>4. UNCHANGED Abstract!vars  BY <2>1, <2>2, SameAbstract
  <2> QED BY <2>3, <2>4 DEF Simulated
<1>5. CASE IdleSetsItself \/ IdleBlocks \/ IdleUps
  <2>1. /\ UNCHANGED <<holder, cond_waiters, sem, arg>>
        /\ pc[u] \in IdleLabel
        /\ pc' \in {[pc EXCEPT ![u] = "idle1"], [pc EXCEPT ![u] = "hlt"],
                    [pc EXCEPT ![u] = "idle2"]}
    BY <1>1, <1>5, Zenon DEF IdleSetsItself, IdleBlocks, IdleUps, At, Goto, synch, IdleLabel
  <2>2. \A t \in Thread : value'[t] = value[t]
    BY <1>0, <1>5, ThreadsAssumption, Zenon
       DEF IdleSetsItself, IdleBlocks, IdleUps, sema_up, synch, TypeOK, SemaId
  <2>3. /\ \A t \in Thread \ {u} : pc'[t] = pc[t]
        /\ pc'[u] \in {"idle1", "hlt", "idle2"}
    BY <1>0, <2>1, Zenon DEF TypeOK
  <2>4. /\ AwaitsSignal(u)' <=> AwaitsSignal(u)
        /\ ~Entering(u)' /\ ~Entering(u)
        /\ \A l \in Lock : Owns(u, l)' <=> Owns(u, l)
    BY <2>1, <2>3, Zenon DEF AwaitsSignal, Entering, Owns, IdleLabel
  <2>5. Alone(u)  BY <2>1, <2>2, <2>3, <2>4, Zenon DEF Alone
  <2> QED BY <2>4, <2>5, StutterFrame
<1>6. ASSUME NEW t \in Thread, ThreadCreate(t) PROVE Simulated
  <2>1. pc[t] = "run"  BY <1>0, <1>6 DEF ThreadCreate, FrameInv, FrameOf
  <2>2. pc' = pc  BY <1>0, <1>6, <2>1, Zenon DEF ThreadCreate, TypeOK
  <2> QED BY <1>6, <2>2, SameFrames, Zenon DEF ThreadCreate, synch
<1> QED BY <1>2, <1>3, <1>4, <1>5, <1>6

-----------------------------------------------------------------------------
(***************************************************************************)
(* Semaphores                                                              *)
(***************************************************************************)

\* Taking a lock's semaphore is Monitor's Acquire.
LEMMA Acquired ==
  ASSUME IInv, IInv', SignalInv, NEW u \in Thread, Alone(u), NEW l \in Lock,
         value[l] > 0, ~Entering(u), ~Entering(u)',
         pc'[u] = "own", sem'[u] = l, UNCHANGED holder,
         pc[u] \notin {"own", "rel", "cw_rel"}
  PROVE  Simulated
<1>1. TypeOK /\ MutualExclusion /\ MutualExclusion'  BY DEF IInv
<1>2. /\ SignalInv'
      /\ \A m \in Lock, t \in Thread \ {u} : Owns(t, m)' <=> Owns(t, m)
      /\ \A t \in Thread : Entering(t)' <=> Entering(t)
  BY OneFrame, Zenon
<1>3. OwnerOf(l) = NULL
  <2>1. value[l] = 1  BY <1>1, SMTT(60) DEF MutualExclusion
  <2> QED BY <1>1, <2>1, OwnerIs, Zenon DEF MutualExclusion
<1>4. OwnerOf(l)' = u
  <2>1. Owns(u, l)'  BY DEF Owns
  <2> QED BY <1>1, <2>1, NextOwnerIs
<1>5. ASSUME NEW m \in Lock \ {l} PROVE OwnerOf(m)' = OwnerOf(m)
  <2>1. Owns(u, m)' <=> Owns(u, m)  BY Zenon DEF Owns
  <2> QED BY <1>1, <1>2, <2>1, SameOwner, Zenon
<1>6. \A c \in Cond : WaitingOn(c)' = WaitingOn(c)  BY <1>1, <1>2, SameWaiting DEF Alone
<1>7. Abstract!Acquire(u, l)  BY <1>3, <1>4, <1>5, <1>6, ZenonT(60) DEF Abstract!Acquire
<1> QED BY <1>2, <1>7, Zenon DEF Simulated, Abstract!Next

\* sema_down, from each place that calls it: it blocks, takes a unit of a plain
\* semaphore, acquires a lock, or passes the semaphore of cond_wait.
LEMMA DownSimulated ==
  ASSUME IInv, IInv', SignalInv, NEW s, DownContext(s), sema_down(s),
         AwaitsSignal(current) <=> s = current
  PROVE  Simulated
<1>1. PICK u \in Thread : u = current  BY Zenon DEF IInv, TypeOK
<1>2. /\ TypeOK /\ s \in SemaId
      /\ pc[u] \in {"run", "booted", "cw_down", "cw_acq", "down"}
      /\ s \in Thread => s = u
      /\ AwaitsSignal(u) <=> s = u
      /\ UNCHANGED <<holder, cond_waiters, arg>>
  BY <1>1 DEF IInv, DownContext, sema_down
<1>3. CASE value[s] = 0
  <2>1. /\ UNCHANGED value
        /\ sem' = [sem EXCEPT ![u] = s] /\ pc' = [pc EXCEPT ![u] = "down"]
    BY <1>1, <1>2, <1>3 DEF sema_down, Goto
  <2>2. /\ pc'[u] = "down" /\ sem'[u] = s
        /\ \A t \in Thread \ {u} : pc'[t] = pc[t] /\ sem'[t] = sem[t]
    BY <1>2, <2>1, Zenon DEF TypeOK
  <2>3. /\ AwaitsSignal(u)' <=> AwaitsSignal(u)
        /\ ~Entering(u)' /\ ~Entering(u)
        /\ \A l \in Lock : Owns(u, l)' <=> Owns(u, l)
    BY <1>2, <2>2, Zenon DEF AwaitsSignal, Entering, Owns
  <2>4. Alone(u)  BY <1>2, <2>1, <2>2, <2>3, Zenon DEF Alone
  <2> QED BY <2>3, <2>4, StutterFrame
<1>4. CASE value[s] > 0
  <2>1. /\ value' = [value EXCEPT ![s] = @ - 1]
        /\ sem' = [sem EXCEPT ![u] = IF s \in Lock THEN s ELSE NULL]
        /\ pc' = [pc EXCEPT ![u] = After(s)]
    BY <1>1, <1>2, <1>4, SMTT(60) DEF sema_down, Goto, TypeOK
  <2>2. /\ pc'[u] = After(s) /\ (s \in Lock => sem'[u] = s)
        /\ \A t \in Thread \ {u} : pc'[t] = pc[t] /\ sem'[t] = sem[t]
        /\ \A t \in Thread \ {s} : value'[t] = value[t]
    BY <1>2, <2>1 DEF TypeOK, SemaId
  <2>3. CASE s \notin Thread
    <3>1. /\ After(s) \in {"own", "run"} /\ (After(s) = "own" => s \in Lock)
          /\ s \in Lock => After(s) = "own"
          /\ s # u
      BY <2>3 DEF After
    <3>2. /\ AwaitsSignal(u)' <=> AwaitsSignal(u)
          /\ ~Entering(u)' /\ ~Entering(u)
      BY <1>2, <2>2, <3>1, Zenon DEF AwaitsSignal, Entering
    <3>3. Alone(u)  BY <1>2, <2>2, <2>3, <3>1, <3>2, ZenonT(60) DEF Alone
    <3>4. CASE s \in Lock  BY <1>2, <1>4, <2>2, <3>1, <3>2, <3>3, <3>4, Acquired, Zenon
    <3>5. CASE s \notin Lock
      <4>1. \A l \in Lock : Owns(u, l)' <=> Owns(u, l)
        BY <1>2, <2>2, <3>1, <3>5, Zenon DEF Owns
      <4> QED BY <3>2, <3>3, <4>1, StutterFrame
    <3> QED BY <3>4, <3>5
  <2>4. CASE s \in Thread
    <3>1. s = u /\ pc'[u] = "cw_acq" /\ AwaitsSignal(u)
      BY <1>2, <2>2, <2>4, ThreadsAssumption, Zenon DEF After
    <3>2. \A d \in Cond : ~Listed(u, d)
      BY <1>4, <3>1 DEF SignalInv, SignalOf
    <3>3. ASSUME NEW t \in Thread \ {u}
          PROVE  /\ AwaitsSignal(t)' <=> AwaitsSignal(t)
                 /\ Entering(t)' <=> Entering(t)
                 /\ \A l \in Lock : Owns(t, l)' <=> Owns(t, l)
                 /\ value'[t] = value[t]
      BY <1>2, <2>2, <3>1, ZenonT(60) DEF AwaitsSignal, Entering, Owns
    <3>4. /\ ~AwaitsSignal(u)' /\ ~Entering(u)' /\ ~Entering(u)
          /\ \A l \in Lock : Owns(u, l)' <=> Owns(u, l)
      BY <1>2, <3>1 DEF AwaitsSignal, Entering, Owns
    <3>5. \A t, c : Listed(t, c)' <=> Listed(t, c)  BY <1>2 DEF Listed, Elems
    <3>6. ASSUME NEW t \in Thread PROVE SignalOf(t)' /\ EnteringOf(t)' /\ BroadcastOf(t)'
      <4>1. SignalOf(t) /\ EnteringOf(t) /\ BroadcastOf(t)  BY Zenon DEF SignalInv
      <4>2. SignalOf(t)'
        BY <3>2, <3>3, <3>4, <3>5, <4>1, Zenon DEF SignalOf
      <4>3. EnteringOf(t)'  BY <1>2, <3>3, <3>4, <4>1, Zenon DEF EnteringOf, LastIs
      <4>4. BroadcastOf(t)'
        <5>1. pc'[t] = "bcast" => pc[t] = "bcast"  BY <2>2, <3>1
        <5> QED BY <1>2, <4>1, <5>1, Zenon DEF BroadcastOf
      <4> QED BY <4>2, <4>3, <4>4
    <3>7. \A c \in Cond : NoDuplicates(cond_waiters[c])'
      BY <1>2, Zenon DEF SignalInv, NoDuplicates
    <3>8. UNCHANGED Abstract!vars  BY <1>2, <3>3, <3>4, SameAbstract
    <3> QED BY <3>6, <3>7, <3>8, Zenon DEF Simulated, SignalInv
  <2> QED BY <2>3, <2>4, Zenon
<1> QED BY <1>2, <1>3, <1>4, Zenon DEF sema_down

\* The steps that call sema_down.
LEMMA DownsSimulated ==
  ASSUME IInv, IInv', SignalInv,
         \/ StartDown \/ SemaDownLoop \/ CondWaitDown \/ CondWaitAcquire
         \/ \E s \in Sema : SemaDown(s)
         \/ \E l \in Lock : LockAcquire(l)
  PROVE  Simulated
<1>1. PICK u \in Thread : u = current  BY DEF IInv, TypeOK
<1>2. FrameOf(u)  BY DEF IInv, FrameInv
<1>3. CASE StartDown
  <2>1. AwaitsSignal(current) <=> IdleStarted = current
    BY <1>1, <1>3, ThreadsAssumption, Zenon DEF StartDown, At, AwaitsSignal
  <2> QED BY <1>3, <2>1, DownContexts, DownSimulated, Zenon DEF StartDown
<1>4. CASE SemaDownLoop
  <2>1. AwaitsSignal(current) <=> sem[current] = current
    BY <1>1, <1>4, Zenon DEF SemaDownLoop, AwaitsSignal
  <2> QED BY <1>4, <2>1, DownContexts, DownSimulated DEF SemaDownLoop
<1>5. CASE CondWaitDown
  <2>1. AwaitsSignal(current)  BY <1>5 DEF CondWaitDown, At, AwaitsSignal
  <2> QED BY <1>5, <2>1, DownContexts, DownSimulated, Zenon DEF CondWaitDown
<1>6. CASE CondWaitAcquire
  <2>1. arg[current] \in Lock /\ arg[current] # current
    BY <1>1, <1>2, <1>6, ThreadsAssumption DEF CondWaitAcquire, At, FrameOf
  <2>2. ~AwaitsSignal(current)  BY <1>6, Zenon DEF CondWaitAcquire, At, AwaitsSignal
  <2> QED BY <1>6, <2>1, <2>2, DownContexts, DownSimulated, ZenonT(60) DEF CondWaitAcquire
<1>7. ASSUME NEW s \in Sema \cup Lock, At("run"), sema_down(s) PROVE Simulated
  <2>1. ~AwaitsSignal(current) /\ s # current
    BY <1>1, <1>7, ThreadsAssumption, Zenon DEF At, AwaitsSignal
  <2> QED BY <1>7, <2>1, DownContexts, DownSimulated, Zenon
<1> QED BY <1>3, <1>4, <1>5, <1>6, <1>7, ZenonT(60) DEF SemaDown, LockAcquire

\* Plain semaphores are no part of a monitor.
LEMMA PlainSimulated ==
  ASSUME IInv, IInv', SignalInv, NEW s \in Sema,
         SemaTryDown(s) \/ SemaUp(s) \/ InterruptUp(s)
  PROVE  Simulated
<1>1. s \in SemaId /\ s \notin Thread  BY ThreadsAssumption, Zenon DEF SemaId
<1>2. \A t \in Thread : value'[t] = value[t]
  <2>1. value \in [SemaId -> Nat]  BY Zenon DEF IInv, TypeOK
  <2>2. CASE SemaTryDown(s)
    BY <1>1, <2>1, <2>2, Zenon DEF SemaTryDown, sema_try_down, SemaId
  <2>3. CASE sema_up(s)  BY <1>1, <2>1, <2>3, ZenonT(60) DEF sema_up, SemaId
  <2> QED BY <2>2, <2>3, Zenon DEF SemaUp, InterruptUp
<1>3. CASE SemaTryDown(s) \/ SemaUp(s)
  <2>1. UNCHANGED frames  BY <1>3, Zenon DEF SemaTryDown, SemaUp
  <2> QED BY <1>2, <1>3, <2>1, SameFrames DEF SemaTryDown, SemaUp, frames
<1>4. CASE InterruptUp(s)
  BY <1>2, <1>4, EndHltSimulated DEF InterruptUp
<1> QED BY <1>3, <1>4

-----------------------------------------------------------------------------
(***************************************************************************)
(* Locks                                                                   *)
(***************************************************************************)

\* lock_try_acquire, the assignment of holder, and the first half of lock_release.
LEMMA HolderSimulated ==
  ASSUME IInv, IInv', SignalInv,
         \/ SetHolder \/ CondWaitRelease
         \/ \E l \in Lock : LockTryAcquire(l) \/ LockRelease(l)
  PROVE  Simulated
<1>0. TypeOK /\ HolderInv  BY DEF IInv
<1>1. PICK u \in Thread : u = current  BY <1>0 DEF TypeOK
<1>2. FrameOf(u)  BY DEF IInv, FrameInv
<1>3. CASE SetHolder
  <2>1. PICK l \in Lock : l = sem[u]  BY <1>1, <1>2, <1>3, Zenon DEF SetHolder, At, FrameOf
  <2>2. /\ pc[u] = "own" /\ pc'[u] = "run" /\ holder[l] = NULL /\ holder'[l] = u
        /\ \A m \in Lock \ {l} : holder'[m] = holder[m]
        /\ \A t \in Thread \ {u} : pc'[t] = pc[t] /\ sem'[t] = sem[t] /\ arg'[t] = arg[t]
        /\ UNCHANGED <<value, cond_waiters>>
    BY <1>0, <1>1, <1>3, <2>1, Zenon DEF SetHolder, At, Goto, HolderInv, TypeOK
  <2>3. /\ AwaitsSignal(u)' <=> AwaitsSignal(u)
        /\ ~Entering(u)' /\ ~Entering(u)
    BY <2>2 DEF AwaitsSignal, Entering
  <2>4. \A m \in Lock : Owns(u, m)' <=> Owns(u, m)  BY <2>1, <2>2, Zenon DEF Owns
  <2>5. Alone(u)  BY <2>2, <2>3 DEF Alone
  <2> QED BY <2>3, <2>4, <2>5, StutterFrame, Zenon
<1>4. CASE CondWaitRelease
  <2>1. PICK l \in Lock : l = arg[u]  BY <1>1, <1>2, <1>4, Zenon DEF CondWaitRelease, At, FrameOf
  <2>2. /\ pc[u] = "cw_release" /\ pc'[u] = "cw_rel" /\ holder[l] = u /\ holder'[l] = NULL
        /\ \A m \in Lock \ {l} : holder'[m] = holder[m]
        /\ \A t \in Thread \ {u} : pc'[t] = pc[t]
        /\ UNCHANGED <<value, cond_waiters, sem, arg>>
    BY <1>0, <1>1, <1>4, <2>1, Zenon DEF CondWaitRelease, At, Goto, HolderInv, TypeOK
  <2>3. /\ AwaitsSignal(u)' <=> AwaitsSignal(u)
        /\ Entering(u)' /\ Entering(u)
    BY <2>2, Zenon DEF AwaitsSignal, Entering
  <2>4. \A m \in Lock : Owns(u, m)' <=> Owns(u, m)
    <3>1. u # NULL  BY ThreadsAssumption, Zenon
    <3> QED BY <2>1, <2>2, <3>1, Zenon DEF Owns
  <2>5. Alone(u)  BY <2>2, <2>3, Zenon DEF Alone
  <2> QED BY <2>3, <2>4, <2>5, StutterFrame, Zenon
<1>5. ASSUME NEW l \in Lock, LockTryAcquire(l) PROVE Simulated
  <2>1. /\ pc[u] = "run" /\ pc'[u] = "own" /\ sem'[u] = l /\ value[l] > 0
        /\ \A t \in Thread \ {u} : pc'[t] = pc[t] /\ sem'[t] = sem[t]
        /\ UNCHANGED <<holder, cond_waiters, arg>>
        /\ \A t \in Thread : value'[t] = value[t]
    BY <1>0, <1>1, <1>5, ThreadsAssumption, SMTT(60)
       DEF LockTryAcquire, At, Goto, sema_try_down, TypeOK, SemaId
  <2>2. /\ AwaitsSignal(u)' <=> AwaitsSignal(u)
        /\ ~Entering(u)' /\ ~Entering(u)
    BY <2>1, ZenonT(60) DEF AwaitsSignal, Entering
  <2>3. Alone(u)  BY <2>1, <2>2, Zenon DEF Alone
  <2> QED BY <2>1, <2>2, <2>3, Acquired, Zenon
<1>6. ASSUME NEW l \in Lock, LockRelease(l) PROVE Simulated
  <2>1. /\ pc[u] = "run" /\ pc'[u] = "rel" /\ arg'[u] = l
        /\ holder[l] = u /\ holder'[l] = NULL
        /\ \A m \in Lock \ {l} : holder'[m] = holder[m]
        /\ \A t \in Thread \ {u} : pc'[t] = pc[t] /\ arg'[t] = arg[t]
        /\ UNCHANGED <<value, cond_waiters, sem>>
    BY <1>0, <1>1, <1>6, SMTT(60) DEF LockRelease, At, Goto, TypeOK
  <2>2. /\ AwaitsSignal(u)' <=> AwaitsSignal(u)
        /\ ~Entering(u)' /\ ~Entering(u)
    BY <2>1, Zenon DEF AwaitsSignal, Entering
  <2>3. \A m \in Lock : Owns(u, m)' <=> Owns(u, m)
    <3>1. u # NULL  BY ThreadsAssumption
    <3> QED BY <2>1, <3>1, Zenon DEF Owns
  <2>4. Alone(u)  BY <2>1, <2>2, Zenon DEF Alone
  <2> QED BY <2>2, <2>3, <2>4, StutterFrame
<1> QED BY <1>3, <1>4, <1>5, <1>6, Zenon

\* With its semaphore a lock loses its owner.
LEMMA Released ==
  ASSUME IInv, IInv', SignalInv, NEW u \in Thread, Alone(u), NEW l \in Lock, arg[u] = l,
         pc[u] \in {"rel", "cw_rel"}, pc'[u] \in {"run", "cw_down"}, UNCHANGED holder
  PROVE  /\ OwnerOf(l) = u /\ OwnerOf(l)' = NULL
         /\ \A m \in Lock \ {l} : OwnerOf(m)' = OwnerOf(m)
<1>1. MutualExclusion /\ MutualExclusion' /\ HolderInv  BY Zenon DEF IInv
<1>2. \A m \in Lock, t \in Thread \ {u} : Owns(t, m)' <=> Owns(t, m)  BY OneFrame, Zenon
<1>3. holder[l] = NULL /\ u # NULL  BY <1>1, ThreadsAssumption DEF HolderInv
<1>4. Owns(u, l)  BY Zenon DEF Owns
<1>5. ASSUME NEW t \in Thread PROVE ~Owns(t, l)'
  <2>1. CASE t = u  BY <1>3, <2>1, Zenon DEF Owns
  <2>2. CASE t # u  BY <1>1, <1>2, <1>4, <2>2, SMTT(60) DEF MutualExclusion
  <2> QED BY <2>1, <2>2, Zenon
<1>6. ASSUME NEW m \in Lock \ {l} PROVE OwnerOf(m)' = OwnerOf(m)
  <2>1. Owns(u, m)' <=> Owns(u, m)  BY Zenon DEF Owns
  <2> QED BY <1>1, <1>2, <2>1, SameOwner, Zenon
<1> QED BY <1>1, <1>4, <1>5, <1>6, OwnerIs, NextOwnerIs, Zenon

-----------------------------------------------------------------------------
(***************************************************************************)
(* Condition variables                                                     *)
(***************************************************************************)

\* A thread that enters is on one list only, that of its lock.
LEMMA EntersOne ==
  ASSUME TypeOK, SignalInv, NEW t \in Thread, Entering(t),
         NEW c \in Cond, CondLock[c] = arg[t], LastIs(cond_waiters[c], t)
  PROVE  /\ Listed(t, c) /\ value[t] = 0
         /\ \A d \in Cond : Listed(t, d) => d = c
<1>1. AwaitsSignal(t) /\ SignalOf(t)  BY Zenon DEF SignalInv, AwaitsSignal, Entering
<1>2. Listed(t, c)
  <2>1. PICK list \in Seq(Thread) : list = cond_waiters[c]  BY DEF TypeOK
  <2>2. Len(list) \in 1 .. Len(list) /\ list[Len(list)] = t  BY <2>1 DEF LastIs
  <2> QED BY <2>1, <2>2, Zenon DEF Listed, Elems
<1> QED BY <1>1, <1>2, Zenon DEF SignalOf

\* While a thread holds a lock and calls no cond_wait, nobody enters the lists of the
\* condition variables it protects, and these are what Monitor sees.
LEMMA NobodyEnters ==
  ASSUME IInv, SignalInv, NEW u \in Thread, NEW c \in Cond, holder[CondLock[c]] = u,
         ~Entering(u)
  PROVE  /\ \A t \in Thread : Entering(t) => ~Listed(t, c) /\ CondLock[c] # arg[t]
         /\ WaitingOn(c) = cond_waiters[c]
         /\ OwnerOf(CondLock[c]) = u
<1>1. TypeOK /\ HolderInv /\ MutualExclusion /\ CondLock[c] \in Lock
  BY ThreadsAssumption, Zenon DEF IInv
<1>2. Owns(u, CondLock[c])  BY DEF Owns
<1>3. ASSUME NEW t \in Thread, Entering(t) PROVE CondLock[c] # arg[t]
  <2>1. arg[t] \in Lock  BY <1>3, Zenon DEF IInv, FrameInv, FrameOf, Entering
  <2>2. Owns(t, arg[t])  BY <1>1, <1>3, <2>1 DEF HolderInv, Entering, Owns
  <2>3. t # u  BY <1>3, Zenon
  <2> QED BY <1>1, <1>2, <2>1, <2>2, <2>3, ZenonT(60) DEF MutualExclusion
<1>4. ASSUME NEW t \in Thread, Entering(t) PROVE ~Listed(t, c)
  <2>1. PICK d \in Cond : CondLock[d] = arg[t] /\ LastIs(cond_waiters[d], t)
    BY <1>4, Zenon DEF SignalInv, EnteringOf
  <2>2. Listed(t, c) => c = d  BY <1>1, <1>4, <2>1, EntersOne, Zenon
  <2> QED BY <1>3, <1>4, <2>1, <2>2, Zenon
<1>5. WaitingOn(c) = cond_waiters[c]
  <2>1. PICK list \in Seq(Thread) : list = cond_waiters[c]  BY <1>1, Zenon DEF TypeOK
  <2>2. ASSUME Len(list) > 0 PROVE ~Entering(list[Len(list)])
    <3>1. Len(list) \in 1 .. Len(list) /\ list[Len(list)] \in Thread  BY <2>2
    <3>2. Listed(list[Len(list)], c)  BY <2>1, <3>1, Zenon DEF Listed, Elems
    <3> QED BY <1>4, <3>1, <3>2
  <2> QED BY <2>1, <2>2, Zenon DEF WaitingOn
<1> QED BY <1>1, <1>2, <1>3, <1>4, <1>5, OwnerIs, ZenonT(60)

\* The second half of lock_release is Monitor's Release, or inside cond_wait its Wait.
LEMMA ReleaseSimulated ==
  ASSUME IInv, IInv', SignalInv, ReleaseUp
  PROVE  Simulated
<1>0. TypeOK  BY DEF IInv
<1>1. PICK u \in Thread : u = current  BY <1>0, Zenon DEF TypeOK
<1>2. PICK l \in Lock : l = arg[u]
  BY <1>1, Zenon DEF ReleaseUp, At, IInv, FrameInv, FrameOf
<1>3. /\ UNCHANGED <<holder, cond_waiters, sem>>
      /\ \A t \in Thread : value'[t] = value[t]
      /\ \A t \in Thread \ {u} : pc'[t] = pc[t] /\ arg'[t] = arg[t]
      /\ \/ pc[u] = "rel" /\ pc'[u] = "run"
         \/ pc[u] = "cw_rel" /\ pc'[u] = "cw_down"
  <2>1. value' = [value EXCEPT ![l] = @ + 1]  BY <1>1, <1>2, Zenon DEF ReleaseUp, sema_up
  <2>2. \A t \in Thread : value'[t] = value[t]
    BY <1>0, <2>1, ThreadsAssumption, SMTT(60) DEF TypeOK, SemaId
  <2> QED BY <1>0, <1>1, <2>2, Zenon DEF ReleaseUp, At, Goto, TypeOK
<1>4. ~Entering(u)' /\ (AwaitsSignal(u)' <=> AwaitsSignal(u))
  BY <1>3, Zenon DEF Entering, AwaitsSignal
<1>5. Alone(u)  BY <1>3, <1>4 DEF Alone
<1>6. SignalInv' /\ \A t \in Thread \ {u} : Entering(t)' <=> Entering(t)
  BY <1>5, OneFrame, Zenon
<1>7. /\ OwnerOf(l) = u /\ OwnerOf(l)' = NULL
      /\ \A m \in Lock \ {l} : OwnerOf(m)' = OwnerOf(m)
  BY <1>2, <1>3, <1>5, Released, Zenon
<1>8. CASE pc[u] = "rel"
  <2>1. ~Entering(u)  BY <1>8, Zenon DEF Entering
  <2>2. \A c \in Cond : WaitingOn(c)' = WaitingOn(c)
    BY <1>0, <1>3, <1>4, <1>6, <2>1, SameWaiting, Zenon
  <2>3. Abstract!Release(u, l)  BY <1>7, <2>2, ZenonT(60) DEF Abstract!Release
  <2> QED BY <1>6, <2>3 DEF Simulated, Abstract!Next
<1>9. CASE pc[u] = "cw_rel"
  <2>1. Entering(u)  BY <1>9, Zenon DEF Entering
  <2>2. PICK c \in Cond : CondLock[c] = l /\ LastIs(cond_waiters[c], u)
    BY <1>2, <2>1, Zenon DEF SignalInv, EnteringOf
  <2>3. \A d \in Cond : Listed(u, d) => d = c  BY <1>0, <1>2, <2>1, <2>2, EntersOne, Zenon
  <2>4. WaitingOn(c)' = Append(WaitingOn(c), u)
    <3>1. PICK list \in Seq(Thread) : list = cond_waiters[c]  BY <1>0, Zenon DEF TypeOK
    <3>2. Len(list) > 0 /\ list[Len(list)] = u  BY <2>2, <3>1, Zenon DEF LastIs
    <3>3. WaitingOn(c) = SubSeq(list, 1, Len(list) - 1)
      BY <2>1, <3>1, <3>2, Zenon DEF WaitingOn
    <3>4. WaitingOn(c)' = list  BY <1>3, <1>4, <3>1, <3>2, ZenonT(60) DEF WaitingOn
    <3> QED BY <3>2, <3>3, <3>4, AppendLast, Zenon
  <2>5. ASSUME NEW d \in Cond \ {c} PROVE WaitingOn(d)' = WaitingOn(d)
    <3>1. PICK list \in Seq(Thread) : list = cond_waiters[d]  BY <1>0 DEF TypeOK
    <3>2. ASSUME Len(list) > 0 PROVE list[Len(list)] \in Thread \ {u}
      <4>1. Len(list) \in 1 .. Len(list) /\ list[Len(list)] \in Thread  BY <3>2
      <4>2. Listed(list[Len(list)], d)  BY <3>1, <4>1 DEF Listed, Elems
      <4> QED BY <2>3, <4>1, <4>2, Zenon
    <3> QED BY <1>3, <1>6, <3>1, <3>2, Zenon DEF WaitingOn
  <2>6. Abstract!Wait(u, c)  BY <1>7, <2>2, <2>4, <2>5, Zenon DEF Abstract!Wait
  <2> QED BY <1>6, <2>6 DEF Simulated, Abstract!Next
<1> QED BY <1>3, <1>8, <1>9

\* cond_wait puts its thread on the list while it still owns the lock.
LEMMA CondWaitSimulated ==
  ASSUME IInv, IInv', SignalInv, NEW c \in Cond, CondWait(c)
  PROVE  Simulated
<1>0. TypeOK  BY DEF IInv
<1>1. PICK u \in Thread : u = current  BY <1>0 DEF TypeOK
<1>2. PICK list \in Seq(Thread) : list = cond_waiters[c]  BY <1>0 DEF TypeOK
<1>3. /\ pc[u] = "run" /\ pc'[u] = "cw_release" /\ arg'[u] = CondLock[c]
      /\ holder[CondLock[c]] = u
      /\ value'[u] = 0 /\ \A t \in Thread \ {u} : value'[t] = value[t]
      /\ \A t \in Thread \ {u} : pc'[t] = pc[t] /\ arg'[t] = arg[t]
      /\ cond_waiters'[c] = Append(list, u)
      /\ \A d \in Cond \ {c} : cond_waiters'[d] = cond_waiters[d]
      /\ UNCHANGED <<holder, sem>>
  BY <1>0, <1>1, <1>2, ZenonT(60) DEF CondWait, At, Goto, TypeOK, SemaId
<1>4. /\ ~Entering(u) /\ Entering(u)' /\ ~AwaitsSignal(u) /\ AwaitsSignal(u)'
      /\ \A l \in Lock : Owns(u, l)' <=> Owns(u, l)
  BY <1>3, Zenon DEF Entering, AwaitsSignal, Owns
<1>5. ASSUME NEW t \in Thread \ {u}
      PROVE  /\ Entering(t)' <=> Entering(t)
             /\ AwaitsSignal(t)' <=> AwaitsSignal(t)
             /\ \A l \in Lock : Owns(t, l)' <=> Owns(t, l)
  BY <1>3 DEF Entering, AwaitsSignal, Owns
<1>6. \A d \in Cond : ~Listed(u, d)  BY <1>4, ZenonT(60) DEF SignalInv, SignalOf
<1>7. /\ \A t \in Thread : Entering(t) => ~Listed(t, c) /\ CondLock[c] # arg[t]
      /\ WaitingOn(c) = list
  BY <1>2, <1>3, <1>4, NobodyEnters, Zenon
<1>8. /\ Elems(Append(list, u)) = Elems(list) \cup {u}
      /\ NoDuplicates(Append(list, u))
  BY <1>2, <1>6, PushBack, SMTT(60) DEF SignalInv, Listed
<1>9. /\ \A d \in Cond : NoDuplicates(cond_waiters[d])'
      /\ \A t \in Thread \ {u}, d \in Cond : Listed(t, d)' <=> Listed(t, d)
      /\ \A d \in Cond : Listed(u, d)' <=> d = c
  <2>1. ASSUME NEW d \in Cond PROVE NoDuplicates(cond_waiters[d])'
    <3>1. CASE d = c
      <4>1. cond_waiters'[d] = Append(list, u)  BY <1>3, <3>1, Zenon
      <4> QED BY <1>8, <4>1, Zenon DEF NoDuplicates
    <3>2. CASE d # c
      <4>1. cond_waiters'[d] = cond_waiters[d] /\ NoDuplicates(cond_waiters[d])
        BY <1>3, <3>2, Zenon DEF SignalInv
      <4> QED BY <4>1, Zenon DEF NoDuplicates
    <3> QED BY <3>1, <3>2
  <2>2. ASSUME NEW t \in Thread PROVE Listed(t, c)' <=> Listed(t, c) \/ t = u
    BY <1>2, <1>3, <1>8, SMTT(60) DEF Listed, Elems
  <2>3. ASSUME NEW t \in Thread, NEW d \in Cond \ {c} PROVE Listed(t, d)' <=> Listed(t, d)
    BY <1>3, SMTT(60) DEF Listed, Elems
  <2> QED BY <1>6, <2>1, <2>2, <2>3, Zenon
<1>10. ASSUME NEW t \in Thread PROVE SignalOf(t)' /\ EnteringOf(t)' /\ BroadcastOf(t)'
  <2>1. SignalOf(t) /\ EnteringOf(t) /\ BroadcastOf(t)  BY DEF SignalInv
  <2>2. CASE t = u
    <3>1. SignalOf(u)'  BY <1>3, <1>4, <1>9, Zenon DEF SignalOf
    <3>2. LastIs(cond_waiters[c], u)'
      <4>1. PICK q \in Seq(Thread) : q = Append(list, u)  BY PushBack, Zenon
      <4>2. Len(q) > 0 /\ q[Len(q)] = u  BY <4>1, SMTT(60)
      <4>3. cond_waiters'[c] = q  BY <1>3, <4>1, Zenon
      <4> QED BY <4>2, <4>3 DEF LastIs
    <3> QED BY <1>3, <2>2, <3>1, <3>2, ZenonT(60) DEF EnteringOf, BroadcastOf
  <2>3. CASE t # u
    <3>1. SignalOf(t)'  BY <1>3, <1>5, <1>9, <2>1, <2>3, Zenon DEF SignalOf
    <3>2. EnteringOf(t)'
      <4> SUFFICES ASSUME Entering(t)
                   PROVE  \E d \in Cond : CondLock[d] = arg[t]' /\ LastIs(cond_waiters[d], t)'
        BY <1>5, <2>3, ZenonT(60) DEF EnteringOf
      <4>1. PICK d \in Cond : CondLock[d] = arg[t] /\ LastIs(cond_waiters[d], t)
        BY <2>1, Zenon DEF EnteringOf
      <4>2. d # c  BY <1>7, <4>1
      <4> QED BY <1>3, <2>3, <4>1, <4>2, Zenon DEF LastIs
    <3>3. BroadcastOf(t)'  BY <1>3, <2>1, <2>3, ZenonT(60) DEF BroadcastOf
    <3> QED BY <3>1, <3>2, <3>3
  <2> QED BY <2>2, <2>3, Zenon
<1>11. SignalInv'  BY <1>9, <1>10, Zenon DEF SignalInv
<1>12. \A l \in Lock : OwnerOf(l)' = OwnerOf(l)
  BY <1>4, <1>5, SameOwner, Zenon DEF IInv
<1>13. ASSUME NEW d \in Cond PROVE WaitingOn(d)' = WaitingOn(d)
  <2>1. CASE d = c
    <3>0. Len(list) \in Nat  OBVIOUS
    <3>1. PICK q \in Seq(Thread), n \in Nat : q = Append(list, u) /\ n = Len(list)
      BY <3>0, PushBack, Zenon
    <3>2. Len(q) = n + 1 /\ q[n + 1] = u  BY <3>1
    <3>3. n + 1 > 0 /\ (n + 1) - 1 = n  OBVIOUS
    <3>4. cond_waiters'[c] = q /\ Entering(u)'  BY <1>3, <1>4, <3>1, Zenon
    <3>5. WaitingOn(c)' = SubSeq(q, 1, n)  BY <3>2, <3>3, <3>4, ZenonT(60) DEF WaitingOn
    <3> QED BY <1>7, <2>1, <3>1, <3>5, FrontOfAppend, Zenon
  <2>2. CASE d # c
    <3>1. PICK q \in Seq(Thread) : q = cond_waiters[d]  BY <1>0 DEF TypeOK
    <3>2. ASSUME Len(q) > 0 PROVE q[Len(q)] \in Thread \ {u}
      <4>1. Len(q) \in 1 .. Len(q) /\ q[Len(q)] \in Thread  BY <3>2, SMTT(60)
      <4>2. Listed(q[Len(q)], d)  BY <3>1, <4>1 DEF Listed, Elems
      <4> QED BY <1>6, <4>1, <4>2
    <3> QED BY <1>3, <1>5, <2>2, <3>1, <3>2, Zenon DEF WaitingOn
  <2> QED BY <2>1, <2>2, Zenon
<1>14. UNCHANGED Abstract!vars  BY <1>12, <1>13, Zenon DEF Abstract!vars
<1> QED BY <1>11, <1>14 DEF Simulated

\* cond_signal by the owner of the lock takes the first waiter, as Monitor's Signal.
LEMMA SignalSimulated ==
  ASSUME IInv, IInv', SignalInv, NEW u \in Thread, NEW c \in Cond,
         holder[CondLock[c]] = u, ~Entering(u), cond_signal(c), UNCHANGED frames
  PROVE  Simulated
<1>0. TypeOK  BY Zenon DEF IInv
<1>1. CASE cond_waiters[c] = <<>>
  <2>1. /\ UNCHANGED <<cond_waiters, holder, pc, sem, arg>>
        /\ \A t \in Thread : value'[t] = value[t]
    BY <1>1, Zenon DEF cond_signal, synch, frames
  <2> QED BY <2>1, SameFrames, Zenon
<1>2. CASE cond_waiters[c] # <<>>
  <2>1. PICK list \in Seq(Thread) : list = cond_waiters[c]  BY <1>0, Zenon DEF TypeOK
  <2>2. PICK h \in Thread : h = Head(list)  BY <1>2, <2>1, PopFront
  <2>3. PICK rest \in Seq(Thread) : rest = Tail(list)  BY <1>2, <2>1, PopFront, ZenonT(60)
  <2>4. /\ Elems(list) = Elems(rest) \cup {h}
        /\ NoDuplicates(rest) /\ h \notin Elems(rest)
    BY <1>2, <2>1, <2>2, <2>3, PopFront DEF SignalInv
  <2>5. /\ cond_waiters'[c] = rest
        /\ \A d \in Cond \ {c} : cond_waiters'[d] = cond_waiters[d]
        /\ value' = [value EXCEPT ![h] = @ + 1]
        /\ UNCHANGED <<holder, pc, sem, arg>>
    BY <1>0, <1>2, <2>1, <2>2, <2>3, Zenon DEF cond_signal, sema_up, frames, TypeOK
  <2>6. /\ \A t \in Thread : /\ AwaitsSignal(t)' <=> AwaitsSignal(t)
                             /\ Entering(t)' <=> Entering(t)
        /\ \A l \in Lock, t \in Thread : Owns(t, l)' <=> Owns(t, l)
    BY <2>5, Zenon DEF AwaitsSignal, Entering, Owns
  <2>7. /\ \A t \in Thread : Entering(t) => ~Listed(t, c)
        /\ WaitingOn(c) = list /\ OwnerOf(CondLock[c]) = u
    BY <2>1, NobodyEnters, ZenonT(60)
  <2>8. /\ \A t \in Thread \ {h}, d \in Cond : Listed(t, d)' <=> Listed(t, d)
        /\ Listed(h, c) /\ ~Listed(h, c)'
        /\ \A d \in Cond \ {c} : Listed(h, d)' <=> Listed(h, d)
    <3>1. \A t : Listed(t, c) <=> t \in Elems(rest) \cup {h}  BY <2>1, <2>4, Zenon DEF Listed
    <3>2. \A t : Listed(t, c)' <=> t \in Elems(rest)  BY <2>5 DEF Listed, Elems
    <3>3. \A t, d : d \in Cond \ {c} => (Listed(t, d)' <=> Listed(t, d))
      BY <2>5, Zenon DEF Listed, Elems
    <3> QED BY <2>4, <3>1, <3>2, <3>3
  <2>9. \A d \in Cond : NoDuplicates(cond_waiters[d])'
    BY <2>4, <2>5, ZenonT(60) DEF SignalInv, NoDuplicates
  <2>10. SignalOf(h)'
    <3>1. SignalOf(h)  BY ZenonT(60) DEF SignalInv
    <3>2. AwaitsSignal(h) /\ value[h] = 0 /\ \A d \in Cond : Listed(h, d) => d = c
      BY <2>8, <3>1, Zenon DEF SignalOf
    <3>3. value'[h] = 1
      <4>1. value'[h] = value[h] + 1  BY <1>0, <2>5, Zenon DEF TypeOK, SemaId
      <4> QED BY <3>2, <4>1
    <3>4. \A d \in Cond : ~Listed(h, d)'  BY <2>8, <3>2, ZenonT(60)
    <3> QED BY <2>6, <3>2, <3>3, <3>4 DEF SignalOf
  <2>11. ASSUME NEW t \in Thread PROVE SignalOf(t)' /\ EnteringOf(t)' /\ BroadcastOf(t)'
    <3>1. SignalOf(t) /\ EnteringOf(t) /\ BroadcastOf(t)  BY Zenon DEF SignalInv
    <3>2. SignalOf(t)'
      <4>1. CASE t = h  BY <2>10, <4>1, Zenon
      <4>2. CASE t # h
        <5>1. value'[t] = value[t]  BY <1>0, <2>5, <4>2, Zenon DEF TypeOK, SemaId
        <5> QED BY <2>6, <2>8, <3>1, <4>2, <5>1, Zenon DEF SignalOf
      <4> QED BY <4>1, <4>2
    <3>3. EnteringOf(t)'
      <4> SUFFICES ASSUME Entering(t)
                   PROVE  \E d \in Cond : CondLock[d] = arg'[t] /\ LastIs(cond_waiters[d], t)'
        BY <2>6, Zenon DEF EnteringOf
      <4>1. PICK d \in Cond : CondLock[d] = arg[t] /\ LastIs(cond_waiters[d], t)
        BY <3>1 DEF EnteringOf
      <4>2. d # c
        <5>1. PICK q \in Seq(Thread) : q = cond_waiters[d]  BY <1>0, Zenon DEF TypeOK
        <5>2. Len(q) \in 1 .. Len(q) /\ q[Len(q)] = t  BY <4>1, <5>1, SMTT(60) DEF LastIs
        <5>3. Listed(t, d)  BY <5>1, <5>2 DEF Listed, Elems
        <5> QED BY <2>7, <5>3, Zenon
      <4> QED BY <2>5, <4>1, <4>2, ZenonT(60) DEF LastIs
    <3>4. BroadcastOf(t)'  BY <2>5, <3>1, Zenon DEF BroadcastOf
    <3> QED BY <3>2, <3>3, <3>4, Zenon
  <2>12. SignalInv'  BY <2>9, <2>11, Zenon DEF SignalInv
  <2>13. \A l \in Lock : OwnerOf(l)' = OwnerOf(l)  BY <2>6, SameOwner, ZenonT(60) DEF IInv
  <2>14. \A d \in Cond \ {c} : WaitingOn(d)' = WaitingOn(d)
    BY <1>0, <2>5, <2>6, SameWaiting
  <2>15. WaitingOn(c)' = rest
    <3>1. ASSUME Len(rest) > 0 PROVE ~Entering(rest[Len(rest)])'
      <4>1. Len(rest) \in 1 .. Len(rest) /\ rest[Len(rest)] \in Thread  BY <3>1
      <4>2. Listed(rest[Len(rest)], c)  BY <2>1, <2>4, <4>1, Zenon DEF Listed, Elems
      <4> QED BY <2>6, <2>7, <4>1, <4>2, Zenon
    <3> QED BY <2>5, <3>1, Zenon DEF WaitingOn
  <2>16. Abstract!Signal(u, c)
    <3>1. CondLock[c] \in Lock  BY ThreadsAssumption
    <3>2. [l \in Lock |-> OwnerOf(l)]' = [l \in Lock |-> OwnerOf(l)]  BY <2>13, Zenon
    <3>3. [d \in Cond |-> WaitingOn(d)]'
            = [[d \in Cond |-> WaitingOn(d)] EXCEPT ![c] = Tail(@)]
      <4>1. WaitingOn(c)' = Tail(WaitingOn(c))  BY <2>3, <2>7, <2>14, <2>15, Zenon
      <4>2. \A d \in Cond \ {c} : WaitingOn(d)' = WaitingOn(d)  BY <2>14, <2>15, ZenonT(60)
      <4> QED BY <4>1, <4>2, Zenon
    <3>4. WaitingOn(c) # <<>>  BY <1>2, <2>1, <2>7, Zenon
    <3> QED BY <2>7, <3>1, <3>2, <3>3, <3>4, ZenonT(60) DEF Abstract!Signal
  <2> QED BY <2>12, <2>16, Zenon DEF Simulated, Abstract!Next
<1> QED BY <1>1, <1>2, Zenon

\* cond_signal and cond_broadcast take the first waiter off the list, as signal does in
\* Monitor.
LEMMA SignalsSimulated ==
  ASSUME IInv, IInv', SignalInv,
         CondBroadcastLoop \/ \E c \in Cond : CondSignal(c) \/ CondBroadcast(c)
  PROVE  Simulated
<1>0. TypeOK  BY Zenon DEF IInv
<1>1. PICK u \in Thread : u = current  BY <1>0, Zenon DEF TypeOK
<1>2. ASSUME NEW c \in Cond, CondSignal(c) PROVE Simulated
  BY <1>1, <1>2, SignalSimulated DEF CondSignal, At, Entering
<1>3. ASSUME NEW c \in Cond, CondBroadcast(c) PROVE Simulated
  <2>1. /\ UNCHANGED <<cond_waiters, holder, sem>>
        /\ holder[CondLock[c]] = u
        /\ \A t \in Thread : value'[t] = value[t]
        /\ \A t \in Thread \ {u} : pc'[t] = pc[t] /\ arg'[t] = arg[t]
        /\ pc[u] = "run" /\ pc'[u] = "bcast" /\ arg'[u] = c
    <3>1. /\ pc[u] = "run" /\ holder[CondLock[c]] = u
          /\ pc' = [pc EXCEPT ![u] = "bcast"] /\ arg' = [arg EXCEPT ![u] = c]
          /\ UNCHANGED <<value, cond_waiters, holder, sem>>
      BY <1>1, <1>3, Zenon DEF CondBroadcast, At, Goto, synch
    <3>2. DOMAIN pc = Thread /\ DOMAIN arg = Thread  BY <1>0, ZenonT(60) DEF TypeOK
    <3> QED BY <3>1, <3>2, Zenon
  <2>2. \A t \in Thread : /\ AwaitsSignal(t)' <=> AwaitsSignal(t)
                          /\ Entering(t)' <=> Entering(t)
                          /\ Entering(t) => t # u
    BY <2>1 DEF AwaitsSignal, Entering
  <2>3. \A l \in Lock, t \in Thread : Owns(t, l)' <=> Owns(t, l)  BY <2>1, ZenonT(60) DEF Owns
  <2>4. UNCHANGED Abstract!vars  BY <2>1, <2>2, <2>3, SameAbstract, Zenon
  <2>5. \A t, d : Listed(t, d)' <=> Listed(t, d)  BY <2>1, Zenon DEF Listed, Elems
  <2>6. \A d \in Cond : NoDuplicates(cond_waiters[d])'
    BY <2>1 DEF SignalInv, NoDuplicates
  <2>7. ASSUME NEW t \in Thread PROVE SignalOf(t)' /\ EnteringOf(t)' /\ BroadcastOf(t)'
    <3>1. SignalOf(t) /\ EnteringOf(t) /\ BroadcastOf(t)  BY Zenon DEF SignalInv
    <3>2. SignalOf(t)'
      <4>1. value'[t] = value[t] /\ (AwaitsSignal(t)' <=> AwaitsSignal(t))
        BY <2>1, <2>2, ZenonT(60)
      <4> QED BY <2>5, <3>1, <4>1, Zenon DEF SignalOf
    <3>3. EnteringOf(t)'
      <4>1. Entering(t) => arg'[t] = arg[t]  BY <2>1, <2>2
      <4> QED BY <2>1, <2>2, <3>1, <4>1, ZenonT(60) DEF EnteringOf, LastIs
    <3>4. BroadcastOf(t)'
      <4>1. CASE t = u
        <5>1. holder'[CondLock[arg'[t]]] = t  BY <2>1, <4>1, Zenon
        <5> QED BY <5>1, Zenon DEF BroadcastOf
      <4>2. CASE t # u
        <5>1. holder' = holder /\ pc'[t] = pc[t] /\ arg'[t] = arg[t]
          BY <2>1, <4>2, Zenon
        <5> QED BY <3>1, <5>1, Zenon DEF BroadcastOf
      <4> QED BY <4>1, <4>2, Zenon
    <3> QED BY <3>2, <3>3, <3>4, Zenon
  <2>8. SignalInv'  BY <2>6, <2>7, Zenon DEF SignalInv
  <2> QED BY <2>4, <2>8, Zenon DEF Simulated
<1>4. CASE CondBroadcastLoop
  <2>1. pc[u] = "bcast"  BY <1>1, <1>4, ZenonT(60) DEF CondBroadcastLoop, At
  <2>2. PICK c \in Cond : c = arg[u]  BY <2>1, ZenonT(60) DEF IInv, FrameInv, FrameOf
  <2>3. holder[CondLock[c]] = u  BY <2>1, <2>2, Zenon DEF SignalInv, BroadcastOf
  <2>4. CASE cond_signal(c) /\ UNCHANGED frames
    BY <2>1, <2>3, <2>4, SignalSimulated, Zenon DEF Entering
  <2>5. CASE Goto("run") /\ UNCHANGED <<sched, synch, sem>>
             /\ arg' = [arg EXCEPT ![u] = NULL]
    <3>1. /\ UNCHANGED <<cond_waiters, holder, sem>>
          /\ \A t \in Thread : value'[t] = value[t]
          /\ \A t \in Thread \ {u} : pc'[t] = pc[t] /\ arg'[t] = arg[t]
          /\ pc'[u] = "run"
      BY <1>0, <1>1, <2>5, Zenon DEF Goto, synch, TypeOK
    <3>2. /\ AwaitsSignal(u)' <=> AwaitsSignal(u)
          /\ ~Entering(u)' /\ ~Entering(u)
          /\ \A l \in Lock : Owns(u, l)' <=> Owns(u, l)
      BY <2>1, <3>1, Zenon DEF AwaitsSignal, Entering, Owns
    <3>3. Alone(u)  BY <3>1, <3>2, Zenon DEF Alone
    <3> QED BY <3>2, <3>3, StutterFrame
  <2> QED BY <1>1, <1>4, <2>2, <2>4, <2>5, Zenon DEF CondBroadcastLoop, frames
<1> QED BY <1>2, <1>3, <1>4

-----------------------------------------------------------------------------
(***************************************************************************)
(* The theorems                                                            *)
(***************************************************************************)

\* At boot nobody waits, and the initial states are initial states of Monitor.
LEMMA InitSignals == Init => SignalInv /\ Abstract!Init
<1> SUFFICES ASSUME Init PROVE SignalInv /\ Abstract!Init  OBVIOUS
<1>0. IInv  BY InitInvariant
<1>1. /\ \A c \in Cond : cond_waiters[c] = <<>>
      /\ \A l \in Lock : holder[l] = NULL
      /\ \A t \in Thread : pc[t] \notin {"own", "rel", "cw_release", "cw_rel", "cw_down",
                                         "down", "bcast"}
  BY DEF Init
<1>2. ASSUME NEW c \in Cond
      PROVE  NoDuplicates(cond_waiters[c]) /\ \A t : ~Listed(t, c)
  BY <1>1, EmptyList DEF Listed
<1>3. \A t \in Thread : ~AwaitsSignal(t) /\ ~Entering(t) /\ pc[t] # "bcast"
  BY <1>1, Zenon DEF AwaitsSignal, Entering
<1>4. SignalInv  BY <1>2, <1>3, Zenon DEF SignalInv, SignalOf, EnteringOf, BroadcastOf
<1>5. \A l \in Lock : OwnerOf(l) = NULL
  <2>1. \A l \in Lock, t \in Thread : ~Owns(t, l)  BY <1>1, ThreadsAssumption, Zenon DEF Owns
  <2> QED BY <1>0, <2>1, OwnerIs DEF IInv
<1>6. \A c \in Cond : WaitingOn(c) = <<>>  BY <1>1 DEF WaitingOn
<1> QED BY <1>4, <1>5, <1>6 DEF Abstract!Init

\* Every step keeps SignalInv and is a step of Monitor or none.
LEMMA NextSimulated == IInv /\ IInv' /\ SignalInv /\ [Next]_vars => Simulated
<1> SUFFICES ASSUME IInv, IInv', SignalInv, [Next]_vars PROVE Simulated  OBVIOUS
<1>1. CASE UNCHANGED vars
  <2>1. /\ UNCHANGED <<cond_waiters, holder, pc, sem, arg>>
        /\ \A t \in Thread : value'[t] = value[t]
    BY <1>1, Zenon DEF vars, synch, frames
  <2> QED BY <2>1, SameFrames, Zenon
<1>2. CASE Next
  BY <1>2, SchedulerSimulated, DownsSimulated, PlainSimulated, HolderSimulated,
     ReleaseSimulated, CondWaitSimulated, SignalsSimulated, Zenon
     DEF Next
<1> QED BY <1>1, <1>2

\* cond_wait and cond_signal: a thread in cond_wait is on the list of exactly one
\* condition variable or has been signalled once, wherever the signal falls between
\* its lock_release and its sema_down.
THEOREM SignalsNotLost == Spec => []NoLostSignal
<1>1. SignalInv => NoLostSignal
  <2> SUFFICES ASSUME SignalInv, NEW t \in Thread
               PROVE  /\ AwaitsSignal(t) =>
                           \/ /\ value[t] = 0
                              /\ \E c \in Cond : \A d \in Cond : Listed(t, d) <=> d = c
                           \/ value[t] = 1 /\ \A d \in Cond : ~Listed(t, d)
                      /\ ~AwaitsSignal(t) => \A d \in Cond : ~Listed(t, d)
    BY DEF NoLostSignal, Listed
  <2>1. SignalOf(t)  BY DEF SignalInv
  <2> QED BY <2>1, Zenon DEF SignalOf
<1>2. IInv /\ IInv' /\ SignalInv /\ [Next]_vars => SignalInv'
  BY NextSimulated DEF Simulated
<1> QED BY <1>1, <1>2, Invariance, InitSignals, PTL DEF Spec

\* threads/synch.c's locks and condition variables, with their interleavings, do what
\* Monitor says: cond_wait releases the lock and starts to wait in one step.
THEOREM MonitorImplemented == Spec => ImplementsMonitor
<1>1. Init => SignalInv /\ Abstract!Init  BY InitSignals
<1>2. /\ IInv /\ IInv' /\ SignalInv /\ [Next]_vars
           => SignalInv' /\ [Abstract!Next]_(Abstract!vars)
  BY NextSimulated DEF Simulated
<1> QED BY <1>1, <1>2, Invariance, PTL DEF Spec, ImplementsMonitor, Abstract!Spec
=============================================================================
