------------------------------ MODULE Threads ------------------------------
(***************************************************************************)
(* The kernel's thread scheduler (threads/thread.c) and its semaphores,    *)
(* locks and condition variables (threads/synch.c).                        *)
(*                                                                         *)
(* The machine has one processor.  Code that runs with interrupts disabled *)
(* is one atomic step, except that a thread which blocks inside such code  *)
(* resumes later, still with interrupts off, where it left off.  Wherever  *)
(* interrupts are enabled the timer may preempt the running thread.        *)
(*                                                                         *)
(* What the threads are for is left open: a thread in kernel or user code  *)
(* calls any primitive whose ASSERTs its caller can satisfy.               *)
(***************************************************************************)
EXTENDS Naturals, Sequences, FiniteSets

CONSTANTS
  Thread,        \* pages that hold a struct thread
  Main, Idle,    \* initial_thread, and the page thread_start gives to idle()
  Sema,          \* semaphores used for themselves
  Lock,          \* locks; a lock also names its semaphore
  Cond,          \* condition variables
  CondLock,      \* the one lock that protects a condition variable
  IdleStarted,   \* the semaphore idle_started on main's stack
  InitValue,     \* value given to sema_init for each member of Sema
  TIME_SLICE,    \* timer ticks given to each thread
  MaxValue,      \* bound: ups of a plain semaphore stop at this value
  NULL

ASSUME ThreadsAssumption ==
  /\ Main \in Thread /\ Idle \in Thread /\ Main # Idle
  /\ NULL \notin Thread
  /\ Thread \cap Sema = {} /\ Thread \cap Lock = {} /\ Sema \cap Lock = {}
  /\ IdleStarted \notin Thread \cup Sema \cup Lock
  /\ CondLock \in [Cond -> Lock]
  /\ InitValue \in [Sema -> Nat]
  /\ TIME_SLICE \in Nat \ {0}
  /\ MaxValue \in Nat

(***************************************************************************)
(* A thread waits in cond_wait on a semaphore in its own stack frame; that *)
(* semaphore is named by the thread.                                       *)
(***************************************************************************)
SemaId == Sema \cup Lock \cup Thread \cup {IdleStarted}

VARIABLES
  status,        \* enum thread_status of each page, "FREE" if it holds none
  ready_list,    \* the run queue
  current,       \* running_thread ()
  idle_thread,   \* set by idle () once it has run
  intr,          \* the interrupt level, "ON" or "OFF"
  thread_ticks,  \* ticks since the last switch
  value,         \* value of each semaphore
  waiters,       \* wait list of each semaphore
  holder,        \* holder of each lock
  cond_waiters,  \* wait list of each condition variable
  pc,            \* where each thread is inside the primitives
  sem,           \* the semaphore a thread downs or waits on in sema_down
  arg            \* the lock or condition variable a primitive in progress uses

sched == <<status, ready_list, current, idle_thread, intr, thread_ticks>>
synch == <<value, waiters, holder, cond_waiters>>
frames == <<pc, sem, arg>>
vars == <<sched, synch, frames>>

Status == {"FREE", "RUNNING", "READY", "BLOCKED", "DYING"}

(***************************************************************************)
(* Program points.  "run": outside the primitives.  "down": blocked in the *)
(* loop of sema_down.  "own": between sema_down and the assignment of      *)
(* holder.  "rel": between clearing holder and sema_up.  "cw_...": the     *)
(* calls of cond_wait in order.  "bcast": in the loop of cond_broadcast.   *)
(* "boot", "booted": main before and in thread_start.  "idle0" .. "idle2", *)
(* "hlt": the idle thread.                                                 *)
(***************************************************************************)
Label == {"run", "down", "own", "rel", "cw_release", "cw_rel", "cw_down",
          "cw_acq", "bcast", "boot", "booted", "idle0", "idle1", "idle2", "hlt"}

TypeOK ==
  /\ status \in [Thread -> Status]
  /\ ready_list \in Seq(Thread)
  /\ current \in Thread
  /\ idle_thread \in {NULL, Idle}
  /\ intr \in {"ON", "OFF"}
  /\ thread_ticks \in 0 .. TIME_SLICE - 1
  /\ value \in [SemaId -> Nat]
  /\ waiters \in [SemaId -> Seq(Thread)]
  /\ holder \in [Lock -> Thread \cup {NULL}]
  /\ cond_waiters \in [Cond -> Seq(Thread)]
  /\ pc \in [Thread -> Label]
  /\ sem \in [Thread -> SemaId \cup {NULL}]
  /\ arg \in [Thread -> Lock \cup Cond \cup {NULL}]

(***************************************************************************)
(* Initially thread_init has run: main is the running thread, interrupts   *)
(* are off, every list is empty and idle_thread is not set.                *)
(***************************************************************************)
thread_init ==
  /\ status = [t \in Thread |-> IF t = Main THEN "RUNNING" ELSE "FREE"]
  /\ ready_list = <<>>
  /\ current = Main
  /\ idle_thread = NULL
  /\ intr = "OFF"
  /\ thread_ticks = 0

sema_init(s) == IF s \in Lock THEN 1 ELSE IF s \in Sema THEN InitValue[s] ELSE 0

Init ==
  /\ thread_init
  /\ value = [s \in SemaId |-> sema_init(s)]
  /\ waiters = [s \in SemaId |-> <<>>]
  /\ holder = [l \in Lock |-> NULL]
  /\ cond_waiters = [c \in Cond |-> <<>>]
  /\ pc = [t \in Thread |-> IF t = Main THEN "boot" ELSE "run"]
  /\ sem = [t \in Thread |-> NULL]
  /\ arg = [t \in Thread |-> NULL]

Goto(l) == pc' = [pc EXCEPT ![current] = l]

At(l) == intr = "ON" /\ pc[current] = l

-----------------------------------------------------------------------------
(***************************************************************************)
(* thread.c                                                                *)
(***************************************************************************)

next_thread_to_run(rl) == IF rl = <<>> THEN idle_thread ELSE Head(rl)

\* The status of every thread once thread_schedule_tail has run in next: a
\* dying thread that was switched away from loses its page, initial_thread
\* excepted.
thread_schedule_tail(st, next) ==
  [t \in Thread |-> IF t = next THEN "RUNNING"
                    ELSE IF st[t] = "DYING" /\ t # Main THEN "FREE" ELSE st[t]]

\* The caller has put the running thread's new status in st and the run queue
\* in rl.  A thread that blocked in sema_down resumes with interrupts off;
\* every other point where a thread can be switched in enables them.
schedule(st, rl) ==
  LET next == next_thread_to_run(rl)
  IN  /\ current' = next
      /\ status' = thread_schedule_tail(st, next)
      /\ ready_list' = IF rl = <<>> THEN rl ELSE Tail(rl)
      /\ thread_ticks' = 0
      /\ intr' = IF next # NULL /\ pc[next] = "down" THEN "OFF" ELSE "ON"

thread_block == schedule([status EXCEPT ![current] = "BLOCKED"], ready_list)

thread_unblock(t) ==
  /\ ready_list' = Append(ready_list, t)
  /\ status' = [status EXCEPT ![t] = "READY"]

\* Mutants of thread_yield: the test for the idle thread inverted; the caller
\* put back at the front of the run queue.
thread_yield_inverted ==
  schedule([status EXCEPT ![current] = "READY"],
           IF current = idle_thread THEN Append(ready_list, current)
                                    ELSE ready_list)

thread_yield_to_front ==
  schedule([status EXCEPT ![current] = "READY"],
           IF current # idle_thread THEN <<current>> \o ready_list
                                    ELSE ready_list)

thread_yield ==
  schedule([status EXCEPT ![current] = "READY"],
           IF current # idle_thread THEN Append(ready_list, current)
                                    ELSE ready_list)

\* An interrupt ends the idle thread's hlt.
EndHlt == IF pc[current] = "hlt" THEN Goto("idle2") ELSE UNCHANGED pc

\* The timer interrupt, with the yield it asks for on return.
Tick ==
  /\ intr = "ON"
  /\ IF thread_ticks + 1 >= TIME_SLICE
     THEN thread_yield
     ELSE /\ thread_ticks' = thread_ticks + 1
          /\ UNCHANGED <<status, ready_list, current, intr>>
  /\ EndHlt
  /\ UNCHANGED <<idle_thread, synch, sem, arg>>

ThreadYield ==
  /\ At("run")
  /\ thread_yield
  /\ UNCHANGED <<idle_thread, synch, frames>>

\* allocate_tid's acquisition and release of tid_lock are LockAcquire and
\* LockRelease steps of the caller before this one.  A failed palloc_get_page
\* leaves everything as it was.
ThreadCreate(t) ==
  /\ At("run")
  /\ status[t] = "FREE"
  /\ thread_unblock(t)
  /\ pc' = [pc EXCEPT ![t] = "run"]
  /\ UNCHANGED <<current, idle_thread, intr, thread_ticks, synch, sem, arg>>

\* Callers hold no lock: a lock is released by the thread that acquired it.
ThreadExit ==
  /\ At("run")
  /\ \A l \in Lock : holder[l] # current
  /\ schedule([status EXCEPT ![current] = "DYING"], ready_list)
  /\ UNCHANGED <<idle_thread, synch, frames>>

\* main: create the idle thread, enable interrupts, wait for it to start.
ThreadStart ==
  /\ pc[current] = "boot"
  /\ thread_unblock(Idle)
  /\ pc' = [pc EXCEPT ![Idle] = "idle0", ![current] = "booted"]
  /\ intr' = "ON"
  /\ UNCHANGED <<current, idle_thread, thread_ticks, synch, sem, arg>>

IdleSetsItself ==
  /\ At("idle0")
  /\ idle_thread' = current
  /\ Goto("idle1")
  /\ UNCHANGED <<status, ready_list, current, intr, thread_ticks, synch, sem, arg>>

IdleBlocks ==
  /\ At("idle2")
  /\ thread_block
  /\ Goto("hlt")
  /\ UNCHANGED <<idle_thread, synch, sem, arg>>

-----------------------------------------------------------------------------
(***************************************************************************)
(* synch.c                                                                 *)
(***************************************************************************)

\* Where the caller of sema_down(s) continues: lock_acquire, cond_wait or code
\* outside this file.
After(s) == IF s \in Lock THEN "own" ELSE IF s \in Thread THEN "cw_acq" ELSE "run"

\* One turn of sema_down's loop; a thread that is switched in again takes
\* another turn.
sema_down(s) ==
  /\ \/ /\ value[s] = 0
        /\ sem' = [sem EXCEPT ![current] = s]
        /\ waiters' = [waiters EXCEPT ![s] = Append(@, current)]
        /\ thread_block
        /\ Goto("down")
        /\ UNCHANGED value
     \/ /\ value[s] > 0
        /\ sem' = [sem EXCEPT ![current] = IF s \in Lock THEN s ELSE NULL]
        /\ value' = [value EXCEPT ![s] = @ - 1]
        /\ intr' = "ON"
        /\ Goto(After(s))
        /\ UNCHANGED <<status, ready_list, current, thread_ticks, waiters>>
  /\ UNCHANGED <<idle_thread, holder, cond_waiters, arg>>

\* Mutant: "if" for "while", a woken thread does not look at the value again.
SemaDownLoop_if ==
  /\ intr = "OFF"
  /\ pc[current] = "down"
  /\ sem' = [sem EXCEPT ![current] = IF @ \in Lock THEN @ ELSE NULL]
  /\ value' = [value EXCEPT ![sem[current]] = @ - 1]
  /\ intr' = "ON"
  /\ Goto(After(sem[current]))
  /\ UNCHANGED <<status, ready_list, current, thread_ticks, waiters, idle_thread,
                 holder, cond_waiters, arg>>

SemaDownLoop ==
  /\ intr = "OFF"
  /\ pc[current] = "down"
  /\ sema_down(sem[current])

\* Mutant: sema_try_down without the test of the value.
sema_try_down_always(s) ==
  /\ value' = [value EXCEPT ![s] = @ - 1]
  /\ UNCHANGED waiters

sema_try_down(s) ==
  /\ value[s] > 0
  /\ value' = [value EXCEPT ![s] = @ - 1]
  /\ UNCHANGED waiters

\* Mutants of sema_up: list_front for list_pop_front; a waiter woken only when
\* the value was 0.
sema_up_front(s) ==
  /\ IF waiters[s] = <<>> THEN UNCHANGED <<status, ready_list>>
                           ELSE thread_unblock(Head(waiters[s]))
  /\ value' = [value EXCEPT ![s] = @ + 1]
  /\ UNCHANGED <<waiters, current, idle_thread, intr, thread_ticks>>

sema_up_from_zero(s) ==
  /\ IF waiters[s] = <<>> \/ value[s] > 0
     THEN UNCHANGED <<waiters, status, ready_list>>
     ELSE /\ waiters' = [waiters EXCEPT ![s] = Tail(@)]
          /\ thread_unblock(Head(waiters[s]))
  /\ value' = [value EXCEPT ![s] = @ + 1]
  /\ UNCHANGED <<current, idle_thread, intr, thread_ticks>>

sema_up(s) ==
  /\ \/ /\ waiters[s] = <<>>
        /\ UNCHANGED <<waiters, status, ready_list>>
     \/ /\ waiters[s] # <<>>
        /\ waiters' = [waiters EXCEPT ![s] = Tail(@)]
        /\ thread_unblock(Head(waiters[s]))
  /\ value' = [value EXCEPT ![s] = @ + 1]
  /\ UNCHANGED <<current, idle_thread, intr, thread_ticks>>

SemaDown(s) == At("run") /\ sema_down(s)

\* A failed try changes nothing.
SemaTryDown(s) ==
  /\ At("run")
  /\ sema_try_down(s)
  /\ UNCHANGED <<sched, holder, cond_waiters, frames>>

SemaUp(s) ==
  /\ At("run")
  /\ value[s] < MaxValue
  /\ sema_up(s)
  /\ UNCHANGED <<holder, cond_waiters, frames>>

\* A device's interrupt handler ups a semaphore.
InterruptUp(s) ==
  /\ intr = "ON"
  /\ value[s] < MaxValue
  /\ sema_up(s)
  /\ EndHlt
  /\ UNCHANGED <<holder, cond_waiters, sem, arg>>

StartDown == At("booted") /\ sema_down(IdleStarted)

IdleUps ==
  /\ At("idle1")
  /\ sema_up(IdleStarted)
  /\ Goto("idle2")
  /\ UNCHANGED <<holder, cond_waiters, sem, arg>>

LockAcquire(l) ==
  /\ At("run")
  /\ holder[l] # current
  /\ sema_down(l)

\* lock_acquire and lock_try_acquire record the owner only after the semaphore
\* is down and interrupts are on again.
SetHolder ==
  /\ At("own")
  /\ holder' = [holder EXCEPT ![sem[current]] = current]
  /\ Goto("run")
  /\ sem' = [sem EXCEPT ![current] = NULL]
  /\ arg' = [arg EXCEPT ![current] = NULL]
  /\ UNCHANGED <<sched, value, waiters, cond_waiters>>

LockTryAcquire(l) ==
  /\ At("run")
  /\ holder[l] # current
  /\ sema_try_down(l)
  /\ sem' = [sem EXCEPT ![current] = l]
  /\ Goto("own")
  /\ UNCHANGED <<sched, holder, cond_waiters, arg>>

LockRelease(l) ==
  /\ At("run")
  /\ holder[l] = current
  /\ holder' = [holder EXCEPT ![l] = NULL]
  /\ arg' = [arg EXCEPT ![current] = l]
  /\ Goto("rel")
  /\ UNCHANGED <<sched, value, waiters, cond_waiters, sem>>

ReleaseUp ==
  /\ \/ /\ At("rel")
        /\ Goto("run")
        /\ arg' = [arg EXCEPT ![current] = NULL]
     \/ /\ At("cw_rel")
        /\ Goto("cw_down")
        /\ UNCHANGED arg
  /\ sema_up(arg[current])
  /\ UNCHANGED <<holder, cond_waiters, sem>>

\* Mutant: list_push_front for list_push_back.
CondWait_front(c) ==
  /\ At("run")
  /\ holder[CondLock[c]] = current
  /\ value' = [value EXCEPT ![current] = 0]
  /\ waiters' = [waiters EXCEPT ![current] = <<>>]
  /\ cond_waiters' = [cond_waiters EXCEPT ![c] = <<current>> \o @]
  /\ arg' = [arg EXCEPT ![current] = CondLock[c]]
  /\ Goto("cw_release")
  /\ UNCHANGED <<sched, holder, sem>>

CondWait(c) ==
  /\ At("run")
  /\ holder[CondLock[c]] = current
  /\ value' = [value EXCEPT ![current] = 0]
  /\ waiters' = [waiters EXCEPT ![current] = <<>>]
  /\ cond_waiters' = [cond_waiters EXCEPT ![c] = Append(@, current)]
  /\ arg' = [arg EXCEPT ![current] = CondLock[c]]
  /\ Goto("cw_release")
  /\ UNCHANGED <<sched, holder, sem>>

CondWaitRelease ==
  /\ At("cw_release")
  /\ holder' = [holder EXCEPT ![arg[current]] = NULL]
  /\ Goto("cw_rel")
  /\ UNCHANGED <<sched, value, waiters, cond_waiters, sem, arg>>

\* Mutant: cond_wait initialises its semaphore after it has released the lock.
CondWaitDown_late_init ==
  /\ At("cw_down")
  /\ sem' = [sem EXCEPT ![current] = current]
  /\ value' = [value EXCEPT ![current] = 0]
  /\ waiters' = [waiters EXCEPT ![current] = <<current>>]
  /\ thread_block
  /\ Goto("down")
  /\ UNCHANGED <<idle_thread, holder, cond_waiters, arg>>

CondWaitDown == At("cw_down") /\ sema_down(current)

CondWaitAcquire == At("cw_acq") /\ sema_down(arg[current])

\* Popping the waiter and upping its semaphore are one step: only the thread
\* that holds the condition's lock reads or writes the list.
cond_signal(c) ==
  \/ /\ cond_waiters[c] = <<>>
     /\ UNCHANGED <<sched, synch>>
  \/ /\ cond_waiters[c] # <<>>
     /\ cond_waiters' = [cond_waiters EXCEPT ![c] = Tail(@)]
     /\ sema_up(Head(cond_waiters[c]))
     /\ UNCHANGED holder

CondSignal(c) ==
  /\ At("run")
  /\ holder[CondLock[c]] = current
  /\ cond_signal(c)
  /\ UNCHANGED frames

CondBroadcast(c) ==
  /\ At("run")
  /\ holder[CondLock[c]] = current
  /\ arg' = [arg EXCEPT ![current] = c]
  /\ Goto("bcast")
  /\ UNCHANGED <<sched, synch, sem>>

CondBroadcastLoop ==
  /\ At("bcast")
  /\ \/ /\ cond_waiters[arg[current]] # <<>>
        /\ cond_signal(arg[current])
        /\ UNCHANGED <<pc, arg>>
     \/ /\ cond_waiters[arg[current]] = <<>>
        /\ Goto("run")
        /\ arg' = [arg EXCEPT ![current] = NULL]
        /\ UNCHANGED <<sched, synch>>
  /\ UNCHANGED sem

-----------------------------------------------------------------------------

Next ==
  \/ Tick \/ ThreadYield \/ ThreadExit \/ ThreadStart
  \/ IdleSetsItself \/ IdleBlocks \/ IdleUps \/ StartDown
  \/ \E t \in Thread : ThreadCreate(t)
  \/ SemaDownLoop
  \/ \E s \in Sema : SemaDown(s) \/ SemaTryDown(s) \/ SemaUp(s) \/ InterruptUp(s)
  \/ \E l \in Lock : LockAcquire(l) \/ LockTryAcquire(l) \/ LockRelease(l)
  \/ SetHolder \/ ReleaseUp
  \/ \E c \in Cond : CondWait(c) \/ CondSignal(c) \/ CondBroadcast(c)
  \/ CondWaitRelease \/ CondWaitDown \/ CondWaitAcquire \/ CondBroadcastLoop

(***************************************************************************)
(* The timer keeps ticking, and a thread inside a primitive keeps running  *)
(* it.  Nothing is assumed of the code outside the primitives.             *)
(***************************************************************************)
Fairness == WF_vars(Tick) /\ WF_vars(SemaDownLoop) /\ WF_vars(ThreadStart)

Spec == Init /\ [][Next]_vars

FairSpec == Spec /\ Fairness
-----------------------------------------------------------------------------
(***************************************************************************)
(* Properties                                                              *)
(***************************************************************************)

Elems(list) == {list[i] : i \in 1 .. Len(list)}

NoDuplicates(list) ==
  \A i, j \in 1 .. Len(list) : list[i] = list[j] => i = j

\* thread.h gives a thread one list element for the run queue and for semaphore
\* wait lists, "only because they are mutually exclusive".  No thread is ever on
\* two of these lists, or twice on one: a thread on the run queue is ready, a
\* thread on a semaphore's list is blocked in sema_down on that semaphore.
ElemExclusive ==
  /\ NoDuplicates(ready_list)
  /\ \A t \in Elems(ready_list) : status[t] = "READY"
  /\ \A s \in SemaId :
       /\ NoDuplicates(waiters[s])
       /\ \A t \in Elems(waiters[s]) :
            status[t] = "BLOCKED" /\ pc[t] = "down" /\ sem[t] = s

\* No thread is forgotten: whoever is ready is on the run queue and whoever is
\* blocked is on the wait list of the semaphore it downs, except the idle
\* thread, which schedule finds without a list; and the only running thread is
\* the one on the processor.
NoThreadForgotten ==
  \A t \in Thread :
    /\ status[t] = "RUNNING" <=> t = current
    /\ status[t] = "READY" /\ t # idle_thread => t \in Elems(ready_list)
    /\ status[t] = "BLOCKED" /\ t # idle_thread =>
         sem[t] \in SemaId /\ t \in Elems(waiters[sem[t]])

\* t is between taking lock l's semaphore and giving it back.
Owns(t, l) ==
  \/ pc[t] = "own" /\ sem[t] = l
  \/ holder[l] = t
  \/ pc[t] \in {"rel", "cw_rel"} /\ arg[t] = l

\* A lock is a semaphore of value 1 that its owner keeps at 0: it is free or has
\* exactly one owner, through every preemption between lock_acquire's sema_down
\* and its assignment of holder, and between lock_release's two statements.
MutualExclusion ==
  \A l \in Lock :
    /\ value[l] \in {0, 1}
    /\ value[l] = 1 => \A t \in Thread : ~Owns(t, l)
    /\ value[l] = 0 => \E t \in Thread : Owns(t, l)
    /\ \A t, u \in Thread : Owns(t, l) /\ Owns(u, l) => t = u

\* sema_up wakes one waiter but leaves the value for anyone to take, so a woken
\* thread may have to wait again.  No wake-up is lost for that: as long as
\* somebody waits, at least as many threads have been woken and have not yet
\* looked at the value as there are units to take.
Woken(s) == {t \in Thread : /\ pc[t] = "down" /\ sem[t] = s
                            /\ status[t] \in {"READY", "RUNNING"}}

NoLostWakeup ==
  \A s \in SemaId : waiters[s] # <<>> => value[s] <= Cardinality(Woken(s))

\* t has called cond_wait and has not yet passed its waiter semaphore.
AwaitsSignal(t) ==
  \/ pc[t] \in {"cw_release", "cw_rel", "cw_down"}
  \/ pc[t] = "down" /\ sem[t] = t

\* cond_wait: a thread that will wait on its semaphore is either still on the
\* list of one condition variable or has been signalled, once, also when the
\* signal comes between its lock_release and its sema_down.
NoLostSignal ==
  \A t \in Thread :
    LET On(c) == t \in Elems(cond_waiters[c])
    IN  /\ AwaitsSignal(t) =>
             \/ value[t] = 0 /\ \E c \in Cond : \A d \in Cond : On(d) <=> d = c
             \/ value[t] = 1 /\ \A d \in Cond : ~On(d)
        /\ ~AwaitsSignal(t) => \A d \in Cond : ~On(d)

\* Round robin does not starve: every thread on the run queue gets the
\* processor, whatever the others do.
ReadyThreadRuns ==
  \A t \in Thread \ {Idle} : status[t] = "READY" ~> status[t] = "RUNNING"

(***************************************************************************)
(* The inductive invariant behind ElemExclusive, NoThreadForgotten and     *)
(* MutualExclusion: what the fields of a frame hold at each program point, *)
(* the few states the kernel passes through before idle_thread is set, and *)
(* the three ways of owning a lock excluding one another.                  *)
(***************************************************************************)
IdleLabel == {"idle0", "idle1", "idle2", "hlt"}

FrameOf(t) ==
  /\ pc[t] = "own" => sem[t] \in Lock
  /\ pc[t] = "down" => sem[t] \in SemaId
  /\ pc[t] = "down" /\ sem[t] \in Thread => sem[t] = t /\ arg[t] \in Lock
  /\ pc[t] \in {"rel", "cw_release", "cw_rel", "cw_down", "cw_acq"} => arg[t] \in Lock
  /\ pc[t] = "bcast" => arg[t] \in Cond
  /\ pc[t] \in IdleLabel => t = Idle
  /\ pc[t] \in {"boot", "booted"} => t = Main
  /\ pc[t] = "boot" => t = current /\ intr = "OFF" /\ idle_thread = NULL
  /\ status[t] = "FREE" => pc[t] = "run"
  /\ status[t] = "DYING" => t = Main

IdleFrame ==
  /\ status[Idle] # "FREE" => pc[Idle] \in IdleLabel
  /\ pc[Idle] \in {"idle1", "idle2", "hlt"} => idle_thread = Idle
  /\ idle_thread = Idle => status[Idle] # "FREE" /\ pc[Idle] # "idle0"
  /\ intr = "OFF" => pc[current] \in {"boot", "down"}
  /\ intr = "ON" => pc[current] \notin {"boot", "down"}

FrameInv == (\A t \in Thread : FrameOf(t)) /\ IdleFrame

BootInv ==
  idle_thread = NULL =>
    /\ \A s \in SemaId \ {IdleStarted} : waiters[s] = <<>>
    /\ value[IdleStarted] = 0
    /\ \/ /\ current = Main /\ pc[Main] = "boot"
          /\ ready_list = <<>> /\ status[Idle] = "FREE"
       \/ /\ pc[Idle] = "idle0"
          /\ \/ current = Idle /\ ready_list = <<>> /\ pc[Main] = "down"
             \/ current = Idle /\ ready_list = <<Main>> /\ pc[Main] = "booted"
             \/ current = Main /\ ready_list = <<Idle>> /\ pc[Main] = "booted"

HolderInv ==
  /\ \A l \in Lock, t \in Thread :
       \/ pc[t] = "own" /\ sem[t] = l
       \/ pc[t] \in {"rel", "cw_rel"} /\ arg[t] = l
       => holder[l] = NULL
  /\ \A t \in Thread : pc[t] = "cw_release" => holder[arg[t]] = t

IInv ==
  /\ TypeOK /\ FrameInv /\ BootInv
  /\ ElemExclusive /\ NoThreadForgotten /\ HolderInv /\ MutualExclusion

(***************************************************************************)
(* The refinement mapping to Monitor.  A lock is taken with its semaphore, *)
(* before holder says so, and is given up with its semaphore.  A thread    *)
(* that cond_wait has put on the list waits from the moment the lock is    *)
(* given up; until then it is the last on the list.                        *)
(***************************************************************************)
OwnerOf(l) ==
  IF \E t \in Thread : Owns(t, l) THEN CHOOSE t \in Thread : Owns(t, l) ELSE NULL

Entering(t) == pc[t] \in {"cw_release", "cw_rel"}

WaitingOn(c) ==
  LET list == cond_waiters[c]
      n == Len(list)
  IN  IF n > 0 /\ Entering(list[n]) THEN SubSeq(list, 1, n - 1) ELSE list

Abstract == INSTANCE Monitor WITH
  owner <- [l \in Lock |-> OwnerOf(l)],
  waiting <- [c \in Cond |-> WaitingOn(c)]

\* lock_acquire, lock_release, cond_wait, cond_signal and cond_broadcast, built
\* from semaphores and preemptible between every two of their steps, implement
\* locks and condition variables with atomic operations.
ImplementsMonitor == Abstract!Spec
============================================================================
