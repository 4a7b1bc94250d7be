----------------------------- MODULE AlarmClock -----------------------------
(***************************************************************************)
(* The alarm clock (devices/timer.c): timer_sleep and the timer interrupt. *)
(*                                                                         *)
(* timer_sleep computes its wake-up time, inserts the thread in wait_list  *)
(* with interrupts off, and downs the thread's own semaphore.  Interrupts  *)
(* are on between these steps, so the timer and other threads may come in  *)
(* between.  Only the distance of a wake-up time from the present matters: *)
(* due[t] is wakeup_time - ticks.                                          *)
(***************************************************************************)
EXTENDS Integers, Sequences, FiniteSets

CONSTANTS
  Thread,
  MaxSleep,   \* bound: threads sleep for -1 .. MaxSleep ticks
  MaxLate     \* bound: a wake-up time further in the past counts as this late

ASSUME AlarmAssumption == MaxSleep \in Nat /\ MaxLate \in Nat \ {0}

VARIABLES
  due,          \* wakeup_time - ticks
  wait_list,    \* threads waiting in timer_sleep
  timer_sema,   \* value of each thread's semaphore
  sleep         \* where each thread is in timer_sleep

alarmvars == <<due, wait_list, timer_sema, sleep>>

Due == (0 - MaxLate) .. MaxSleep

AlarmTypeOK ==
  /\ due \in [Thread -> Due]
  /\ wait_list \in Seq(Thread)
  /\ timer_sema \in [Thread -> Nat]
  /\ sleep \in [Thread -> {"awake", "insert", "inserted", "down"}]

\* A thread that has never slept has wakeup_time 0, as its page was zeroed.  The timer has
\* run for late ticks, or for longer if that is the bound.
AlarmInit(late) ==
  /\ due = [t \in Thread |-> 0 - late]
  /\ wait_list = <<>>
  /\ timer_sema = [t \in Thread |-> 0]
  /\ sleep = [t \in Thread |-> "awake"]

\* timer_sleep: schedule the wake-up time.  The argument may be 0 or negative.
TimerSleep(t, n) ==
  /\ sleep[t] = "awake"
  /\ due' = [due EXCEPT ![t] = n]
  /\ sleep' = [sleep EXCEPT ![t] = "insert"]
  /\ UNCHANGED <<wait_list, timer_sema>>

compare_threads_by_wakeup_time(a, b) == due[a] < due[b]

\* Mutant: the comparison of two wake-up times reversed.
list_insert_reversed(list, t) ==
  LET n == CHOOSE k \in 0 .. Len(list) :
             /\ \A i \in 1 .. k : ~compare_threads_by_wakeup_time(list[i], t)
             /\ k < Len(list) => compare_threads_by_wakeup_time(list[k + 1], t)
  IN  SubSeq(list, 1, n) \o <<t>> \o SubSeq(list, n + 1, Len(list))

\* The new element goes before the first one it is less than.
list_insert_ordered(list, t) ==
  LET n == CHOOSE k \in 0 .. Len(list) :
             /\ \A i \in 1 .. k : ~compare_threads_by_wakeup_time(t, list[i])
             /\ k < Len(list) => compare_threads_by_wakeup_time(t, list[k + 1])
  IN  SubSeq(list, 1, n) \o <<t>> \o SubSeq(list, n + 1, Len(list))

SleepInsert(t) ==
  /\ sleep[t] = "insert"
  /\ wait_list' = list_insert_ordered(wait_list, t)
  /\ sleep' = [sleep EXCEPT ![t] = "inserted"]
  /\ UNCHANGED <<due, timer_sema>>

SleepDown(t) ==
  /\ \/ /\ sleep[t] = "inserted" /\ timer_sema[t] = 0
        /\ sleep' = [sleep EXCEPT ![t] = "down"]
        /\ UNCHANGED timer_sema
     \/ /\ sleep[t] \in {"inserted", "down"} /\ timer_sema[t] > 0
        /\ timer_sema' = [timer_sema EXCEPT ![t] = @ - 1]
        /\ sleep' = [sleep EXCEPT ![t] = "awake"]
  /\ UNCHANGED <<due, wait_list>>

Elems(list) == {list[i] : i \in 1 .. Len(list)}

\* The number of threads at the front of list whose time has come.
Expired(list, now) ==
  CHOOSE k \in 0 .. Len(list) :
    /\ \A i \in 1 .. k : now[list[i]] <= 0
    /\ k < Len(list) => now[list[k + 1]] > 0

OneTick == [t \in Thread |-> IF due[t] = 0 - MaxLate THEN due[t] ELSE due[t] - 1]

\* Mutants of timer_interrupt: threads woken one tick early; only threads already
\* blocked in sema_down woken.
timer_interrupt_early ==
  LET now == OneTick
      k == Expired(wait_list, [t \in Thread |-> now[t] - 1])
  IN  /\ due' = now
      /\ wait_list' = SubSeq(wait_list, k + 1, Len(wait_list))
      /\ timer_sema' = [t \in Thread |-> IF t \in Elems(SubSeq(wait_list, 1, k))
                                         THEN timer_sema[t] + 1 ELSE timer_sema[t]]
      /\ UNCHANGED sleep

timer_interrupt_unblocks ==
  LET now == OneTick
      k == Expired(wait_list, now)
  IN  /\ due' = now
      /\ wait_list' = SubSeq(wait_list, k + 1, Len(wait_list))
      /\ timer_sema' = [t \in Thread |->
                          IF t \in Elems(SubSeq(wait_list, 1, k)) /\ sleep[t] = "down"
                          THEN timer_sema[t] + 1 ELSE timer_sema[t]]
      /\ UNCHANGED sleep

\* Every expired thread at the front of the list is upped and popped.
timer_interrupt ==
  LET now == OneTick
      k == Expired(wait_list, now)
  IN  /\ due' = now
      /\ wait_list' = SubSeq(wait_list, k + 1, Len(wait_list))
      /\ timer_sema' = [t \in Thread |-> IF t \in Elems(SubSeq(wait_list, 1, k))
                                         THEN timer_sema[t] + 1 ELSE timer_sema[t]]
      /\ UNCHANGED sleep

AlarmNext ==
  \/ \E t \in Thread : \/ \E n \in -1 .. MaxSleep : TimerSleep(t, n)
                       \/ SleepInsert(t)
                       \/ SleepDown(t)
  \/ timer_interrupt

(***************************************************************************)
(* The timer keeps interrupting and round robin lets every thread that is  *)
(* ready in timer_sleep run on.                                            *)
(***************************************************************************)
AlarmFairness ==
  /\ WF_alarmvars(timer_interrupt)
  /\ \A t \in Thread : WF_alarmvars(SleepInsert(t)) /\ WF_alarmvars(SleepDown(t))

AlarmSpec == (\E late \in 0 .. MaxLate : AlarmInit(late)) /\ [][AlarmNext]_alarmvars
-----------------------------------------------------------------------------

\* timer_sleep waits for at least the requested ticks: a thread whose semaphore
\* has been upped, whenever it looks, is past its wake-up time.
NeverEarly == \A t \in Thread : timer_sema[t] > 0 => due[t] <= 0

\* Each sleep has exactly one alarm: from the insertion in wait_list until it
\* wakes up a thread is on the list once or has one unit on its semaphore, also
\* when the interrupt comes before its sema_down; at any other time it has
\* neither, so no alarm is left over for its next sleep.  All variables keep their
\* types.
OneAlarm ==
  /\ AlarmTypeOK
  /\ \A t \in Thread :
       LET listed == Cardinality({i \in 1 .. Len(wait_list) : wait_list[i] = t})
       IN  timer_sema[t] + listed = IF sleep[t] \in {"inserted", "down"} THEN 1 ELSE 0

\* The handler looks only at the front of wait_list.  That is enough: after an
\* interrupt no thread whose time has come is on the list, however late it was
\* inserted.
NoneOverdue ==
  [][timer_interrupt => \A t \in Elems(wait_list') : due'[t] > 0]_alarmvars

\* Every sleep ends.
SleeperWakes == \A t \in Thread : sleep[t] # "awake" ~> sleep[t] = "awake"
=============================================================================
