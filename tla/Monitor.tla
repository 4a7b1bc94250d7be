------------------------------ MODULE Monitor ------------------------------
(***************************************************************************)
(* What threads/synch.h promises to the code that uses locks and condition *)
(* variables: a lock has at most one owner, only its owner gives it up,    *)
(* and cond_wait "atomically releases LOCK and waits for COND to be        *)
(* signaled" (threads/synch.c:267).  Waiters are signalled in the order    *)
(* they came; a signalled thread acquires the lock again like any other.   *)
(***************************************************************************)
EXTENDS Sequences

CONSTANTS Thread, Lock, Cond, CondLock, NULL

VARIABLES owner, waiting

vars == <<owner, waiting>>

Init ==
  /\ owner = [l \in Lock |-> NULL]
  /\ waiting = [c \in Cond |-> <<>>]

Acquire(t, l) ==
  /\ owner[l] = NULL
  /\ owner' = [owner EXCEPT ![l] = t]
  /\ UNCHANGED waiting

Release(t, l) ==
  /\ owner[l] = t
  /\ owner' = [owner EXCEPT ![l] = NULL]
  /\ UNCHANGED waiting

Wait(t, c) ==
  /\ owner[CondLock[c]] = t
  /\ owner' = [owner EXCEPT ![CondLock[c]] = NULL]
  /\ waiting' = [waiting EXCEPT ![c] = Append(@, t)]

Signal(t, c) ==
  /\ owner[CondLock[c]] = t
  /\ waiting[c] # <<>>
  /\ waiting' = [waiting EXCEPT ![c] = Tail(@)]
  /\ UNCHANGED owner

Next ==
  \E t \in Thread :
    \/ \E l \in Lock : Acquire(t, l) \/ Release(t, l)
    \/ \E c \in Cond : Wait(t, c) \/ Signal(t, c)

Spec == Init /\ [][Next]_vars
============================================================================
