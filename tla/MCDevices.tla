----------------------------- MODULE MCDevices ------------------------------
(***************************************************************************)
(* Terminal, Disk and AlarmClock for model checking.  They share no state, *)
(* so each is explored while the others are switched off.                  *)
(***************************************************************************)
EXTENDS Terminal, Disk, AlarmClock

CONSTANTS main, other

VARIABLE part   \* what is switched on

MCText == main :> <<65, 66>> @@ other :> <<67, 10, 68>>

\* A, left Ctrl down, right Alt down and up, Caps Lock, Delete.
MCKeyEvent == {<<30>>, <<29>>, <<224, 56>>, <<224, 184>>, <<58>>, <<83>>}

\* Much output and no input; little of both; no output and much input.
MCBudgets ==
  {[prints |-> 2, keys |-> 0, line |-> 0, stray |-> 1, panic |-> 1],
   [prints |-> 2, keys |-> 1, line |-> 1, stray |-> 0, panic |-> 0],
   [prints |-> 0, keys |-> 3, line |-> 2, stray |-> 0, panic |-> 0]}

\* Pintos reads the second partition, which is not its own, and panics on a write to it.
MCPartition == {[dev |-> 0, start |-> 1, size |-> 1, type |-> "FILESYS"],
                [dev |-> 1, start |-> 0, size |-> 1, type |-> "FOREIGN"]}

MCFaults ==
  {[stray |-> 1, fail |-> 0, slow |-> 1, wrong |-> {}],
   [stray |-> 0, fail |-> 1, slow |-> 0, wrong |-> {}]}

vars == <<tvars, dvars, alarmvars, part>>

Init ==
  /\ part \in {"console", "disk", "timer"}
  /\ TerminalInit(part # "console") /\ DiskInit(part # "disk")
  /\ IF part = "timer" THEN \E late \in 0 .. MaxLate : AlarmInit(late) ELSE AlarmInit(MaxLate)

Next ==
  /\ \/ part = "console" /\ TerminalNext /\ UNCHANGED <<dvars, alarmvars>>
     \/ part = "disk" /\ DiskNext /\ UNCHANGED <<tvars, alarmvars>>
     \/ part = "timer" /\ AlarmNext /\ UNCHANGED <<tvars, dvars>>
  /\ UNCHANGED part

Spec == Init /\ [][Next]_vars /\ TerminalFairness /\ DiskFairness /\ AlarmFairness
=============================================================================
