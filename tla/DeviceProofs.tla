---------------------------- MODULE DeviceProofs ----------------------------
(***************************************************************************)
(* The alarm clock: a sleeping thread is woken once and never early, and   *)
(* the timer handler, which looks only at the front of wait_list, leaves   *)
(* no overdue thread behind, for any set of threads and any sleep times.   *)
(* The disk: a read returns what the last write stored, and a write        *)
(* returns after the disk has stored the data, for any number of threads,  *)
(* disks, sectors and requests, up to the faults that the driver does not  *)
(* handle.                                                                 *)
(***************************************************************************)
EXTENDS AlarmClock, Disk, FiniteSets, TLAPS

-----------------------------------------------------------------------------
(***************************************************************************)
(* The disk: inductive invariant                                           *)
(***************************************************************************)

Value == Datum \cup {NONE}

Held == {"select", "issue", "completion", "ready", "unlock"}

Registers ==
  [status : {"idle", "busy", "drq"}, command : {"none", "read", "write", "store"},
   at : Block \cup {CHOOSE b \in Block : TRUE}, data : Value, intrq : BOOLEAN]

Requests == [op : {"read", "write"}, at : Block, datum : Value]

FaultType == [stray : Nat, fail : Nat, slow : Nat, wrong : SUBSET {"stray", "late", "lost"}]

DiskTypeOK ==
  /\ lock \in Client \cup {NONE}
  /\ expecting_interrupt \in BOOLEAN /\ panicked \in BOOLEAN
  /\ completion_wait \in Nat
  /\ ata \in Registers
  /\ media \in [Block -> Value] /\ returned \in [Block -> Value]
  /\ req \in [Client -> Requests \cup {NONE}]
  /\ step \in [Client -> Held \cup {"idle", "lock", "done"}]
  /\ expected \in [Client -> Value]
  /\ faults \in FaultType
  /\ \A t \in Client : step[t] # "idle" => req[t] \in Requests
  /\ ata.status # "idle" => ata.at \in Block

\* A thread holds the channel's lock from the selection to the end of the transfer.
LockHeld == \A t \in Client : step[t] \in Held <=> lock = t

Storing == ata.status = "busy" /\ ata.command = "store"

\* What sector b holds once the disk has stored what it has been given.
Effective(b) == IF Storing /\ ata.at = b THEN ata.data ELSE media[b]

Reads(t) == req[t].op = "read"
Writes(t) == req[t].op = "write"

\* A write that the disk has the data of.
Given(t) == step[t] \in {"completion", "unlock"} /\ Writes(t)

\* The command of thread t is with the disk, which has not been given any data.
Commanded(t) == step[t] = "ready" \/ (step[t] = "completion" /\ Reads(t))

\* What a thread knows of the disk and of the sector it reads.
Knows(t) ==
  /\ step[t] = "select" \/ Given(t) => ata.status = "idle" \/ Storing
  /\ step[t] = "issue" => ata.status = "idle" /\ ata.at = req[t].at
  /\ Commanded(t) => /\ ata.command = req[t].op /\ ata.at = req[t].at
                     /\ ata.status = "drq" /\ Reads(t) => ata.data = media[ata.at]
  /\ step[t] = "unlock" /\ Reads(t) => ata.status = "idle"
  /\ step[t] \in Held /\ Reads(t) => expected[t] = returned[req[t].at]
  /\ step[t] \in {"unlock", "done"} /\ Reads(t) => req[t].datum = expected[t]

\* The sectors hold, or will hold, what the last write to return has written, but for
\* the one that is being written.
Contents ==
  /\ \A t \in Client : Given(t) => Effective(req[t].at) = req[t].datum
  /\ \A b \in Block : (\A t \in Client : Given(t) => req[t].at # b)
                        => Effective(b) = returned[b]

\* The disk has answered the command of thread t, which has not seen it.
Answered(t) == \/ step[t] = "completion" /\ ata.status # "busy"
               \/ step[t] = "ready" /\ Writes(t) /\ ata.status = "idle"

\* As long as nothing goes wrong, there is one completion, delivered or not, for
\* each answer of the disk, and the disk is idle when no command is with it.
Completions ==
  /\ ata.intrq \/ ata.status # "idle" => expecting_interrupt
  /\ \A t \in Client : Answered(t) => completion_wait = IF ata.intrq THEN 0 ELSE 1
  /\ (\A t \in Client : ~Answered(t)) => completion_wait = 0 /\ ~ata.intrq
  /\ lock = NONE => ata.status = "idle"
  /\ \A t \in Client : /\ step[t] \in {"select", "unlock"} => ata.status = "idle"
                       /\ step[t] = "ready" /\ Reads(t) => ata.status # "busy"

DiskInv ==
  /\ DiskTypeOK /\ LockHeld
  /\ lock = NONE => ata.status = "idle" \/ Storing
  /\ \A t \in Client : Knows(t)
  /\ Contents
  /\ faults.wrong = {} => Completions

-----------------------------------------------------------------------------
(***************************************************************************)
(* The disk: steps                                                         *)
(***************************************************************************)

\* At boot the channel is free and nothing has been asked of the disks.
LEMMA InitDisk == DiskInit(FALSE) => DiskInv
<1> SUFFICES ASSUME DiskInit(FALSE) PROVE DiskInv  OBVIOUS
<1> USE DEF DiskInit
<1>1. DiskTypeOK
  <2>1. faults \in FaultType  BY DiskAssumption, SMT DEF FaultType
  <2> QED BY <2>1, DiskAssumption, Zenon DEF DiskTypeOK, Value, Held, NoFaults, Registers
<1>2. LockHeld  BY DiskAssumption DEF LockHeld, Held
<1>3. ASSUME NEW t \in Client PROVE Knows(t)  BY DEF Knows, Held, Given, Commanded
<1>4. Contents  BY DEF Contents, Given, Effective, Storing
<1>5. Completions  BY DEF Completions, Answered
<1> QED BY <1>1, <1>2, <1>3, <1>4, <1>5 DEF DiskInv

\* t is the thread whose command the disk works on: it holds the lock and waits, and
\* there is no completion yet.
Commander(t) ==
  /\ lock = t /\ \A u \in Client \ {t} : step[u] \notin Held
  /\ ata.command # "none"
  /\ ata.command \in {"read", "write"}
       => Commanded(t) /\ step[t] = (IF Reads(t) THEN "completion" ELSE "ready")
            /\ ata.command = req[t].op
  /\ ata.command = "store" => Given(t) /\ step[t] = "completion"
  /\ completion_wait = 0 /\ ~ata.intrq /\ expecting_interrupt

\* Neither has wait_until_idle timed out, nor has a disk failed to store data it was given.
Trusted == faults.wrong \subseteq {"stray"}

\* While the disk works on a command, and nothing has gone wrong, some thread
\* waits for it.
LEMMA BusyHolder ==
  ASSUME DiskInv, faults.wrong = {}, ata.status = "busy"
  PROVE  \E t \in Client : Commander(t)
<1>1. Completions /\ lock # NONE  BY DEF DiskInv, Completions
<1>2. PICK t \in Client : lock = t  BY <1>1 DEF DiskInv, DiskTypeOK
<1>3. step[t] \in Held /\ \A u \in Client \ {t} : step[u] \notin Held
  BY <1>2 DEF DiskInv, LockHeld
<1>4. step[t] \in {"completion", "ready"}  BY <1>1, <1>3 DEF DiskInv, Completions, Held, Knows
<1>5. Knows(t) /\ req[t] \in Requests  BY <1>4 DEF DiskInv, DiskTypeOK
<1>6. ata.command \in {"read", "write"}
        => Commanded(t) /\ step[t] = (IF Reads(t) THEN "completion" ELSE "ready")
             /\ ata.command = req[t].op
  BY <1>1, <1>4, <1>5 DEF Knows, Given, Commanded, Storing, Completions, Requests, Reads, Writes
<1>7. ata.command = "store" => Given(t) /\ step[t] = "completion"
  BY <1>4, <1>5 DEF Knows, Given, Commanded, Requests, Reads, Writes
<1>8. \A u \in Client : ~Answered(u)  BY <1>3 DEF Answered, Held
<1>9. completion_wait = 0 /\ ~ata.intrq /\ expecting_interrupt  BY <1>1, <1>8 DEF Completions
<1>10. ata.command # "none"
  BY <1>4, <1>5 DEF Knows, Given, Commanded, Storing, Requests, Reads, Writes
<1> QED BY <1>2, <1>3, <1>6, <1>7, <1>9, <1>10 DEF Commander

\* What a stray interrupt and a time-out leave in the record of faults.
LEMMA FaultsSpent ==
  ASSUME NEW f \in FaultType, NEW why \in {"stray", "late"}
  PROVE  /\ f.stray > 0 => [f EXCEPT !.stray = @ - 1, !.wrong = @ \cup {why}] \in FaultType
         /\ f.slow > 0 => [f EXCEPT !.slow = @ - 1, !.wrong = @ \cup {why}] \in FaultType
         /\ [f EXCEPT !.stray = @ - 1, !.wrong = @ \cup {why}].wrong = f.wrong \cup {why}
         /\ [f EXCEPT !.slow = @ - 1, !.wrong = @ \cup {why}].wrong = f.wrong \cup {why}
<1>1. f.stray \in Nat /\ f.slow \in Nat  BY DEF FaultType
<1>2. (f.stray > 0 => f.stray - 1 \in Nat) /\ (f.slow > 0 => f.slow - 1 \in Nat)  BY <1>1
<1>3. f.wrong \cup {why} \in SUBSET {"stray", "late", "lost"}  BY Zenon DEF FaultType
<1> QED BY <1>2, <1>3, Zenon DEF FaultType

\* Nothing that has gone wrong is forgotten.
LEMMA FaultsGrow ==
  ASSUME faults \in FaultType, [DiskNext]_dvars
  PROVE  faults' \in FaultType /\ faults.wrong \subseteq faults'.wrong
<1> USE DEF FaultType
<1>1. CASE UNCHANGED faults  BY <1>1
<1>2. CASE StrayInterrupt  BY <1>2, FaultsSpent, Zenon DEF StrayInterrupt
<1>3. CASE DiskFails
  <2>1. faults.fail - 1 \in Nat  BY <1>3 DEF DiskFails
  <2> QED BY <1>3, <2>1 DEF DiskFails
<1>4. ASSUME NEW t \in Client, SelectTimesOut(t) \/ TransferFails(t)
      PROVE  faults' \in FaultType /\ faults.wrong \subseteq faults'.wrong
  <2>1. CASE SelectTimesOut(t)  BY <2>1, FaultsSpent, Zenon DEF SelectTimesOut
  <2>2. CASE TransferFails(t)  BY <2>2 DEF TransferFails
  <2> QED BY <1>4, <2>1, <2>2
<1> QED
  BY <1>1, <1>2, <1>3, <1>4, Zenon
     DEF DiskNext, dvars, Request, RequestPanics, LockChannel, SelectSector, IssuePioCommand,
         AwaitCompletion, Transfer, UnlockChannel, Return, Interrupt, DiskReady, DiskStored

\* A request sets down its sector and no more.
LEMMA RequestKeeps ==
  ASSUME DiskInv, NEW t \in Client, NEW p \in Partition, NEW sector \in 0 .. DiskSize - 1,
         NEW op \in {"read", "write"}, NEW datum \in Value,
         Request(t, p, sector, op, datum)
  PROVE  DiskInv'
<1> USE DEF Request, Allowed, Below, Block, check_sector, swvars, Registers, Requests
<1>1. DiskTypeOK'
  <2>1. Below(p, sector) \in Block  BY DiskAssumption
  <2>2. [op |-> op, at |-> Below(p, sector), datum |-> datum] \in Requests  BY <2>1, Zenon
  <2>3. req' \in [Client -> Requests \cup {NONE}] /\ req'[t] \in Requests
    BY <2>2 DEF DiskInv, DiskTypeOK
  <2>4. step' \in [Client -> Held \cup {"idle", "lock", "done"}]
    BY DEF DiskInv, DiskTypeOK
  <2>5. \A u \in Client \ {t} : step'[u] = step[u] /\ req'[u] = req[u]
    BY DEF DiskInv, DiskTypeOK
  <2>6. \A u \in Client : step'[u] # "idle" => req'[u] \in Requests
    BY <2>3, <2>5 DEF DiskInv, DiskTypeOK
  <2> QED BY <2>3, <2>4, <2>6 DEF DiskInv, DiskTypeOK, Value
<1>2. LockHeld'  BY DiskAssumption DEF DiskInv, DiskTypeOK, LockHeld, Held
<1>3. lock' = NONE => ata'.status = "idle" \/ Storing'
  BY DiskAssumption, Zenon DEF DiskInv, Storing
<1>4. ASSUME NEW u \in Client PROVE Knows(u)'
  BY DEF DiskInv, Knows, Held, Given, Commanded, Reads, Writes, Storing
<1>5. Contents'
  BY DEF DiskInv, Given, Writes, Storing, Contents, Effective
<1>6. faults'.wrong = {} => Completions'
  BY DEF DiskInv, Reads, Writes, Answered, Completions
<1> QED BY <1>1, <1>2, <1>3, <1>4, <1>5, <1>6 DEF DiskInv

\* lock_acquire: only one thread at a time talks to the channel.
LEMMA LockChannelKeeps ==
  ASSUME DiskInv, NEW t \in Client, LockChannel(t)
  PROVE  DiskInv'
<1> USE DEF LockChannel, Go, swvars, Registers, Requests
<1>1. DiskTypeOK'  BY DiskAssumption DEF DiskInv, DiskTypeOK, Value, Held
<1>2. LockHeld'  BY DiskAssumption DEF DiskInv, DiskTypeOK, LockHeld, Held
<1>3. lock' = NONE => ata'.status = "idle" \/ Storing'
  BY DiskAssumption DEF Writes
<1>4. ASSUME NEW u \in Client PROVE Knows(u)'
  BY DEF DiskInv, DiskTypeOK, Knows, Commanded, Reads, Storing
<1>5. Contents'
  BY SMTT(60) DEF DiskInv, Given, Writes, Storing, Contents, Effective
<1>6. faults'.wrong = {} => Completions'
  BY DEF DiskInv, Writes, Answered, Completions
<1> QED BY <1>1, <1>2, <1>3, <1>4, <1>5, <1>6, Zenon DEF DiskInv

\* select_sector waits until the disk is idle, so no store is under way.
LEMMA SelectSectorKeeps ==
  ASSUME DiskInv, NEW t \in Client, SelectSector(t)
  PROVE  DiskInv'
<1> USE DEF SelectSector, Go, wait_until_idle, swvars, Registers, Requests
<1>1. DiskTypeOK'
  <2>1. ata' \in Registers  BY Zenon DEF DiskInv, DiskTypeOK, Registers, Requests, Value, Block
  <2> QED BY <2>1, DiskAssumption DEF DiskInv, DiskTypeOK, Held, Value
<1>2. LockHeld'  BY DiskAssumption DEF DiskInv, DiskTypeOK, LockHeld, Held
<1>3. lock' = NONE => ata'.status = "idle" \/ Storing'
  BY DiskAssumption DEF Writes
<1>4. ASSUME NEW u \in Client PROVE Knows(u)'
  BY DEF DiskInv, LockHeld, Knows, Held, Commanded, Reads
<1>5. Contents'
  BY DEF DiskInv, Given, Writes, Storing, Contents, Effective
<1>6. faults'.wrong = {} => Completions'
  BY DEF DiskInv, LockHeld, Held, Answered, Completions
<1> QED BY <1>1, <1>2, <1>3, <1>4, <1>5, <1>6 DEF DiskInv

\* issue_pio_command expects the interrupt of this command and no other.
LEMMA IssuePioCommandKeeps ==
  ASSUME DiskInv, NEW t \in Client, IssuePioCommand(t)
  PROVE  DiskInv'
<1> USE DEF IssuePioCommand, Go, swvars, Registers, Requests
<1>1. DiskTypeOK'
  <2>1. ata' \in Registers /\ ata'.at \in Block
    BY Zenon DEF DiskInv, DiskTypeOK, Knows
  <2>2. step' \in [Client -> Held \cup {"idle", "lock", "done"}]
    BY DEF DiskInv, DiskTypeOK, Held
  <2> QED BY <2>1, <2>2 DEF DiskInv, DiskTypeOK
<1>2. LockHeld'  BY DiskAssumption DEF DiskInv, DiskTypeOK, LockHeld, Held
<1>3. lock' = NONE => ata'.status = "idle" \/ Storing'
  BY DiskAssumption DEF DiskInv, LockHeld, Held
<1>4. ASSUME NEW u \in Client PROVE Knows(u)'
  BY DEF DiskInv, DiskTypeOK, LockHeld, Knows, Given, Commanded, Reads, Writes
<1>5. Contents'
  BY DEF DiskInv, DiskTypeOK, Knows, Given, Writes, Storing, Contents, Effective
<1>6. ASSUME faults'.wrong = {} PROVE Completions'
  <2>1. lock = t /\ \A u \in Client \ {t} : step[u] \notin Held
    BY DiskAssumption DEF DiskInv, LockHeld, Held
  <2>2. /\ step'[t] \in {"completion", "ready"} /\ step'[t] = "completion" <=> Reads(t)
        /\ \A u \in Client \ {t} : step'[u] = step[u]
    BY DEF DiskInv, DiskTypeOK, Reads
  <2>3. \A u \in Client : ~Answered(u)  BY <2>1 DEF Answered, Held
  <2>4. Completions  BY <1>6 DEF DiskInv
  <2>5. ata'.status = "busy" /\ ata'.intrq = ata.intrq  BY DEF DiskInv, DiskTypeOK
  <2>6. \A u \in Client : ~Answered(u)'
    BY <2>1, <2>2, <2>5 DEF Answered, Held
  <2> QED BY <2>1, <2>2, <2>3, <2>4, <2>5, <2>6, DiskAssumption DEF Completions, Reads, Held
<1> QED BY <1>1, <1>2, <1>3, <1>4, <1>5, <1>6 DEF DiskInv

\* sema_down on completion_wait.
LEMMA AwaitCompletionKeeps ==
  ASSUME DiskInv, NEW t \in Client, AwaitCompletion(t)
  PROVE  DiskInv'
<1> USE DEF AwaitCompletion, Go, swvars, Registers, Requests
<1>1. DiskTypeOK'  BY DiskAssumption DEF DiskInv, DiskTypeOK, Value, Held
<1>2. LockHeld'  BY DiskAssumption DEF DiskInv, DiskTypeOK, LockHeld, Held
<1>3. lock' = NONE => ata'.status = "idle" \/ Storing'
  BY DiskAssumption DEF DiskInv, Storing
<1>4. ASSUME NEW u \in Client PROVE Knows(u)'
  BY DEF DiskInv, Knows, Held, Given, Commanded, Reads, Writes, Storing
<1>5. Contents'
  BY SMTT(60) DEF DiskInv, Given, Writes, Storing, Contents, Effective
<1>6. faults'.wrong = {} => Completions'
  BY DEF DiskInv, DiskTypeOK, LockHeld, Knows, Given, Writes, Storing, Answered, Completions
<1> QED BY <1>1, <1>2, <1>3, <1>4, <1>5, <1>6, Zenon DEF DiskInv

\* The transfer moves the data of the sector that was selected.
LEMMA TransferKeeps ==
  ASSUME DiskInv, NEW t \in Client, Transfer(t)
  PROVE  DiskInv'
<1> USE DEF Registers, Requests
<1>1. /\ step[t] = "ready" /\ lock = t /\ t # NONE /\ req[t] \in Requests /\ ata \in Registers
      /\ \A u \in Client \ {t} : step[u] \notin Held
  BY DiskAssumption, Zenon DEF Transfer, Go, DiskInv, DiskTypeOK, LockHeld, Held
<1>2. /\ ata.status = "drq" /\ ata.command = req[t].op /\ ata.at = req[t].at
      /\ ata.at \in Block /\ Reads(t) => ata.data = expected[t]
  <2>1. ata.status = "drq"  BY <1>1, Zenon DEF Transfer, wait_while_busy
  <2>2. Knows(t) /\ \A u \in Client : ~Given(u)
    BY <1>1, Zenon DEF DiskInv, Given, Held
  <2>3. media[req[t].at] = returned[req[t].at]
    BY <1>1, <2>1, <2>2 DEF DiskInv, Contents, Effective, Storing
  <2> QED BY <1>1, <2>1, <2>2, <2>3 DEF Knows, Commanded, Held
<1>3. /\ UNCHANGED <<lock, expecting_interrupt, completion_wait, media, panicked, faults,
                     returned, expected>>
      /\ step' \in [Client -> Held \cup {"idle", "lock", "done"}]
      /\ \A u \in Client \ {t} : step'[u] = step[u]
      /\ step'[t] = IF Reads(t) THEN "unlock" ELSE "completion"
  BY Zenon DEF Transfer, Go, DiskInv, DiskTypeOK, Held, Reads
<1>4. /\ req' \in [Client -> Requests \cup {NONE}] /\ req'[t] \in Requests
      /\ req'[t].op = req[t].op /\ req'[t].at = req[t].at
      /\ Reads(t) => req'[t].datum = ata.data
      /\ Writes(t) => req'[t].datum = req[t].datum
      /\ \A u \in Client \ {t} : req'[u] = req[u]
  <2>1. CASE Reads(t)
    <3>1. req' = [req EXCEPT ![t].datum = ata.data]  BY <2>1 DEF Transfer, Reads
    <3>2. [req[t] EXCEPT !.datum = ata.data] \in Requests  BY <1>1
    <3>3. req'[t] = [req[t] EXCEPT !.datum = ata.data] /\ req' \in [Client -> Requests \cup {NONE}]
      BY <3>1, <3>2 DEF DiskInv, DiskTypeOK
    <3> QED BY <1>1, <2>1, <3>1, <3>3 DEF DiskInv, DiskTypeOK, Reads, Writes
  <2>2. CASE Writes(t)
    <3>1. req' = req  BY <2>2 DEF Transfer, Writes
    <3> QED BY <1>1, <2>2, <3>1 DEF DiskInv, DiskTypeOK, Reads, Writes
  <2> QED BY <1>1, <2>1, <2>2 DEF Reads, Writes
<1>5. /\ ata' \in Registers /\ ata'.at = ata.at /\ ata'.intrq = ata.intrq
      /\ Reads(t) => ata'.status = "idle"
      /\ Writes(t) => /\ ata'.status = "busy" /\ ata'.command = "store"
                      /\ ata'.data = req[t].datum
  <2>1. CASE Reads(t)
    <3>1. ata' = [ata EXCEPT !.status = "idle", !.data = NONE]  BY <2>1 DEF Transfer, Reads
    <3> QED BY <1>1, <2>1, <3>1, Zenon DEF Value, Reads, Writes
  <2>2. CASE Writes(t)
    <3>1. ata' = [ata EXCEPT !.status = "busy", !.command = "store", !.data = req[t].datum]
      BY <2>2, Zenon DEF Transfer, Writes
    <3> QED BY <1>1, <2>2, <3>1, Zenon DEF Value, Reads, Writes
  <2> QED BY <1>1, <2>1, <2>2 DEF Reads, Writes
<1>6. DiskTypeOK'
  <2>1. \A u \in Client : step'[u] # "idle" => req'[u] \in Requests
    BY <1>3, <1>4, Zenon DEF DiskInv, DiskTypeOK
  <2> QED BY <1>2, <1>3, <1>4, <1>5, <2>1, Zenon DEF DiskInv, DiskTypeOK
<1>7. LockHeld'  BY <1>1, <1>3 DEF DiskInv, LockHeld, Held
<1>8. lock' # NONE  BY <1>1, <1>3
<1>9. ASSUME NEW u \in Client PROVE Knows(u)'
  <2>1. CASE u = t
    BY <1>1, <1>2, <1>3, <1>4, <1>5, <2>1, ZenonT(60)
       DEF DiskInv, Knows, Held, Given, Commanded, Reads, Writes, Storing
  <2>2. CASE u # t
    BY <1>1, <1>3, <1>4, <2>2 DEF DiskInv, Knows, Held, Given, Commanded, Reads
  <2> QED BY <2>1, <2>2, Zenon
<1>10. Contents'
  <2>1. \A u \in Client : Given(u)' <=> u = t /\ Writes(t)
    BY <1>1, <1>3, <1>4 DEF Given, Held, Reads, Writes
  <2>2. \A b \in Block : Effective(b) = media[b] /\ media[b] = returned[b]
    BY <1>1, <1>2 DEF DiskInv, Contents, Effective, Storing, Given, Held
  <2>3. CASE Reads(t)
    BY <1>3, <1>5, <2>1, <2>2, <2>3, Zenon DEF Contents, Effective, Storing, Reads, Writes
  <2>4. CASE Writes(t)
    BY <1>1, <1>2, <1>3, <1>4, <1>5, <2>1, <2>2, <2>4, SMTT(60) DEF Contents, Effective, Storing
  <2> QED BY <1>1, <2>3, <2>4, Zenon DEF Reads, Writes
<1>11. ASSUME faults'.wrong = {} PROVE Completions'
  <2>1. Completions  BY <1>3, <1>11, Zenon DEF DiskInv
  <2>2. \A u \in Client : ~Answered(u)  BY <1>1, <1>2, Zenon DEF Answered, Held
  <2>3. \A u \in Client : ~Answered(u)'
    BY <1>1, <1>3, <1>4, <1>5 DEF Answered, Held, Reads, Writes
  <2>4. completion_wait = 0 /\ ~ata.intrq  BY <2>1, <2>2, Zenon DEF Completions
  <2>5. expecting_interrupt'  BY <1>2, <1>3, <2>1 DEF Completions
  <2> QED BY <1>1, <1>3, <1>5, <1>8, <2>1, <2>3, <2>4, <2>5 DEF Completions, Held, Reads, Writes
<1> QED BY <1>6, <1>7, <1>8, <1>9, <1>10, <1>11 DEF DiskInv

\* lock_release.
LEMMA UnlockChannelKeeps ==
  ASSUME DiskInv, NEW t \in Client, UnlockChannel(t)
  PROVE  DiskInv'
<1> USE DEF UnlockChannel, Go, swvars, Registers, Requests
<1>1. DiskTypeOK'  BY DiskAssumption DEF DiskInv, DiskTypeOK, Value, Held
<1>2. LockHeld'  BY DiskAssumption, ZenonT(60) DEF DiskInv, DiskTypeOK, LockHeld, Held
<1>3. lock' = NONE => ata'.status = "idle" \/ Storing'
  BY DiskAssumption, Zenon DEF DiskInv, DiskTypeOK, Storing, Knows, Given, Reads, Writes
<1>4. ASSUME NEW u \in Client PROVE Knows(u)'
  BY DEF DiskInv, LockHeld, Knows, Held, Given, Commanded, Reads, Writes, Storing
<1>5. Contents'
  BY SMTT(60) DEF DiskInv, DiskTypeOK, Given, Writes, Storing, Contents, Effective
<1>6. faults'.wrong = {} => Completions'
  BY DEF DiskInv, Writes, Answered, Completions
<1> QED BY <1>1, <1>2, <1>3, <1>4, <1>5, <1>6, ZenonT(60) DEF DiskInv

\* A returning write makes its data the sector's contents for later reads.
LEMMA ReturnKeeps ==
  ASSUME DiskInv, NEW t \in Client, Return(t)
  PROVE  DiskInv'
<1> USE DEF Return, Go, swvars, Registers, Requests
<1>1. DiskTypeOK'  BY DiskAssumption, SMTT(60) DEF DiskInv, DiskTypeOK, Value, Held
<1>2. LockHeld'  BY DiskAssumption DEF DiskInv, DiskTypeOK, LockHeld, Held
<1>3. lock' = NONE => ata'.status = "idle" \/ Storing'
  BY DiskAssumption, Zenon DEF DiskInv, Storing
<1>4. ASSUME NEW u \in Client PROVE Knows(u)'
  BY SMTT(60) DEF DiskInv, DiskTypeOK, Knows, Held, Given, Commanded, Reads, Writes, Storing
<1>5. Contents'
  BY DEF DiskInv, Given, Writes, Storing, Contents, Effective
<1>6. faults'.wrong = {} => Completions'
  BY DEF DiskInv, Reads, Writes, Answered, Completions
<1> QED BY <1>1, <1>2, <1>3, <1>4, <1>5, <1>6, Zenon DEF DiskInv

\* The handler changes nothing in the disk's registers but the pending interrupt.
LEMMA Acknowledged ==
  ASSUME DiskInv, interrupt_handler
  PROVE  ata' \in Registers /\ ata'.at = ata.at /\ ata'.status = ata.status
<1>1. ata \in Registers  BY Zenon DEF DiskInv, DiskTypeOK
<1>2. CASE ata' = [ata EXCEPT !.intrq = FALSE]  BY <1>1, <1>2, Zenon DEF Registers
<1>3. CASE ata' = ata  BY <1>1, <1>3, Zenon
<1> QED BY <1>2, <1>3, Zenon DEF interrupt_handler

\* The interrupt of a command ups completion_wait once.
LEMMA InterruptKeeps ==
  ASSUME DiskInv, Interrupt
  PROVE  DiskInv'
<1> USE DEF Interrupt, interrupt_handler, swvars, Registers, Requests
<1>1. DiskTypeOK'
  <2>1. ata' \in Registers /\ ata'.at = ata.at /\ ata'.status = ata.status
    BY Acknowledged, Zenon
  <2>2. completion_wait' \in Nat  BY DEF DiskInv, DiskTypeOK
  <2> QED BY <2>1, <2>2, Zenon DEF DiskInv, DiskTypeOK
<1>2. LockHeld'  BY DiskAssumption DEF DiskInv, DiskTypeOK, LockHeld, Held
<1>3. lock' = NONE => ata'.status = "idle" \/ Storing'
  BY DiskAssumption DEF DiskInv, DiskTypeOK, Storing
<1>4. ASSUME NEW u \in Client PROVE Knows(u)'
  BY DEF DiskInv, DiskTypeOK, Knows, Given, Commanded, Reads, Writes, Storing
<1>5. Contents'
  BY DEF DiskInv, DiskTypeOK, Given, Writes, Storing, Contents, Effective
<1>6. faults'.wrong = {} => Completions'
  BY DEF DiskInv, DiskTypeOK, Writes, Answered, Completions
<1> QED BY <1>1, <1>2, <1>3, <1>4, <1>5, <1>6 DEF DiskInv

\* After a stray interrupt nothing is claimed of the completions.
LEMMA StrayInterruptKeeps ==
  ASSUME DiskInv, StrayInterrupt
  PROVE  DiskInv'
<1> USE DEF StrayInterrupt, interrupt_handler, swvars, Registers, Requests
<1>1. faults' \in FaultType /\ faults'.wrong # {}
  BY FaultsSpent, ZenonT(60) DEF DiskInv, DiskTypeOK
<1>7. DiskTypeOK'
  <2>1. ata' \in Registers /\ ata'.at = ata.at /\ ata'.status = ata.status
    BY Acknowledged, Zenon
  <2>2. completion_wait' \in Nat  BY DEF DiskInv, DiskTypeOK
  <2> QED BY <1>1, <2>1, <2>2, Zenon DEF DiskInv, DiskTypeOK
<1>2. LockHeld'  BY DiskAssumption DEF DiskInv, DiskTypeOK, LockHeld, Held
<1>3. lock' = NONE => ata'.status = "idle" \/ Storing'
  BY DiskAssumption DEF DiskInv, DiskTypeOK, Storing
<1>4. ASSUME NEW u \in Client PROVE Knows(u)'
  BY DEF DiskInv, DiskTypeOK, Knows, Given, Commanded, Reads, Writes, Storing
<1>5. Contents'
  BY DEF DiskInv, DiskTypeOK, Given, Writes, Storing, Contents, Effective
<1> QED BY <1>1, <1>2, <1>3, <1>4, <1>5, <1>7 DEF DiskInv

\* The disk gets ready for the transfer.
LEMMA DiskReadyKeeps ==
  ASSUME DiskInv, DiskReady
  PROVE  DiskInv'
<1> USE DEF DiskReady, swvars, Registers, Requests
<1>1. DiskTypeOK'
  <2>1. CASE ata.command = "read"
    <3>1. ata' \in Registers  BY <2>1, Zenon DEF DiskInv, DiskTypeOK
    <3> QED BY <3>1 DEF DiskInv, DiskTypeOK
  <2>2. CASE ata.command = "write"
    <3>1. ata' \in Registers  BY <2>2 DEF DiskInv, DiskTypeOK
    <3> QED BY <3>1 DEF DiskInv, DiskTypeOK
  <2> QED BY <2>1, <2>2
<1>2. LockHeld'  BY DiskAssumption DEF DiskInv, DiskTypeOK, LockHeld, Held
<1>3. lock' = NONE => ata'.status = "idle" \/ Storing'
  BY DiskAssumption DEF DiskInv, Storing
<1>4. ASSUME NEW u \in Client PROVE Knows(u)'
  BY DEF DiskInv, Knows, Given, Commanded, Reads, Writes, Storing
<1>5. Contents'
  BY DEF DiskInv, Given, Writes, Storing, Contents, Effective
<1>6. ASSUME faults'.wrong = {} PROVE Completions'
  <2>1. PICK t \in Client : Commander(t)
    <3>1. faults.wrong = {}  BY <1>6 DEF DiskInv, DiskTypeOK
    <3> QED BY <3>1, BusyHolder
  <2> USE DEF Commander
  <2>2. ata'.status = "drq" /\ ata'.intrq = (ata.command = "read")
    BY <2>1, Zenon DEF DiskInv, DiskTypeOK
  <2>3. \A u \in Client \ {t} : ~Answered(u)'  BY <2>1 DEF Answered, Held
  <2>4. completion_wait' = 0 /\ expecting_interrupt' /\ lock' = t /\ lock' # NONE
    BY <2>1, DiskAssumption
  <2> QED BY <2>1, <2>2, <2>3, <2>4 DEF Completions, Held, Commanded, Answered, Reads, Writes, Given
<1> QED BY <1>1, <1>2, <1>3, <1>4, <1>5, <1>6 DEF DiskInv

\* The disk stores what it was sent.
LEMMA DiskStoredKeeps ==
  ASSUME DiskInv, DiskStored
  PROVE  DiskInv'
<1> USE DEF DiskStored, swvars, Registers, Requests
<1>1. DiskTypeOK'
  <2>1. ata' \in Registers  BY Zenon DEF DiskInv, DiskTypeOK, Registers, Requests, Value, Block
  <2> QED BY <2>1, DiskAssumption DEF DiskInv, DiskTypeOK, Held, Value
<1>2. LockHeld'  BY DiskAssumption DEF DiskInv, DiskTypeOK, LockHeld, Held
<1>3. lock' = NONE => ata'.status = "idle" \/ Storing'
  BY DiskAssumption DEF Writes
<1>4. ASSUME NEW u \in Client PROVE Knows(u)'
  BY DEF DiskInv, Knows, Commanded, Reads
<1>5. Contents'
  BY DEF DiskInv, DiskTypeOK, Given, Writes, Storing, Contents, Effective
<1>6. ASSUME faults'.wrong = {} PROVE Completions'
  <2>1. PICK t \in Client : Commander(t)
    <3>1. faults.wrong = {}  BY <1>6 DEF DiskInv, DiskTypeOK
    <3> QED BY <3>1, BusyHolder
  <2> USE DEF Commander
  <2>2. ata'.status = "idle" /\ ata'.intrq = TRUE  BY DEF DiskInv, DiskTypeOK
  <2>3. \A u \in Client \ {t} : ~Answered(u)'  BY <2>1 DEF Answered, Held
  <2>4. completion_wait' = 0 /\ expecting_interrupt' /\ lock' = t /\ lock' # NONE
    BY <2>1, DiskAssumption
  <2> QED BY <2>1, <2>2, <2>3, <2>4 DEF Completions, Held, Commanded, Answered, Reads, Writes, Given
<1> QED BY <1>1, <1>2, <1>3, <1>4, <1>5, <1>6 DEF DiskInv

\* A failed command ends without a transfer, unless the disk had the data already.
LEMMA DiskFailsKeeps ==
  ASSUME DiskInv, DiskFails, faults' \in FaultType, Trusted'
  PROVE  DiskInv'
<1>0. ata.command # "store" /\ faults'.wrong = faults.wrong
  BY SMT DEF DiskFails, DiskInv, DiskTypeOK, FaultType, Trusted
<1> USE DEF DiskFails, swvars, Registers, Requests
<1>1. DiskTypeOK'
  <2>1. ata' \in Registers  BY Zenon DEF DiskInv, DiskTypeOK, Registers, Requests, Value, Block
  <2> QED BY <2>1, DiskAssumption DEF DiskInv, DiskTypeOK, Held, Value
<1>2. LockHeld'  BY DiskAssumption DEF DiskInv, DiskTypeOK, LockHeld, Held
<1>3. lock' = NONE => ata'.status = "idle" \/ Storing'
  BY DiskAssumption DEF Writes
<1>4. ASSUME NEW u \in Client PROVE Knows(u)'
  BY <1>0 DEF DiskInv, Knows, Commanded, Reads
<1>5. Contents'
  BY <1>0 DEF DiskInv, Given, Writes, Storing, Contents, Effective
<1>6. ASSUME faults'.wrong = {} PROVE Completions'
  <2>1. PICK t \in Client : Commander(t)
    <3>1. faults.wrong = {}  BY <1>0, <1>6
    <3> QED BY <3>1, BusyHolder
  <2> USE DEF Commander
  <2>2. ata'.status = "idle" /\ ata'.intrq = TRUE  BY DEF DiskInv, DiskTypeOK
  <2>3. \A u \in Client \ {t} : ~Answered(u)'  BY <2>1 DEF Answered, Held
  <2>4. completion_wait' = 0 /\ expecting_interrupt' /\ lock' = t /\ lock' # NONE
    BY <2>1, DiskAssumption
  <2>5. ata.command \in {"read", "write"}  BY <1>0, <2>1, Zenon DEF DiskInv, DiskTypeOK
  <2> QED BY <2>5, <2>1, <2>2, <2>3, <2>4 DEF Completions, Held, Commanded, Answered, Reads, Writes, Given
<1> QED BY <1>1, <1>2, <1>3, <1>4, <1>5, <1>6 DEF DiskInv

\* A step that changes at most panicked, and how often the disk may still be slow.
LEMMA PanicKeeps ==
  ASSUME DiskInv, panicked' \in BOOLEAN, faults' \in FaultType, faults'.wrong = faults.wrong,
         UNCHANGED <<lock, expecting_interrupt, completion_wait, ata, media, step, swvars>>
  PROVE  DiskInv'
<1> USE DEF swvars
<1>1. DiskTypeOK'  BY DEF DiskInv, DiskTypeOK
<1>2. LockHeld'  BY DEF DiskInv, LockHeld
<1>3. ASSUME NEW u \in Client PROVE Knows(u)'
  BY Zenon DEF DiskInv, Knows, Given, Commanded, Storing, Reads, Writes
<1>4. Contents'  BY Zenon DEF DiskInv, Contents, Effective, Storing, Given, Writes
<1>5. faults'.wrong = {} => Completions'
  BY DEF DiskInv, Completions, Answered, Reads, Writes
<1> QED BY <1>1, <1>2, <1>3, <1>4, <1>5 DEF DiskInv, Storing

-----------------------------------------------------------------------------
(***************************************************************************)
(* The disk: theorems                                                      *)
(***************************************************************************)

\* Every step keeps the invariant, unless it is one of those two.
LEMMA DiskStep ==
  ASSUME DiskInv, [DiskNext]_dvars, faults' \in FaultType, Trusted'
  PROVE  DiskInv'
<1>1. ASSUME NEW t \in Client, NEW p \in Partition, NEW sector \in 0 .. DiskSize - 1,
             \/ Request(t, p, sector, "read", NONE)
             \/ \E datum \in Datum : Request(t, p, sector, "write", datum)
             \/ \E op \in {"read", "write"} : RequestPanics(t, p, sector, op)
      PROVE  DiskInv'
  <2>1. CASE Request(t, p, sector, "read", NONE)  BY <2>1, RequestKeeps DEF Value
  <2>2. ASSUME NEW datum \in Datum, Request(t, p, sector, "write", datum) PROVE DiskInv'
    BY <2>2, RequestKeeps DEF Value
  <2>3. ASSUME NEW op \in {"read", "write"}, RequestPanics(t, p, sector, op) PROVE DiskInv'
    BY <2>3, PanicKeeps DEF RequestPanics
  <2> QED BY <1>1, <2>1, <2>2, <2>3
<1>2. ASSUME NEW t \in Client,
             \/ LockChannel(t) \/ SelectSector(t) \/ SelectTimesOut(t) \/ IssuePioCommand(t)
             \/ AwaitCompletion(t) \/ Transfer(t) \/ TransferFails(t) \/ UnlockChannel(t)
             \/ Return(t)
      PROVE  DiskInv'
  <2>1. CASE TransferFails(t)
    <3>1. faults'.wrong = faults.wrong  BY <2>1 DEF TransferFails, DiskInv, DiskTypeOK, FaultType
    <3> QED BY <2>1, <3>1, PanicKeeps DEF TransferFails
  <2>2. SelectTimesOut(t) => "late" \in faults'.wrong
    BY FaultsSpent, Zenon DEF SelectTimesOut, DiskInv, DiskTypeOK
  <2>3. ~SelectTimesOut(t)  BY <2>2 DEF Trusted
  <2> QED BY <1>2, <2>1, <2>3, LockChannelKeeps, SelectSectorKeeps, IssuePioCommandKeeps,
             AwaitCompletionKeeps, TransferKeeps, UnlockChannelKeeps, ReturnKeeps, Zenon
<1>3. CASE Interrupt \/ StrayInterrupt \/ DiskReady \/ DiskStored \/ DiskFails
  BY <1>3, InterruptKeeps, StrayInterruptKeeps, DiskReadyKeeps, DiskStoredKeeps, DiskFailsKeeps, ZenonT(60)
<1>4. CASE UNCHANGED dvars
  BY <1>4, PanicKeeps DEF dvars, swvars, DiskInv, DiskTypeOK
<1> QED BY <1>1, <1>2, <1>3, <1>4 DEF DiskNext

\* The invariant of the specification: nothing is said once a step was one of those two.
TrustedInv == faults \in FaultType /\ (Trusted => DiskInv)

LEMMA DiskInvariant == DiskSpec => []TrustedInv
<1>1. DiskInit(FALSE) => TrustedInv  BY InitDisk DEF TrustedInv, DiskInv, DiskTypeOK
<1>2. ASSUME TrustedInv, [DiskNext]_dvars PROVE TrustedInv'
  <2>1. faults' \in FaultType /\ faults.wrong \subseteq faults'.wrong
    BY <1>2, FaultsGrow DEF TrustedInv
  <2>2. Trusted' => Trusted  BY <2>1 DEF Trusted
  <2> QED BY <1>2, <2>1, <2>2, DiskStep DEF TrustedInv
<1> QED BY <1>1, <1>2, PTL DEF DiskSpec

\* Whatever the other threads do on either disk, and also when stray interrupts let a wait
\* on completion_wait return too early, or a command fails before its data is transferred,
\* ide_read returns what the last ide_write of the sector to return has written, as long as
\* wait_until_idle has not given up and the disk has stored all the data it was given.
THEOREM ReadFindsWrite == DiskSpec => []ReadsLastWrite
<1>1. TrustedInv => ReadsLastWrite
  BY DEF TrustedInv, Trusted, DiskInv, Knows, Reads, ReadsLastWrite
<1> QED BY <1>1, DiskInvariant, PTL

\* If besides no stray interrupt comes, ide_write returns after the disk has stored the
\* data, and no completion is left over on the channel for the next command.
THEOREM WriteReturnsStored == DiskSpec => []WriteIsStored
<1>1. ASSUME TrustedInv PROVE WriteIsStored
  <2>0. faults.wrong = {} => DiskInv /\ Completions  BY <1>1 DEF TrustedInv, Trusted, DiskInv
  <2>1. ASSUME faults.wrong = {}, NEW t \in Client, step[t] = "unlock", req[t].op = "write"
        PROVE  media[req[t].at] = req[t].datum
    <3>1. Completions /\ Given(t)  BY <2>0, <2>1 DEF Given, Writes
    <3>2. ~Storing  BY <2>1, <3>1 DEF Completions, Storing
    <3> QED BY <2>0, <2>1, <3>1, <3>2, ZenonT(60) DEF DiskInv, Contents, Effective
  <2>2. ASSUME faults.wrong = {}, lock = NONE PROVE completion_wait = 0 /\ ata.status = "idle"
    <3>1. \A t \in Client : step[t] \notin Held
      BY <2>0, <2>2, DiskAssumption DEF DiskInv, LockHeld
    <3>2. \A t \in Client : ~Answered(t)  BY <3>1 DEF Answered, Held
    <3> QED BY <2>0, <2>2, <3>2 DEF Completions
  <2> QED BY <2>1, <2>2, Zenon DEF WriteIsStored
<1> QED BY <1>1, DiskInvariant, PTL

-----------------------------------------------------------------------------
(***************************************************************************)
(* The alarm clock: inductive invariant                                    *)
(***************************************************************************)

INSTANCE FiniteSetTheorems
INSTANCE SequenceTheorems

Asleep(t) == sleep[t] \in {"inserted", "down"}

\* wait_list holds no thread twice and is ordered by wake-up time.
Ordered(list, now) ==
  \A i, j \in 1 .. Len(list) :
    /\ i <= j => now[list[i]] <= now[list[j]]
    /\ list[i] = list[j] => i = j

\* Only threads between their insertion and their wake-up are on wait_list; those
\* of them that are not have been upped, once.
Alarms ==
  \A t \in Thread :
    /\ t \in Elems(wait_list) => Asleep(t)
    /\ timer_sema[t] = IF Asleep(t) /\ t \notin Elems(wait_list) THEN 1 ELSE 0

AlarmInv == AlarmTypeOK /\ Ordered(wait_list, due) /\ Alarms /\ NeverEarly

-----------------------------------------------------------------------------
(***************************************************************************)
(* Lists                                                                   *)
(***************************************************************************)

\* A scan of 1 .. n that stops at the first element of B stops somewhere: the loops
\* of list_insert_ordered and of timer_interrupt end.
LEMMA FirstStop ==
  ASSUME NEW n \in Nat, NEW B \in SUBSET (1 .. n)
  PROVE  \E k \in 0 .. n : /\ \A i \in 1 .. k : i \notin B
                           /\ k < n => k + 1 \in B
<1>1. CASE B = {}
  <2>1. n \in 0 .. n  OBVIOUS
  <2> QED BY <1>1, <2>1, SMTT(60)
<1>2. CASE B # {}
  <2>1. B \subseteq Nat  OBVIOUS
  <2>2. PICK b \in B : \A y \in B : ~(<<y, b>> \in OpToRel(<, Nat))
    BY <1>2, <2>1, WFMin, NatLessThanWellFounded
  <2>3. \A y \in B : ~(y < b)
    BY <2>1, <2>2, Zenon DEF OpToRel
  <2>4. /\ b - 1 \in 0 .. n
        /\ \A i \in 1 .. b - 1 : i \notin B
        /\ (b - 1) + 1 \in B
    BY <2>3
  <2> QED BY <2>4
<1> QED BY <1>1, <1>2, Zenon

\* The two parts of a list cut behind its n-th element.
LEMMA Cut ==
  ASSUME NEW list \in Seq(Thread), NEW n \in 0 .. Len(list)
  PROVE  /\ SubSeq(list, 1, n) \in Seq(Thread) /\ Len(SubSeq(list, 1, n)) = n
         /\ \A i \in 1 .. n : SubSeq(list, 1, n)[i] = list[i]
         /\ SubSeq(list, n + 1, Len(list)) \in Seq(Thread)
         /\ Len(SubSeq(list, n + 1, Len(list))) = Len(list) - n
         /\ \A i \in 1 .. Len(list) - n : SubSeq(list, n + 1, Len(list))[i] = list[n + i]
<1> DEFINE front == SubSeq(list, 1, n)
           back == SubSeq(list, n + 1, Len(list))
<1>1. Len(list) \in Nat /\ \A i \in 1 .. Len(list) : list[i] \in Thread
  OBVIOUS
<1>2. /\ front \in Seq(Thread) /\ Len(front) = n
      /\ \A i \in 1 .. n : front[i] = list[i]
  <2>1. \A i \in 1 .. n : list[i] \in Thread  BY <1>1
  <2>2. /\ front \in Seq(Thread)
        /\ Len(front) = IF 1 <= n THEN n - 1 + 1 ELSE 0
        /\ \A i \in 1 .. n - 1 + 1 : front[i] = list[1 + i - 1]
    BY <2>1, SubSeqProperties
  <2> HIDE DEF front
  <2> QED BY <2>2
<1>3. /\ back \in Seq(Thread) /\ Len(back) = Len(list) - n
      /\ \A i \in 1 .. Len(list) - n : back[i] = list[n + i]
  <2>1. \A i \in n + 1 .. Len(list) : list[i] \in Thread  BY <1>1, SMTT(60)
  <2>2. /\ back \in Seq(Thread)
        /\ Len(back) = IF n + 1 <= Len(list) THEN Len(list) - (n + 1) + 1 ELSE 0
        /\ \A i \in 1 .. Len(list) - (n + 1) + 1 : back[i] = list[(n + 1) + i - 1]
    BY <1>1, <2>1, SubSeqProperties, SMTT(60)
  <2> HIDE DEF back
  <2>3. Len(list) - (n + 1) + 1 = Len(list) - n  BY <1>1
  <2>4. \A i \in 1 .. Len(list) - n : (n + 1) + i - 1 = n + i  BY <1>1
  <2>5. Len(back) = Len(list) - n  BY <1>1, <2>2, SMTT(60)
  <2> QED BY <2>2, <2>3, <2>4, <2>5, ZenonT(60)
<1> QED BY <1>2, <1>3 DEF front, back

\* list_insert_ordered puts the new thread behind those that wake up no later and
\* before the first that wakes up later, and moves no other.
LEMMA Insertion ==
  ASSUME NEW list \in Seq(Thread), NEW t \in Thread, due \in [Thread -> Int]
  PROVE  LET r == list_insert_ordered(list, t)
         IN  /\ r \in Seq(Thread) /\ Len(r) = Len(list) + 1
             /\ \E n \in 0 .. Len(list) :
                  /\ \A i \in 1 .. n : r[i] = list[i] /\ due[list[i]] <= due[t]
                  /\ r[n + 1] = t
                  /\ \A i \in n + 2 .. Len(r) : r[i] = list[i - 1]
                  /\ n < Len(list) => due[t] < due[list[n + 1]]
<1> DEFINE Stop(k) == /\ \A i \in 1 .. k : ~compare_threads_by_wakeup_time(t, list[i])
                      /\ k < Len(list) => compare_threads_by_wakeup_time(t, list[k + 1])
           n == CHOOSE k \in 0 .. Len(list) : Stop(k)
           front == SubSeq(list, 1, n)
           back == SubSeq(list, n + 1, Len(list))
           r == front \o <<t>> \o back
<1>0. list_insert_ordered(list, t) = r
  BY DEF list_insert_ordered
<1>1. Len(list) \in Nat /\ \A i \in 1 .. Len(list) : list[i] \in Thread
  OBVIOUS
<1>2. \E k \in 0 .. Len(list) : Stop(k)
  <2> DEFINE B == {i \in 1 .. Len(list) : compare_threads_by_wakeup_time(t, list[i])}
  <2>1. PICK k \in 0 .. Len(list) : /\ \A i \in 1 .. k : i \notin B
                                    /\ k < Len(list) => k + 1 \in B
    <3>1. B \in SUBSET (1 .. Len(list))  OBVIOUS
    <3> HIDE DEF B
    <3> QED BY <1>1, <3>1, FirstStop, Zenon
  <2>2. \A i \in 1 .. k : i \in 1 .. Len(list)
    BY <1>1, SMTT(60)
  <2> QED BY <2>1, <2>2, Zenon
<1>3. n \in 0 .. Len(list) /\ Stop(n)
  <2> HIDE DEF Stop
  <2> QED BY <1>2, Zenon
<1> HIDE DEF n
<1>4. /\ front \in Seq(Thread) /\ Len(front) = n
      /\ \A i \in 1 .. n : front[i] = list[i]
  BY <1>3, Cut, Zenon
<1>5. /\ back \in Seq(Thread) /\ Len(back) = Len(list) - n
      /\ \A i \in 1 .. Len(list) - n : back[i] = list[n + i]
  BY <1>3, Cut, Zenon
<1> HIDE DEF front, back
<1> DEFINE mid == Append(front, t)
<1>6. /\ mid \in Seq(Thread) /\ Len(mid) = n + 1
      /\ \A i \in 1 .. n : mid[i] = list[i]
      /\ mid[n + 1] = t
  BY <1>4, AppendProperties
<1> HIDE DEF mid
<1>7. /\ r \in Seq(Thread) /\ Len(r) = Len(list) + 1
      /\ \A i \in 1 .. n + 1 : r[i] = mid[i]
      /\ \A i \in n + 2 .. Len(list) + 1 : r[i] = list[i - 1]
  <2>0. r = mid \o back  BY <1>4, AppendIsConcat, Zenon DEF mid
  <2> HIDE DEF r
  <2>1. /\ r \in Seq(Thread)
        /\ Len(r) = (n + 1) + (Len(list) - n)
        /\ \A i \in 1 .. (n + 1) + (Len(list) - n) :
             r[i] = IF i <= n + 1 THEN mid[i] ELSE back[i - (n + 1)]
    <3>1. /\ mid \o back \in Seq(Thread)
          /\ Len(mid \o back) = Len(mid) + Len(back)
          /\ \A i \in 1 .. Len(mid) + Len(back) :
               (mid \o back)[i] = IF i <= Len(mid) THEN mid[i] ELSE back[i - Len(mid)]
      BY <1>5, <1>6, ConcatProperties, ZenonT(60)
    <3>2. Len(mid) = n + 1 /\ Len(back) = Len(list) - n  BY <1>5, <1>6, Zenon
    <3> QED BY <2>0, <3>1, <3>2, Zenon
  <2>2. (n + 1) + (Len(list) - n) = Len(list) + 1  BY <1>1, <1>3, SMTT(60)
  <2>3. ASSUME NEW i \in n + 2 .. Len(list) + 1
        PROVE  r[i] = list[i - 1]
    <3>1. i - (n + 1) \in 1 .. Len(list) - n  BY <1>1, <1>3, SMTT(60)
    <3>2. n + (i - (n + 1)) = i - 1  BY <1>1, <1>3, SMTT(60)
    <3>3. ~(i <= n + 1) /\ i \in 1 .. Len(list) + 1  BY <1>1, <1>3, SMTT(60)
    <3> QED BY <1>5, <2>1, <2>2, <3>1, <3>2, <3>3, Zenon
  <2>4. ASSUME NEW i \in 1 .. n + 1 PROVE r[i] = mid[i]
    <3>1. i <= n + 1 /\ i \in 1 .. Len(list) + 1  BY <1>1, <1>3, SMTT(60)
    <3> QED BY <2>1, <2>2, <3>1, Zenon
  <2> QED BY <2>1, <2>2, <2>3, <2>4
<1> HIDE DEF r
<1>8. \A i \in 1 .. n : due[list[i]] <= due[t]
  BY <1>1, <1>3, SMTT(60) DEF compare_threads_by_wakeup_time
<1>9. n < Len(list) => due[t] < due[list[n + 1]]
  BY <1>3, Zenon DEF compare_threads_by_wakeup_time
<1>10. /\ \A i \in 1 .. n : r[i] = list[i]
       /\ r[n + 1] = t
  BY <1>3, <1>6, <1>7, SMTT(60)
<1> QED BY <1>0, <1>3, <1>7, <1>8, <1>9, <1>10, Zenon

\* What list_insert_ordered returns is ordered when its argument was, and holds the
\* new thread besides those that were there.
LEMMA InsertionKeepsOrder ==
  ASSUME NEW list \in Seq(Thread), NEW t \in Thread, due \in [Thread -> Int],
         Ordered(list, due), t \notin Elems(list)
  PROVE  LET r == list_insert_ordered(list, t)
         IN  r \in Seq(Thread) /\ Ordered(r, due) /\ Elems(r) = Elems(list) \cup {t}
<1> DEFINE r == list_insert_ordered(list, t)
<1>1. Len(list) \in Nat /\ \A i \in 1 .. Len(list) : list[i] \in Thread
  BY SMTT(60)
<1>2. r \in Seq(Thread) /\ Len(r) = Len(list) + 1
  BY Insertion
<1>3. PICK n \in 0 .. Len(list) :
        /\ \A i \in 1 .. n : r[i] = list[i] /\ due[list[i]] <= due[t]
        /\ r[n + 1] = t
        /\ \A i \in n + 2 .. Len(r) : r[i] = list[i - 1]
        /\ n < Len(list) => due[t] < due[list[n + 1]]
  BY Insertion, Zenon
<1> HIDE DEF r
<1>4. \A i \in 1 .. Len(list) : list[i] # t
  BY Zenon DEF Elems
<1>5. \A i \in n + 1 .. Len(list) : due[t] <= due[list[i]]
  <2> SUFFICES ASSUME NEW i \in n + 1 .. Len(list) PROVE due[t] <= due[list[i]]
    OBVIOUS
  <2>1. n + 1 \in 1 .. Len(list) /\ i \in 1 .. Len(list) /\ n + 1 <= i
    BY <1>1, SMTT(60)
  <2>2. due[t] < due[list[n + 1]] /\ due[list[n + 1]] <= due[list[i]]
    BY <1>1, <1>3, <2>1, SMTT(60) DEF Ordered
  <2>3. due[t] \in Int /\ due[list[n + 1]] \in Int /\ due[list[i]] \in Int
    BY <1>1, <2>1, Zenon
  <2> QED BY <2>2, <2>3, SMTT(60)
<1>6. ASSUME NEW i \in 1 .. Len(r)
      PROVE  \/ i \in 1 .. n /\ i \in 1 .. Len(list) /\ r[i] = list[i]
             \/ i = n + 1 /\ r[i] = t
             \/ i \in n + 2 .. Len(r) /\ i - 1 \in n + 1 .. Len(list)
                /\ i - 1 \in 1 .. Len(list) /\ r[i] = list[i - 1]
  <2>1. CASE i <= n
    <3>1. i \in 1 .. n /\ i \in 1 .. Len(list)  BY <1>1, <2>1, SMTT(60)
    <3> QED BY <1>3, <3>1, Zenon
  <2>2. CASE i = n + 1  BY <1>3, <2>2, Zenon
  <2>3. CASE i > n + 1
    <3>1. /\ i \in n + 2 .. Len(r) /\ i - 1 \in n + 1 .. Len(list)
          /\ i - 1 \in 1 .. Len(list)
      BY <1>1, <1>2, <2>3, SMTT(60)
    <3> QED BY <1>3, <3>1, Zenon
  <2> QED BY <1>1, <1>2, <2>1, <2>2, <2>3, SMTT(60)
<1>7. Ordered(r, due)
  <2> SUFFICES ASSUME NEW i \in 1 .. Len(r), NEW j \in 1 .. Len(r)
               PROVE  /\ i <= j => due[r[i]] <= due[r[j]]
                      /\ r[i] = r[j] => i = j
    BY Zenon DEF Ordered
  <2>0. due[t] <= due[t]  OBVIOUS
  <2>1. CASE i \in 1 .. n /\ i \in 1 .. Len(list) /\ r[i] = list[i]
    <3>1. CASE j \in 1 .. n /\ j \in 1 .. Len(list) /\ r[j] = list[j]
      BY <2>1, <3>1, Zenon DEF Ordered
    <3>2. CASE j = n + 1 /\ r[j] = t
      BY <1>3, <1>4, <2>1, <3>2, Zenon
    <3>3. CASE j \in n + 2 .. Len(r) /\ j - 1 \in n + 1 .. Len(list)
                /\ j - 1 \in 1 .. Len(list) /\ r[j] = list[j - 1]
      <4>1. PICK k \in 1 .. Len(list) : k = j - 1 /\ r[j] = list[k]  BY <3>3, Zenon
      <4>2. /\ i <= k => due[list[i]] <= due[list[k]]
            /\ list[i] = list[k] => i = k
        BY <2>1, Zenon DEF Ordered
      <4>3. i <= k /\ i # k  BY <2>1, <3>3, <4>1, SMTT(60)
      <4> QED BY <2>1, <4>1, <4>2, <4>3, Zenon
    <3> QED BY <1>6, <3>1, <3>2, <3>3, Zenon
  <2>2. CASE i = n + 1 /\ r[i] = t
    <3>1. CASE j \in 1 .. n /\ j \in 1 .. Len(list) /\ r[j] = list[j]
      BY <1>4, <2>2, <3>1, SMTT(60)
    <3>2. CASE j = n + 1 /\ r[j] = t
      BY <2>0, <2>2, <3>2, Zenon
    <3>3. CASE j \in n + 2 .. Len(r) /\ j - 1 \in n + 1 .. Len(list)
                /\ j - 1 \in 1 .. Len(list) /\ r[j] = list[j - 1]
      BY <1>4, <1>5, <2>2, <3>3, Zenon
    <3> QED BY <1>6, <3>1, <3>2, <3>3
  <2>3. CASE i \in n + 2 .. Len(r) /\ i - 1 \in n + 1 .. Len(list)
                /\ i - 1 \in 1 .. Len(list) /\ r[i] = list[i - 1]
    <3>1. CASE j \in 1 .. n /\ j \in 1 .. Len(list) /\ r[j] = list[j]
      <4>1. PICK k \in 1 .. Len(list) : k = i - 1 /\ r[i] = list[k]  BY <2>3, Zenon
      <4>2. list[k] = list[j] => k = j  BY <3>1, Zenon DEF Ordered
      <4>3. ~(i <= j) /\ k # j  BY <2>3, <3>1, <4>1, SMTT(60)
      <4> QED BY <3>1, <4>1, <4>2, <4>3, Zenon
    <3>2. CASE j = n + 1 /\ r[j] = t
      BY <1>4, <2>3, <3>2, SMTT(60)
    <3>3. CASE j \in n + 2 .. Len(r) /\ j - 1 \in n + 1 .. Len(list)
                /\ j - 1 \in 1 .. Len(list) /\ r[j] = list[j - 1]
      <4>1. PICK k \in 1 .. Len(list) : k = i - 1 /\ r[i] = list[k]  BY <2>3, SMTT(30)
      <4>2. PICK m \in 1 .. Len(list) : m = j - 1 /\ r[j] = list[m]  BY <3>3, Zenon
      <4>3. /\ k <= m => due[list[k]] <= due[list[m]]
            /\ list[k] = list[m] => k = m
        BY Zenon DEF Ordered
      <4>4. (i <= j => k <= m) /\ (k = m => i = j)  BY <4>1, <4>2, SMTT(60)
      <4> QED BY <4>1, <4>2, <4>3, <4>4, Zenon
    <3> QED BY <1>6, <3>1, <3>2, <3>3
  <2> QED BY <1>6, <2>1, <2>2, <2>3, Zenon
<1>8. Elems(r) = Elems(list) \cup {t}
  <2>1. ASSUME NEW x \in Elems(r) PROVE x \in Elems(list) \cup {t}
    <3>1. PICK i \in 1 .. Len(r) : x = r[i]  BY <2>1 DEF Elems
    <3>2. x = t \/ \E k \in 1 .. Len(list) : x = list[k]  BY <1>6, <3>1
    <3> QED BY <3>2, Zenon DEF Elems
  <2>2. t \in Elems(r)
    <3>1. n + 1 \in 1 .. Len(r)  BY <1>1, <1>2
    <3> QED BY <1>3, <3>1 DEF Elems
  <2>3. ASSUME NEW x \in Elems(list) PROVE x \in Elems(r)
    <3>1. PICK i \in 1 .. Len(list) : x = list[i]  BY <2>3, Zenon DEF Elems
    <3>2. CASE i <= n
      <4>1. i \in 1 .. n /\ i \in 1 .. Len(r)  BY <1>1, <1>2, <3>2
      <4> QED BY <1>3, <3>1, <4>1, Zenon DEF Elems
    <3>3. CASE ~(i <= n)
      <4>1. i + 1 \in n + 2 .. Len(r) /\ i + 1 \in 1 .. Len(r) /\ (i + 1) - 1 = i
        BY <1>1, <1>2, <3>3, SMTT(60)
      <4>2. r[i + 1] = x  BY <1>3, <3>1, <4>1, Zenon
      <4> QED BY <4>1, <4>2, Zenon DEF Elems
    <3> QED BY <3>2, <3>3, Zenon
  <2> QED BY <2>1, <2>2, <2>3, Zenon
<1> QED BY <1>2, <1>7, <1>8, Zenon DEF r

\* The loop of timer_interrupt splits an ordered list in two: the threads it pops
\* are those whose time has come, and those it leaves are the others.
LEMMA Split ==
  ASSUME NEW list \in Seq(Thread), NEW now \in [Thread -> Int], Ordered(list, now)
  PROVE  LET k == Expired(list, now)
             rest == SubSeq(list, k + 1, Len(list))
         IN  /\ rest \in Seq(Thread) /\ Ordered(rest, now)
             /\ \A t \in Elems(rest) : t \in Elems(list) /\ now[t] > 0
             /\ \A t \in Elems(SubSeq(list, 1, k)) : t \in Elems(list) /\ now[t] <= 0
             /\ Elems(list) = Elems(SubSeq(list, 1, k)) \cup Elems(rest)
<1> DEFINE Stop(k) == /\ \A i \in 1 .. k : now[list[i]] <= 0
                      /\ k < Len(list) => now[list[k + 1]] > 0
           n == Expired(list, now)
           front == SubSeq(list, 1, n)
           rest == SubSeq(list, n + 1, Len(list))
<1>1. Len(list) \in Nat /\ \A i \in 1 .. Len(list) : list[i] \in Thread
  BY SMTT(60)
<1>2. \E k \in 0 .. Len(list) : Stop(k)
  <2> DEFINE B == {i \in 1 .. Len(list) : now[list[i]] > 0}
  <2>1. PICK k \in 0 .. Len(list) : /\ \A i \in 1 .. k : i \notin B
                                    /\ k < Len(list) => k + 1 \in B
    <3>1. B \in SUBSET (1 .. Len(list))  BY Zenon
    <3> HIDE DEF B
    <3> QED BY <1>1, <3>1, FirstStop, ZenonT(60)
  <2>2. \A i \in 1 .. k : i \in 1 .. Len(list)
    BY <1>1, SMTT(60)
  <2>3. \A i \in 1 .. k : now[list[i]] \in Int /\ ~(now[list[i]] > 0)
    BY <1>1, <2>1, <2>2, Zenon
  <2> QED BY <2>1, <2>2, <2>3, SMTT(60)
<1>3. n \in 0 .. Len(list) /\ Stop(n)
  <2>1. n = CHOOSE k \in 0 .. Len(list) : Stop(k)  BY Zenon DEF Expired
  <2> HIDE DEF Stop, n
  <2> QED BY <1>2, <2>1, Zenon
<1> HIDE DEF n
<1>4. /\ front \in Seq(Thread) /\ Len(front) = n
      /\ \A i \in 1 .. n : front[i] = list[i]
  BY <1>3, Cut, Zenon
<1>5. /\ rest \in Seq(Thread) /\ Len(rest) = Len(list) - n
      /\ \A i \in 1 .. Len(list) - n : rest[i] = list[n + i]
  BY <1>3, Cut, Zenon
<1> HIDE DEF front, rest
<1>6. Ordered(rest, now)
  <2> SUFFICES ASSUME NEW i \in 1 .. Len(rest), NEW j \in 1 .. Len(rest)
               PROVE  /\ i <= j => now[rest[i]] <= now[rest[j]]
                      /\ rest[i] = rest[j] => i = j
    BY Zenon DEF Ordered
  <2>1. /\ n + i \in 1 .. Len(list) /\ n + j \in 1 .. Len(list)
        /\ i <= j => n + i <= n + j
        /\ n + i = n + j => i = j
    BY <1>1, <1>3, <1>5, SMTT(60)
  <2>2. rest[i] = list[n + i] /\ rest[j] = list[n + j]
    BY <1>5, Zenon
  <2>3. PICK k \in 1 .. Len(list) : k = n + i  BY <2>1, Zenon
  <2>4. PICK m \in 1 .. Len(list) : m = n + j  BY <2>1, Zenon
  <2>5. /\ k <= m => now[list[k]] <= now[list[m]]
        /\ list[k] = list[m] => k = m
    BY Zenon DEF Ordered
  <2> QED BY <2>1, <2>2, <2>3, <2>4, <2>5, Zenon
<1>7. ASSUME NEW t \in Elems(rest) PROVE t \in Elems(list) /\ now[t] > 0
  <2>1. PICK i \in 1 .. Len(rest) : t = rest[i]  BY <1>7, Zenon DEF Elems
  <2>2. n + i \in 1 .. Len(list) /\ n + 1 \in 1 .. Len(list) /\ n + 1 <= n + i /\ n < Len(list)
    BY <1>1, <1>3, <1>5, SMTT(60)
  <2>3. t = list[n + i]  BY <1>5, <2>1, Zenon
  <2>4. now[list[n + 1]] > 0 /\ now[list[n + 1]] <= now[list[n + i]]
    <3>1. PICK k \in 1 .. Len(list) : k = n + 1  BY <2>2, Zenon
    <3>2. PICK m \in 1 .. Len(list) : m = n + i  BY <2>2, Zenon
    <3>3. k <= m => now[list[k]] <= now[list[m]]  BY Zenon DEF Ordered
    <3> QED BY <1>3, <2>2, <3>1, <3>2, <3>3, Zenon
  <2>5. now[list[n + 1]] \in Int /\ now[t] \in Int
    BY <1>1, <2>2, <2>3, Zenon
  <2> QED BY <2>2, <2>3, <2>4, <2>5, SMTT(60) DEF Elems
<1>8. ASSUME NEW t \in Elems(front) PROVE t \in Elems(list) /\ now[t] <= 0
  <2>1. PICK i \in 1 .. Len(front) : t = front[i]  BY <1>8 DEF Elems
  <2>2. i \in 1 .. n /\ i \in 1 .. Len(list)  BY <1>1, <1>3, <1>4, SMTT(60)
  <2>3. t = list[i]  BY <1>4, <2>1, <2>2, Zenon
  <2> QED BY <1>3, <2>2, <2>3, Zenon DEF Elems
<1>9. ASSUME NEW t \in Elems(list) PROVE t \in Elems(front) \cup Elems(rest)
  <2>1. PICK i \in 1 .. Len(list) : t = list[i]  BY <1>9, Zenon DEF Elems
  <2>2. CASE i <= n
    <3>1. i \in 1 .. n /\ i \in 1 .. Len(front)  BY <1>1, <1>3, <1>4, <2>2, SMTT(60)
    <3> QED BY <1>4, <2>1, <3>1, Zenon DEF Elems
  <2>3. CASE ~(i <= n)
    <3>1. i - n \in 1 .. Len(list) - n /\ i - n \in 1 .. Len(rest) /\ n + (i - n) = i
      BY <1>1, <1>3, <1>5, <2>3, SMTT(60)
    <3>2. t = rest[i - n]  BY <1>5, <2>1, <3>1, Zenon
    <3> QED BY <3>1, <3>2, Zenon DEF Elems
  <2> QED BY <2>2, <2>3, Zenon
<1>10. Elems(list) = Elems(front) \cup Elems(rest)
  BY <1>7, <1>8, <1>9, Zenon
<1> QED BY <1>5, <1>6, <1>7, <1>8, <1>10, Zenon DEF n, front, rest

\* One tick brings every wake-up time nearer, and reorders none.
LEMMA Tick ==
  ASSUME due \in [Thread -> Due], wait_list \in Seq(Thread), Ordered(wait_list, due)
  PROVE  /\ OneTick \in [Thread -> Due] /\ OneTick \in [Thread -> Int]
         /\ \A t \in Thread : OneTick[t] <= due[t]
         /\ Ordered(wait_list, OneTick)
<1>1. MaxSleep \in Nat /\ MaxLate \in Nat  BY AlarmAssumption, Zenon
<1>2. \A t \in Thread : /\ OneTick[t] \in Due /\ OneTick[t] \in Int /\ due[t] \in Int
                        /\ OneTick[t] <= due[t]
  BY <1>1, SMTT(60) DEF OneTick, Due
<1>3. \A s, t \in Thread : due[s] <= due[t] => OneTick[s] <= OneTick[t]
  BY <1>1, SMTT(60) DEF OneTick, Due
<1>4. Ordered(wait_list, OneTick)
  <2>1. \A i \in 1 .. Len(wait_list) : wait_list[i] \in Thread  BY SMTT(60)
  <2> QED BY <1>3, <2>1, Zenon DEF Ordered
<1>5. OneTick = [t \in Thread |-> OneTick[t]]  BY DEF OneTick
<1> QED BY <1>2, <1>4, <1>5, Zenon

-----------------------------------------------------------------------------
(***************************************************************************)
(* The invariant is inductive                                              *)
(***************************************************************************)

\* Nobody sleeps before the first call of timer_sleep.
LEMMA InitAlarm == (\E late \in 0 .. MaxLate : AlarmInit(late)) => AlarmInv
<1> SUFFICES ASSUME NEW late \in 0 .. MaxLate, AlarmInit(late) PROVE AlarmInv  OBVIOUS
<1>1. AlarmTypeOK  BY AlarmAssumption, SMTT(60) DEF AlarmInit, AlarmTypeOK, Due
<1>2. Ordered(wait_list, due) /\ Elems(wait_list) = {}
  BY SMTT(60) DEF AlarmInit, Ordered, Elems
<1>3. Alarms  BY <1>2, Zenon DEF AlarmInit, Alarms, Asleep
<1>4. NeverEarly  BY DEF AlarmInit, NeverEarly
<1> QED BY <1>1, <1>2, <1>3, <1>4, Zenon DEF AlarmInv

\* timer_sleep sets the wake-up time of a thread that is not on wait_list.
LEMMA TimerSleepKeeps ==
  ASSUME AlarmInv, NEW t \in Thread, NEW n \in -1 .. MaxSleep, TimerSleep(t, n)
  PROVE  AlarmInv'
<1> USE DEF AlarmInv
<1>1. n \in Due  BY AlarmAssumption, SMTT(60) DEF Due
<1>2. AlarmTypeOK'  BY <1>1, Zenon DEF TimerSleep, AlarmTypeOK
<1>3. t \notin Elems(wait_list) /\ timer_sema[t] = 0
  BY Zenon DEF TimerSleep, Alarms, Asleep
<1>4. \A s \in Thread \ {t} : due'[s] = due[s] /\ sleep'[s] = sleep[s]
  BY Zenon DEF TimerSleep, AlarmTypeOK
<1>5. sleep'[t] = "insert" /\ sleep[t] = "awake"
  BY Zenon DEF TimerSleep, AlarmTypeOK
<1>6. UNCHANGED <<wait_list, timer_sema>>  BY Zenon DEF TimerSleep
<1>7. Ordered(wait_list, due)'
  <2>1. \A i \in 1 .. Len(wait_list) : wait_list[i] \in Thread \ {t}
    BY <1>3, SMTT(60) DEF AlarmTypeOK, Elems
  <2> QED BY <1>4, <1>6, <2>1, SMTT(60) DEF Ordered
<1>8. Alarms'
  <2> SUFFICES ASSUME NEW s \in Thread
               PROVE  /\ s \in Elems(wait_list) => sleep'[s] \in {"inserted", "down"}
                      /\ timer_sema[s] = IF /\ sleep'[s] \in {"inserted", "down"}
                                            /\ s \notin Elems(wait_list)
                                         THEN 1 ELSE 0
    BY <1>6, ZenonT(60) DEF Alarms, Asleep, Elems
  <2>1. CASE s = t  BY <1>3, <1>5, <2>1, Zenon
  <2>2. CASE s # t  BY <1>4, <2>2, Zenon DEF Alarms, Asleep
  <2> QED BY <2>1, <2>2, Zenon
<1>9. NeverEarly'  BY <1>3, <1>4, <1>6, SMTT(60) DEF NeverEarly
<1> QED BY <1>2, <1>7, <1>8, <1>9, Zenon

\* The insertion, with interrupts off, keeps wait_list ordered.
LEMMA SleepInsertKeeps ==
  ASSUME AlarmInv, NEW t \in Thread, SleepInsert(t)
  PROVE  AlarmInv'
<1> USE DEF AlarmInv
<1>1. t \notin Elems(wait_list) /\ timer_sema[t] = 0
  BY Zenon DEF SleepInsert, Alarms, Asleep
<1>2. due \in [Thread -> Int] /\ wait_list \in Seq(Thread)
  BY AlarmAssumption, SMTT(60) DEF AlarmTypeOK, Due
<1>3. /\ wait_list' \in Seq(Thread) /\ Ordered(wait_list', due)
      /\ Elems(wait_list') = Elems(wait_list) \cup {t}
  <2>1. wait_list' = list_insert_ordered(wait_list, t)  BY Zenon DEF SleepInsert
  <2> QED BY <1>1, <1>2, <2>1, InsertionKeepsOrder, Zenon
<1>4. UNCHANGED <<due, timer_sema>>  BY Zenon DEF SleepInsert
<1>5. AlarmTypeOK'  BY <1>3, <1>4, Zenon DEF SleepInsert, AlarmTypeOK
<1>6. /\ sleep'[t] = "inserted"
      /\ \A s \in Thread \ {t} : sleep'[s] = sleep[s]
  BY Zenon DEF SleepInsert, AlarmTypeOK
<1>7. Alarms'
  <2>1. Elems(wait_list)' = Elems(wait_list) \cup {t}  BY <1>3, ZenonT(60) DEF Elems
  <2> QED BY <1>1, <1>4, <1>6, <2>1, Zenon DEF Alarms, Asleep
<1>8. Ordered(wait_list, due)'  BY <1>3, <1>4, Zenon DEF Ordered
<1>9. NeverEarly'  BY <1>4, Zenon DEF NeverEarly
<1> QED BY <1>5, <1>7, <1>8, <1>9, Zenon

\* sema_down blocks, or takes the one unit and ends the sleep.
LEMMA SleepDownKeeps ==
  ASSUME AlarmInv, NEW t \in Thread, SleepDown(t)
  PROVE  AlarmInv'
<1> USE DEF AlarmInv
<1>1. UNCHANGED <<due, wait_list>> /\ Asleep(t)  BY Zenon DEF SleepDown, Asleep
<1>2. Elems(wait_list)' = Elems(wait_list) /\ Ordered(wait_list, due)'
  BY <1>1, Zenon DEF Elems, Ordered
<1>3. CASE timer_sema[t] = 0 /\ UNCHANGED timer_sema /\ sleep' = [sleep EXCEPT ![t] = "down"]
  <2>1. AlarmTypeOK'  BY <1>1, <1>3, Zenon DEF AlarmTypeOK
  <2>2. Alarms'  BY <1>1, <1>2, <1>3, Zenon DEF Alarms, Asleep, AlarmTypeOK
  <2>3. NeverEarly'  BY <1>1, <1>3, Zenon DEF NeverEarly
  <2> QED BY <1>2, <2>1, <2>2, <2>3, Zenon
<1>4. CASE /\ timer_sema[t] > 0
           /\ timer_sema' = [timer_sema EXCEPT ![t] = @ - 1]
           /\ sleep' = [sleep EXCEPT ![t] = "awake"]
  <2>1. timer_sema[t] = 1 /\ t \notin Elems(wait_list)
    BY <1>4, SMTT(60) DEF Alarms
  <2>2. AlarmTypeOK'  BY <1>1, <1>4, <2>1, SMTT(60) DEF AlarmTypeOK
  <2>3. timer_sema'[t] = 0 /\ \A s \in Thread \ {t} : timer_sema'[s] = timer_sema[s]
    BY <1>4, <2>1, SMTT(60) DEF AlarmTypeOK
  <2>4. Alarms'  BY <1>1, <1>2, <1>4, <2>1, <2>3, Zenon DEF Alarms, Asleep, AlarmTypeOK
  <2>5. NeverEarly'  BY <1>1, <2>3, SMTT(60) DEF NeverEarly
  <2> QED BY <1>2, <2>2, <2>4, <2>5
<1> QED BY <1>3, <1>4, Zenon DEF SleepDown

\* The timer interrupt ups the expired threads, leaves no thread on wait_list whose
\* time has come, and keeps the invariant.
LEMMA TimerInterruptKeeps ==
  ASSUME AlarmInv, timer_interrupt
  PROVE  AlarmInv' /\ \A t \in Elems(wait_list') : due'[t] > 0
<1> USE DEF AlarmInv
<1> DEFINE k == Expired(wait_list, OneTick)
           front == SubSeq(wait_list, 1, k)
<1>1. /\ due' = OneTick /\ sleep' = sleep
      /\ wait_list' = SubSeq(wait_list, k + 1, Len(wait_list))
      /\ timer_sema' = [t \in Thread |-> IF t \in Elems(front)
                                         THEN timer_sema[t] + 1 ELSE timer_sema[t]]
  BY Zenon DEF timer_interrupt
<1>2. /\ OneTick \in [Thread -> Due] /\ OneTick \in [Thread -> Int]
      /\ \A t \in Thread : OneTick[t] <= due[t]
      /\ Ordered(wait_list, OneTick)
  BY Tick, Zenon DEF AlarmTypeOK
<1>3. /\ wait_list' \in Seq(Thread) /\ Ordered(wait_list', OneTick)
      /\ \A t \in Elems(wait_list') : t \in Elems(wait_list) /\ OneTick[t] > 0
      /\ \A t \in Elems(front) : t \in Elems(wait_list) /\ OneTick[t] <= 0
      /\ Elems(wait_list) = Elems(front) \cup Elems(wait_list')
  BY <1>1, <1>2, Split, Zenon DEF AlarmTypeOK
<1> HIDE DEF front
<1>4. Elems(wait_list)' = Elems(wait_list')  BY Zenon DEF Elems
<1>5. \A t \in Thread :
        timer_sema'[t] = IF t \in Elems(front) THEN timer_sema[t] + 1 ELSE timer_sema[t]
  BY <1>1, Zenon
<1>6. AlarmTypeOK'
  <2>1. \A t \in Thread : timer_sema'[t] \in Nat  BY <1>5, SMTT(60) DEF AlarmTypeOK
  <2>2. timer_sema' \in [Thread -> Nat]  BY <1>1, <2>1, Zenon
  <2> QED BY <1>1, <1>2, <1>3, <2>2, Zenon DEF AlarmTypeOK
<1>7. Ordered(wait_list, due)'  BY <1>1, <1>3, ZenonT(60) DEF Ordered
<1>8. Elems(front) \cap Elems(wait_list') = {}
  <2> SUFFICES ASSUME NEW t \in Elems(front), t \in Elems(wait_list') PROVE FALSE
    BY Zenon
  <2>1. OneTick[t] > 0 /\ OneTick[t] <= 0  BY <1>3, Zenon
  <2>2. t \in Thread  BY <1>3, SMTT(60) DEF Elems, AlarmTypeOK
  <2> QED BY <1>2, <2>1, <2>2, SMTT(60)
<1>9. Alarms'
  <2> SUFFICES ASSUME NEW t \in Thread
               PROVE  /\ t \in Elems(wait_list') => Asleep(t)
                      /\ timer_sema'[t] = IF Asleep(t) /\ t \notin Elems(wait_list')
                                          THEN 1 ELSE 0
    BY <1>1, <1>4, Zenon DEF Alarms, Asleep
  <2>1. CASE t \in Elems(front)
    <3>1. t \in Elems(wait_list) /\ t \notin Elems(wait_list')
      BY <1>3, <1>8, <2>1, Zenon
    <3>2. Asleep(t) /\ timer_sema[t] = 0
      BY <3>1, Zenon DEF Alarms
    <3>3. timer_sema'[t] = 0 + 1  BY <1>5, <2>1, <3>2, Zenon
    <3>4. timer_sema'[t] = 1  BY ONLY <3>3
    <3> QED BY <3>1, <3>2, <3>4, Zenon
  <2>2. CASE t \notin Elems(front)
    BY <1>3, <1>5, <2>2 DEF Alarms
  <2> QED BY <2>1, <2>2, Zenon
<1>10. NeverEarly'
  <2> SUFFICES ASSUME NEW t \in Thread, timer_sema'[t] > 0 PROVE OneTick[t] <= 0
    BY <1>1, Zenon DEF NeverEarly
  <2>1. CASE t \in Elems(front)  BY <1>3, <2>1, Zenon
  <2>2. CASE t \notin Elems(front)
    <3>1. due[t] <= 0 /\ OneTick[t] <= due[t]  BY <1>2, <1>5, <2>2, ZenonT(60) DEF NeverEarly
    <3>2. due[t] \in Int /\ OneTick[t] \in Int
      BY <1>2, AlarmAssumption, SMTT(60) DEF AlarmTypeOK, Due
    <3> QED BY <3>1, <3>2, SMTT(60)
  <2> QED BY <2>1, <2>2, Zenon
<1> QED BY <1>1, <1>3, <1>6, <1>7, <1>9, <1>10, ZenonT(60)

\* Every step keeps the invariant.
LEMMA AlarmStep == AlarmInv /\ [AlarmNext]_alarmvars => AlarmInv'
<1> SUFFICES ASSUME AlarmInv, [AlarmNext]_alarmvars PROVE AlarmInv'  OBVIOUS
<1>1. ASSUME NEW t \in Thread, NEW n \in -1 .. MaxSleep, TimerSleep(t, n) PROVE AlarmInv'
  BY <1>1, TimerSleepKeeps, Zenon
<1>2. ASSUME NEW t \in Thread, SleepInsert(t) PROVE AlarmInv'
  BY <1>2, SleepInsertKeeps, Zenon
<1>3. ASSUME NEW t \in Thread, SleepDown(t) PROVE AlarmInv'
  BY <1>3, SleepDownKeeps, Zenon
<1>4. CASE timer_interrupt  BY <1>4, TimerInterruptKeeps, Zenon
<1>5. CASE UNCHANGED alarmvars
  BY <1>5, SMTT(60) DEF alarmvars, AlarmInv, AlarmTypeOK, Ordered, Alarms, Asleep, Elems, NeverEarly
<1> QED BY <1>1, <1>2, <1>3, <1>4, <1>5, Zenon DEF AlarmNext

-----------------------------------------------------------------------------
(***************************************************************************)
(* The alarm clock: theorems                                               *)
(***************************************************************************)

\* A thread is on the list once, or has one unit on its semaphore, or neither: the
\* counting form of what the invariant says with sets.
LEMMA CountAlarms == AlarmInv => OneAlarm
<1> SUFFICES ASSUME AlarmInv, NEW t \in Thread
             PROVE  timer_sema[t] + Cardinality({i \in 1 .. Len(wait_list) : wait_list[i] = t})
                      = IF sleep[t] \in {"inserted", "down"} THEN 1 ELSE 0
  BY Zenon DEF AlarmInv, OneAlarm
<1> DEFINE At == {i \in 1 .. Len(wait_list) : wait_list[i] = t}
<1>1. CASE t \in Elems(wait_list)
  <2>1. PICK i \in 1 .. Len(wait_list) : wait_list[i] = t  BY <1>1, Zenon DEF Elems
  <2>2. At = {i}  BY <2>1, Zenon DEF AlarmInv, Ordered
  <2>3. Cardinality(At) = 1  BY <2>2, FS_Singleton, ZenonT(60)
  <2>4. timer_sema[t] = 0 /\ sleep[t] \in {"inserted", "down"}
    BY <1>1, Zenon DEF AlarmInv, Alarms, Asleep
  <2> QED BY <2>3, <2>4, SMTT(60)
<1>2. CASE t \notin Elems(wait_list)
  <2>1. At = {}  BY <1>2, Zenon DEF Elems
  <2>2. Cardinality(At) = 0  BY <2>1, FS_EmptySet, ZenonT(60)
  <2>3. timer_sema[t] = IF sleep[t] \in {"inserted", "down"} THEN 1 ELSE 0
    BY <1>2, Zenon DEF AlarmInv, Alarms, Asleep
  <2> QED BY <2>2, <2>3, SMTT(60)
<1> QED BY <1>1, <1>2

\* timer_sleep never returns early, for any number of threads and any sleep times.
THEOREM SleepNeverEarly == AlarmSpec => []NeverEarly
<1>1. AlarmInv => NeverEarly  BY Zenon DEF AlarmInv
<1> QED BY <1>1, InitAlarm, AlarmStep, PTL DEF AlarmSpec

\* Every sleep has exactly one alarm, also when the interrupt comes between the
\* insertion in wait_list and sema_down, and none is left over after it.
THEOREM SleepHasOneAlarm == AlarmSpec => []OneAlarm
BY CountAlarms, InitAlarm, AlarmStep, PTL DEF AlarmSpec

\* Looking at the front of wait_list only, timer_interrupt wakes every thread whose
\* time has come.
THEOREM InterruptWakesAll == AlarmSpec => NoneOverdue
<1>1. AlarmInv /\ [AlarmNext]_alarmvars => [timer_interrupt => \A t \in Elems(wait_list') : due'[t] > 0]_alarmvars
  BY TimerInterruptKeeps
<1> QED BY <1>1, InitAlarm, AlarmStep, PTL DEF AlarmSpec, NoneOverdue
=============================================================================
