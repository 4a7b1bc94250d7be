-------------------------------- MODULE Disk --------------------------------
(***************************************************************************)
(* Reading and writing sectors: the block layer (devices/block.c), the     *)
(* partitions (devices/partition.c) and one channel of the IDE driver      *)
(* (devices/ide.c) with the two disks on it.                               *)
(*                                                                         *)
(* A thread holds the channel's lock from the selection of the sector to   *)
(* the end of the transfer.  The disk answers on its own time and raises   *)
(* an interrupt, whose handler ups completion_wait.  The handler also runs *)
(* for interrupts that no disk raised, a disk may fail a command, and one  *)
(* may take longer than the driver is prepared to wait.                    *)
(***************************************************************************)
EXTENDS Integers, FiniteSets

CONSTANTS
  Client,       \* threads that use the disks
  Device,       \* the ATA disks of the channel
  DiskSize,     \* sectors of each disk
  Datum,        \* contents of a sector
  Partition,    \* blocks registered by partition_scan: [dev, start, size, type]
  Faults,       \* bounds: stray interrupts, commands that fail, waits that time out
  MaxRequests,  \* bound on the number of requests
  NONE

ASSUME DiskAssumption ==
  /\ DiskSize \in Nat \ {0} /\ Device # {} /\ NONE \notin Client
  /\ Partition \subseteq [dev : Device, start : Nat, size : Nat,
                          type : {"KERNEL", "FILESYS", "SCRATCH", "SWAP", "FOREIGN"}]
  /\ Faults \subseteq [stray : Nat, fail : Nat, slow : Nat, wrong : {{}}]

VARIABLES
  lock,                 \* holder of the channel's lock
  expecting_interrupt,
  completion_wait,      \* value of the semaphore
  ata,                  \* the channel's registers, the selected disk, its interrupt line
  media,                \* what is on the disks
  req,                  \* each client's request
  step,                 \* where each client is in ide_read or ide_write
  requests,             \* the number of requests made
  panicked,
  faults,               \* what may still go wrong, and (wrong) what has
  returned,             \* history: what the last write of a sector to return wrote
  expected              \* history: what a client's read has to find

dvars == <<lock, expecting_interrupt, completion_wait, ata, media, req, step, requests,
           panicked, faults, returned, expected>>
swvars == <<req, requests, returned, expected>>

NoFaults == [stray |-> 0, fail |-> 0, slow |-> 0, wrong |-> {}]

Block == Device \X (0 .. DiskSize - 1)

-----------------------------------------------------------------------------
(* Block layer and partitions *)

\* check_sector panics on a sector past the end of the block device.
check_sector(size, sector) == sector < size

\* partition_read and partition_write: the sector of the disk below.
Below(p, sector) == <<p.dev, p.start + sector>>

\* What block_read or block_write of partition p asks for before the driver is called: a
\* sector of the partition, for a write a partition that belongs to Pintos, and, in
\* block_read or block_write of the disk below, a sector of the disk.
Allowed(p, sector, op) ==
  /\ check_sector(p.size, sector)
  /\ op = "write" => p.type # "FOREIGN"
  /\ check_sector(DiskSize, p.start + sector)

\* block_read or block_write, through partition_read or partition_write to the driver.
Request(t, p, sector, op, datum) ==
  /\ ~panicked /\ step[t] = "idle" /\ requests < MaxRequests
  /\ Allowed(p, sector, op)
  /\ req' = [req EXCEPT ![t] = [op |-> op, at |-> Below(p, sector), datum |-> datum]]
  /\ step' = [step EXCEPT ![t] = "lock"]
  /\ requests' = requests + 1
  /\ UNCHANGED <<lock, expecting_interrupt, completion_wait, ata, media, panicked, faults,
                 returned, expected>>

\* Anything else panics the kernel.
RequestPanics(t, p, sector, op) ==
  /\ ~panicked /\ step[t] = "idle" /\ requests < MaxRequests
  /\ ~Allowed(p, sector, op)
  /\ panicked' = TRUE
  /\ UNCHANGED <<lock, expecting_interrupt, completion_wait, ata, media, step, faults, swvars>>

-----------------------------------------------------------------------------
(* The driver *)

Go(t, from, to) == ~panicked /\ step[t] = from /\ step' = [step EXCEPT ![t] = to]

\* Mutant: the channel is not locked.
LockChannel_open(t) ==
  /\ Go(t, "lock", "select")
  /\ lock' = t
  /\ expected' = [expected EXCEPT ![t] = returned[req[t].at]]
  /\ UNCHANGED <<expecting_interrupt, completion_wait, ata, media, panicked, faults, req,
                 requests, returned>>

LockChannel(t) ==
  /\ Go(t, "lock", "select")
  /\ lock = NONE
  /\ lock' = t
  /\ expected' = [expected EXCEPT ![t] = returned[req[t].at]]
  /\ UNCHANGED <<expecting_interrupt, completion_wait, ata, media, panicked, faults, req,
                 requests, returned>>

\* wait_until_idle ends when neither BSY nor DRQ is set.  Reading the status register
\* also withdraws an interrupt that has not been delivered.
wait_until_idle == ata.status = "idle"

\* select_sector.
SelectSector(t) ==
  /\ Go(t, "select", "issue")
  /\ wait_until_idle
  /\ ata' = [ata EXCEPT !.intrq = FALSE, !.at = req[t].at]
  /\ UNCHANGED <<lock, expecting_interrupt, completion_wait, media, panicked, faults, swvars>>

\* wait_until_idle prints "idle timeout" after 1000 polls, and select_sector goes on.  What
\* a busy disk makes of that is not specified: here its command goes on with the new sector.
SelectTimesOut(t) ==
  /\ Go(t, "select", "issue")
  /\ ~wait_until_idle /\ faults.slow > 0
  /\ ata' = [ata EXCEPT !.intrq = FALSE, !.at = req[t].at]
  /\ faults' = [faults EXCEPT !.slow = @ - 1, !.wrong = @ \cup {"late"}]
  /\ UNCHANGED <<lock, expecting_interrupt, completion_wait, media, panicked, swvars>>

\* issue_pio_command.  A read waits for the interrupt, a write for the disk to ask for data.
IssuePioCommand(t) ==
  /\ Go(t, "issue", IF req[t].op = "read" THEN "completion" ELSE "ready")
  /\ expecting_interrupt' = TRUE
  /\ ata' = [ata EXCEPT !.status = "busy", !.command = req[t].op]
  /\ UNCHANGED <<lock, completion_wait, media, panicked, faults, swvars>>

\* sema_down (&c->completion_wait).
AwaitCompletion(t) ==
  /\ Go(t, "completion", IF req[t].op = "read" THEN "ready" ELSE "unlock")
  /\ completion_wait > 0
  /\ completion_wait' = completion_wait - 1
  /\ UNCHANGED <<lock, expecting_interrupt, ata, media, panicked, faults, swvars>>

\* Mutant: the completion is taken to mean that the disk is ready.
wait_while_busy_not == TRUE

\* wait_while_busy ends when BSY is clear.
wait_while_busy == ata.status # "busy"

\* wait_while_busy, then input_sector or output_sector if DRQ is set.
Transfer(t) ==
  /\ Go(t, "ready", IF req[t].op = "read" THEN "unlock" ELSE "completion")
  /\ wait_while_busy /\ ata.status # "idle"
  /\ IF req[t].op = "read"
       THEN /\ ata' = [ata EXCEPT !.status = "idle", !.data = NONE]
            /\ req' = [req EXCEPT ![t].datum = ata.data]
       ELSE /\ ata' = [ata EXCEPT !.status = "busy", !.command = "store", !.data = req[t].datum]
            /\ UNCHANGED req
  /\ UNCHANGED <<lock, expecting_interrupt, completion_wait, media, panicked, faults, requests,
                 returned, expected>>

\* wait_while_busy returns false: the disk failed the command, or was still busy after 3000
\* polls.  "disk read failed", "disk write failed".
TransferFails(t) ==
  /\ ~panicked /\ step[t] = "ready"
  /\ \/ wait_while_busy /\ ata.status = "idle" /\ UNCHANGED faults
     \/ /\ ~wait_while_busy /\ faults.slow > 0
        /\ faults' = [faults EXCEPT !.slow = @ - 1]
  /\ panicked' = TRUE
  /\ UNCHANGED <<lock, expecting_interrupt, completion_wait, ata, media, step, swvars>>

\* lock_release, and the return from ide_read or ide_write.
UnlockChannel(t) ==
  /\ Go(t, "unlock", "done")
  /\ lock' = NONE
  /\ returned' = IF req[t].op = "write" THEN [returned EXCEPT ![req[t].at] = req[t].datum]
                 ELSE returned
  /\ UNCHANGED <<expecting_interrupt, completion_wait, ata, media, panicked, faults, req,
                 requests, expected>>

\* The caller has used the result.
Return(t) ==
  /\ Go(t, "done", "idle")
  /\ req' = [req EXCEPT ![t] = NONE]
  /\ expected' = [expected EXCEPT ![t] = NONE]
  /\ UNCHANGED <<lock, expecting_interrupt, completion_wait, ata, media, panicked, faults,
                 requests, returned>>

\* Mutant: the waiter is not woken.
interrupt_handler_no_up ==
  IF expecting_interrupt
    THEN ata' = [ata EXCEPT !.intrq = FALSE] /\ UNCHANGED completion_wait
    ELSE UNCHANGED <<ata, completion_wait>>

\* interrupt_handler: an expected interrupt is acknowledged and ups the semaphore.
\* Nothing resets expecting_interrupt.
interrupt_handler ==
  IF expecting_interrupt
    THEN ata' = [ata EXCEPT !.intrq = FALSE] /\ completion_wait' = completion_wait + 1
    ELSE UNCHANGED <<ata, completion_wait>>

Interrupt ==
  /\ ~panicked /\ ata.intrq
  /\ interrupt_handler
  /\ UNCHANGED <<lock, expecting_interrupt, media, step, panicked, faults, swvars>>

\* The handler runs although no disk has finished anything.
StrayInterrupt ==
  /\ ~panicked /\ faults.stray > 0
  /\ interrupt_handler
  /\ faults' = [faults EXCEPT !.stray = @ - 1, !.wrong = @ \cup {"stray"}]
  /\ UNCHANGED <<lock, expecting_interrupt, media, step, panicked, swvars>>

-----------------------------------------------------------------------------
(* The disks *)

\* A read has its sector in the disk's buffer, and interrupts.  A write asks for the data
\* without an interrupt.
DiskReady ==
  /\ ata.status = "busy" /\ ata.command \in {"read", "write"}
  /\ ata' = IF ata.command = "read"
              THEN [ata EXCEPT !.status = "drq", !.data = media[ata.at], !.intrq = TRUE]
              ELSE [ata EXCEPT !.status = "drq"]
  /\ UNCHANGED <<lock, expecting_interrupt, completion_wait, media, step, panicked, faults,
                 swvars>>

\* The disk has stored the data of a write, and interrupts.
DiskStored ==
  /\ ata.status = "busy" /\ ata.command = "store"
  /\ media' = [media EXCEPT ![ata.at] = ata.data]
  /\ ata' = [ata EXCEPT !.status = "idle", !.data = NONE, !.intrq = TRUE]
  /\ UNCHANGED <<lock, expecting_interrupt, completion_wait, step, panicked, faults, swvars>>

\* The disk gives up a command, or fails to store the data of a write.
DiskFails ==
  /\ ata.status = "busy" /\ faults.fail > 0
  /\ ata' = [ata EXCEPT !.status = "idle", !.intrq = TRUE]
  /\ faults' = [faults EXCEPT !.fail = @ - 1,
                              !.wrong = IF ata.command = "store" THEN @ \cup {"lost"} ELSE @]
  /\ UNCHANGED <<lock, expecting_interrupt, completion_wait, media, step, panicked, swvars>>

-----------------------------------------------------------------------------
\* ide_init has identified the disks, so that commands have been issued, and partition_scan
\* has registered the partitions; off says that the kernel has panicked since.
DiskInit(off) ==
  /\ lock = NONE
  /\ expecting_interrupt = TRUE
  /\ completion_wait = 0
  /\ media = [b \in Block |-> NONE]
  /\ ata = [status |-> "idle", command |-> "none", at |-> CHOOSE b \in Block : TRUE,
            data |-> NONE, intrq |-> FALSE]
  /\ req = [t \in Client |-> NONE]
  /\ step = [t \in Client |-> "idle"]
  /\ requests = 0
  /\ panicked = off
  /\ faults \in IF off THEN {NoFaults} ELSE Faults
  /\ returned = media
  /\ expected = [t \in Client |-> NONE]

DiskNext ==
  \/ \E t \in Client, p \in Partition, sector \in 0 .. DiskSize - 1 :
       \/ Request(t, p, sector, "read", NONE)
       \/ \E datum \in Datum : Request(t, p, sector, "write", datum)
       \/ \E op \in {"read", "write"} : RequestPanics(t, p, sector, op)
  \/ \E t \in Client :
       \/ LockChannel(t) \/ SelectSector(t) \/ SelectTimesOut(t) \/ IssuePioCommand(t)
       \/ AwaitCompletion(t) \/ Transfer(t) \/ TransferFails(t) \/ UnlockChannel(t) \/ Return(t)
  \/ Interrupt \/ StrayInterrupt \/ DiskReady \/ DiskStored \/ DiskFails

DiskSpec == DiskInit(FALSE) /\ [][DiskNext]_dvars

\* Threads run, interrupts are delivered, and a disk answers or fails each command.
DiskFairness ==
  /\ \A t \in Client :
       WF_dvars(\/ LockChannel(t) \/ SelectSector(t) \/ IssuePioCommand(t)
                \/ AwaitCompletion(t) \/ Transfer(t) \/ TransferFails(t) \/ UnlockChannel(t))
  /\ WF_dvars(Interrupt) /\ WF_dvars(DiskReady) /\ WF_dvars(DiskStored)

-----------------------------------------------------------------------------
\* A read returns what the last write of the sector to return has written, whatever the
\* other threads do on either disk, and also when a stray interrupt has let a wait on
\* completion_wait return before its disk was done: the next command waits for the disk
\* (ide.c).  Nothing is said once wait_until_idle has timed out, or the disk has failed to
\* store a sector, of which ide_write does not take notice.
ReadsLastWrite ==
  faults.wrong \subseteq {"stray"} =>
    \A t \in Client : step[t] = "done" /\ req[t].op = "read" => req[t].datum = expected[t]

\* As long as nothing of this kind happens and no stray interrupt comes, a write returns
\* after the disk has stored the data, and no completion is left over for a later command
\* (ide.c: "Returns after the disk has acknowledged receiving the data").
WriteIsStored ==
  faults.wrong = {} =>
    /\ \A t \in Client : step[t] = "unlock" /\ req[t].op = "write"
                           => media[req[t].at] = req[t].datum
    /\ lock = NONE /\ ~panicked => completion_wait = 0 /\ ata.status = "idle"

\* Every request ends, or the kernel has panicked: no completion is lost.
RequestsEnd ==
  \A t \in Client : step[t] = "lock" ~> step[t] = "done" \/ panicked
=============================================================================
