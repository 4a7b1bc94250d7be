------------------------------ MODULE Process ------------------------------
(***************************************************************************)
(* The life of processes (userprog/process.c, and the exec, wait, exit and *)
(* open system calls of userprog/syscall.c): a parent starts a child and   *)
(* waits until it is loaded, may wait for it to die, and parent and child  *)
(* may die in any order.  The two share a reference-counted wait_status.   *)
(*                                                                         *)
(* Semaphores and locks are atomic objects here.  A process is named by    *)
(* its thread, and its wait_status by the child; tids are never reused.    *)
(***************************************************************************)
EXTENDS Integers, Sequences, FiniteSets

CONSTANTS
  Proc,     \* threads that may become processes
  Main,     \* the kernel thread that starts the first process
  Code,     \* statuses passed to exit
  NULL

WaitStatus == [ref_cnt : 0 .. 2, exit_code : Int, dead : 0 .. 1, lock : Proc \cup {NULL}]

ASSUME ProcessAssumption ==
  /\ Main \in Proc /\ Code \subseteq Int
  /\ NULL \notin Proc /\ NULL \notin WaitStatus /\ NULL \notin {"user", "exit_children"}

VARIABLES
  proc,      \* each thread: its process fields, program point and locals
  ws,        \* the wait_status of each child, NULL when not allocated
  exec,      \* the exec_info on the stack of each thread
  fs_lock    \* holder of the file system lock, or NULL

vars == <<proc, ws, exec, fs_lock>>

\* The points of process_execute, start_process, process_wait, release_child and
\* process_exit where another thread may come in.
Label == {"none", "load", "notify", "up", "user", "exec", "exec_wait", "exec_unlock",
          "wait", "rel_lock", "rel_dec", "rel_free",
          "exit", "exit_store", "exit_up", "exit_children", "dead"}

Fields ==
  [pc : Label, parent : Proc \cup {NULL}, children : Seq(Proc), has_status : BOOLEAN,
   exit_code : Int, files : BOOLEAN, target : Proc \cup {NULL}, new_ref_cnt : Int,
   code : Int, ret : {"user", "exit_children", NULL}]

TypeOK ==
  /\ proc \in [Proc -> Fields]
  /\ ws \in [Proc -> WaitStatus \cup {NULL}]
  /\ exec \in [Proc -> [load_done : 0 .. 1, success : BOOLEAN]]
  /\ fs_lock \in Proc \cup {NULL}

\* init_thread sets exit_code to -1.
Init ==
  /\ proc = [p \in Proc |->
               [pc |-> IF p = Main THEN "user" ELSE "none", parent |-> NULL,
                children |-> <<>>, has_status |-> FALSE, exit_code |-> -1,
                files |-> FALSE, target |-> NULL, new_ref_cnt |-> 0, code |-> 0,
                ret |-> NULL]]
  /\ ws = [p \in Proc |-> NULL]
  /\ exec = [p \in Proc |-> [load_done |-> 0, success |-> FALSE]]
  /\ fs_lock = NULL

At(p, l) == proc[p].pc = l

Goto(p, l) == proc' = [proc EXCEPT ![p].pc = l]

-----------------------------------------------------------------------------
(***************************************************************************)
(* exec                                                                    *)
(***************************************************************************)

\* sys_exec serializes loading with the file system lock; run_task, in main,
\* calls process_execute without it, and waits for each process before the next.
SysExec(p) ==
  /\ At(p, "user") /\ p # Main
  /\ fs_lock = NULL
  /\ fs_lock' = p
  /\ Goto(p, "exec")
  /\ UNCHANGED <<ws, exec>>

ProcessExecute(p, c) ==
  /\ \/ At(p, "exec")
     \/ At(p, "user") /\ p = Main /\ proc[p].children = <<>>
  /\ At(c, "none")
  /\ proc' = [proc EXCEPT ![p].pc = "exec_wait", ![p].target = c,
                          ![c].pc = "load", ![c].parent = p]
  /\ exec' = [exec EXCEPT ![p].load_done = 0]
  /\ UNCHANGED <<ws, fs_lock>>

\* thread_create finds no page.  Nothing changes for main.
ExecuteFails(p) ==
  /\ At(p, "exec")
  /\ Goto(p, "exec_unlock")
  /\ UNCHANGED <<ws, exec, fs_lock>>

\* Mutants: the child's own reference is not counted; one too many is.
StartProcess_refs(c, n) ==
  /\ At(c, "load")
  /\ proc' = [proc EXCEPT ![c].pc = "notify", ![c].has_status = TRUE]
  /\ ws' = [ws EXCEPT ![c] = [ref_cnt |-> n, exit_code |-> 0, dead |-> 0, lock |-> NULL]]
  /\ UNCHANGED <<exec, fs_lock>>

StartProcess_one_ref(c) == StartProcess_refs(c, 1)

\* start_process in the child: the load, and the allocation of the wait_status
\* after it, may fail.  malloc leaves exit_code unset; 0 stands for what is there.
StartProcess(c) ==
  /\ At(c, "load")
  /\ \/ /\ proc' = [proc EXCEPT ![c].pc = "notify", ![c].has_status = TRUE]
        /\ ws' = [ws EXCEPT ![c] = [ref_cnt |-> 2, exit_code |-> 0, dead |-> 0,
                                    lock |-> NULL]]
     \/ Goto(c, "notify") /\ UNCHANGED ws
  /\ UNCHANGED <<exec, fs_lock>>

Notify(c) ==
  /\ At(c, "notify")
  /\ exec' = [exec EXCEPT ![proc[c].parent].success = proc[c].has_status]
  /\ Goto(c, "up")
  /\ UNCHANGED <<ws, fs_lock>>

\* Mutant: the parent is told of a successful load only.
LoadDone_on_success(c) ==
  /\ At(c, "up")
  /\ exec' = [exec EXCEPT ![proc[c].parent].load_done = IF proc[c].has_status THEN @ + 1 ELSE @]
  /\ Goto(c, IF proc[c].has_status THEN "user" ELSE "exit")
  /\ UNCHANGED <<ws, fs_lock>>

LoadDone(c) ==
  /\ At(c, "up")
  /\ exec' = [exec EXCEPT ![proc[c].parent].load_done = @ + 1]
  /\ Goto(c, IF proc[c].has_status THEN "user" ELSE "exit")
  /\ UNCHANGED <<ws, fs_lock>>

\* Mutants of process_execute's return: it does not wait for the load; it forgets
\* the child's wait_status.
ExecReturn_at_once(p) ==
  /\ At(p, "exec_wait")
  /\ proc' = [proc EXCEPT ![p].pc = IF p = Main THEN "user" ELSE "exec_unlock",
                          ![p].target = NULL]
  /\ UNCHANGED <<exec, ws, fs_lock>>

ExecReturn_forgets(p) ==
  /\ At(p, "exec_wait")
  /\ exec[p].load_done > 0
  /\ exec' = [exec EXCEPT ![p].load_done = @ - 1]
  /\ proc' = [proc EXCEPT ![p].pc = IF p = Main THEN "user" ELSE "exec_unlock",
                          ![p].target = NULL]
  /\ UNCHANGED <<ws, fs_lock>>

ExecReturn(p) ==
  /\ At(p, "exec_wait")
  /\ exec[p].load_done > 0
  /\ exec' = [exec EXCEPT ![p].load_done = @ - 1]
  /\ proc' = [proc EXCEPT ![p].pc = IF p = Main THEN "user" ELSE "exec_unlock",
                          ![p].children = IF exec[p].success
                                          THEN Append(@, proc[p].target) ELSE @,
                          ![p].target = NULL]
  /\ UNCHANGED <<ws, fs_lock>>

ExecUnlock(p) ==
  /\ At(p, "exec_unlock")
  /\ fs_lock' = NULL
  /\ Goto(p, "user")
  /\ UNCHANGED <<ws, exec>>

\* A system call that opens a file, inside the file system lock.
SysOpen(p) ==
  /\ At(p, "user") /\ p # Main
  /\ fs_lock = NULL
  /\ proc' = [proc EXCEPT ![p].files = TRUE]
  /\ UNCHANGED <<ws, exec, fs_lock>>

-----------------------------------------------------------------------------
(***************************************************************************)
(* wait                                                                    *)
(***************************************************************************)

Elems(list) == {list[i] : i \in 1 .. Len(list)}

list_remove(list, i) == SubSeq(list, 1, i - 1) \o SubSeq(list, i + 1, Len(list))

\* The first child with the tid is taken off the list.  For any other tid
\* process_wait returns -1 and changes nothing.
ProcessWait(p, c) ==
  /\ At(p, "user")
  /\ \E i \in 1 .. Len(proc[p].children) :
       /\ proc[p].children[i] = c
       /\ \A j \in 1 .. i - 1 : proc[p].children[j] # c
       /\ proc' = [proc EXCEPT ![p].pc = "wait", ![p].target = c,
                               ![p].children = list_remove(@, i)]
  /\ UNCHANGED <<ws, exec, fs_lock>>

\* Mutant: the exit code read before the child is dead.
WaitDown_no_wait(p) ==
  /\ At(p, "wait")
  /\ proc' = [proc EXCEPT ![p].pc = "rel_lock", ![p].ret = "user",
                          ![p].code = ws[proc[p].target].exit_code]
  /\ UNCHANGED <<ws, exec, fs_lock>>

WaitDown(p) ==
  LET c == proc[p].target
  IN  /\ At(p, "wait")
      /\ ws[c].dead > 0
      /\ ws' = [ws EXCEPT ![c].dead = @ - 1]
      /\ proc' = [proc EXCEPT ![p].pc = "rel_lock", ![p].ret = "user",
                              ![p].code = ws[c].exit_code]
      /\ UNCHANGED <<exec, fs_lock>>

(***************************************************************************)
(* release_child                                                           *)
(***************************************************************************)

ReleaseLock(p) ==
  LET c == proc[p].target
  IN  /\ At(p, "rel_lock")
      /\ ws[c].lock = NULL
      /\ ws' = [ws EXCEPT ![c].lock = p]
      /\ Goto(p, "rel_dec")
      /\ UNCHANGED <<exec, fs_lock>>

ReleaseDec(p) ==
  LET c == proc[p].target
  IN  /\ At(p, "rel_dec")
      /\ proc' = [proc EXCEPT ![p].pc = "rel_free", ![p].new_ref_cnt = ws[c].ref_cnt - 1]
      /\ ws' = [ws EXCEPT ![c].ref_cnt = @ - 1, ![c].lock = NULL]
      /\ UNCHANGED <<exec, fs_lock>>

\* Mutant: the count is read again after the lock is released.
ReleaseFree_rereads(p) ==
  LET c == proc[p].target
  IN  /\ At(p, "rel_free")
      /\ ws' = IF ws[c] # NULL /\ ws[c].ref_cnt = 0 THEN [ws EXCEPT ![c] = NULL] ELSE ws
      /\ proc' = [proc EXCEPT ![p].pc = proc[p].ret, ![p].target = NULL, ![p].ret = NULL,
                              ![p].new_ref_cnt = 0, ![p].code = 0]
      /\ UNCHANGED <<exec, fs_lock>>

ReleaseFree(p) ==
  /\ At(p, "rel_free")
  /\ ws' = IF proc[p].new_ref_cnt = 0 THEN [ws EXCEPT ![proc[p].target] = NULL] ELSE ws
  /\ proc' = [proc EXCEPT ![p].pc = proc[p].ret, ![p].target = NULL, ![p].ret = NULL,
                          ![p].new_ref_cnt = 0, ![p].code = 0]
  /\ UNCHANGED <<exec, fs_lock>>

-----------------------------------------------------------------------------
(***************************************************************************)
(* exit                                                                    *)
(***************************************************************************)

SysExit(p, n) ==
  /\ At(p, "user") /\ p # Main
  /\ proc' = [proc EXCEPT ![p].pc = "exit", ![p].exit_code = n]
  /\ UNCHANGED <<ws, exec, fs_lock>>

\* A fault or a bad argument, or main after its last task: thread_exit with
\* exit_code still -1.
Killed(p) ==
  /\ At(p, "user")
  /\ p = Main => proc[p].children = <<>>
  /\ Goto(p, "exit")
  /\ UNCHANGED <<ws, exec, fs_lock>>

\* syscall_exit closes the open files inside the file system lock.
SyscallExit(p) ==
  /\ At(p, "exit")
  /\ proc[p].files => fs_lock = NULL
  /\ proc' = [proc EXCEPT ![p].pc = IF proc[p].has_status THEN "exit_store"
                                                         ELSE "exit_children",
                          ![p].files = FALSE]
  /\ UNCHANGED <<ws, exec, fs_lock>>

ExitStore(p) ==
  /\ At(p, "exit_store")
  /\ ws' = [ws EXCEPT ![p].exit_code = proc[p].exit_code]
  /\ Goto(p, "exit_up")
  /\ UNCHANGED <<exec, fs_lock>>

\* Mutant: the parent is not told.
ExitUp_silent(p) ==
  /\ At(p, "exit_up")
  /\ proc' = [proc EXCEPT ![p].pc = "rel_lock", ![p].target = p,
                          ![p].ret = "exit_children"]
  /\ UNCHANGED <<ws, exec, fs_lock>>

ExitUp(p) ==
  /\ At(p, "exit_up")
  /\ ws' = [ws EXCEPT ![p].dead = @ + 1]
  /\ proc' = [proc EXCEPT ![p].pc = "rel_lock", ![p].target = p,
                          ![p].ret = "exit_children"]
  /\ UNCHANGED <<exec, fs_lock>>

\* The children are released one by one; then the pages, the executable and the
\* page directory are given up and the thread dies.
ExitChildren(p) ==
  /\ At(p, "exit_children")
  /\ proc' = IF proc[p].children = <<>>
             THEN [proc EXCEPT ![p].pc = "dead"]
             ELSE [proc EXCEPT ![p].pc = "rel_lock", ![p].target = Head(proc[p].children),
                               ![p].children = Tail(@), ![p].ret = "exit_children"]
  /\ UNCHANGED <<ws, exec, fs_lock>>

\* Every thread has died and no page is left to start another: the idle thread
\* runs for ever.
Terminated ==
  /\ \A p \in Proc : proc[p].pc \in {"none", "dead"}
  /\ UNCHANGED vars

Step(p) ==
  \/ ExecReturn(p) \/ ExecUnlock(p) \/ ExecuteFails(p)
  \/ StartProcess(p) \/ Notify(p) \/ LoadDone(p)
  \/ WaitDown(p) \/ ReleaseLock(p) \/ ReleaseDec(p) \/ ReleaseFree(p)
  \/ SyscallExit(p) \/ ExitStore(p) \/ ExitUp(p) \/ ExitChildren(p)

Next ==
  \/ \E p \in Proc : \/ Step(p) \/ SysExec(p) \/ SysOpen(p) \/ Killed(p)
                     \/ \E c \in Proc : ProcessExecute(p, c) \/ ProcessWait(p, c)
                     \/ \E n \in Code : SysExit(p, n)
  \/ Terminated

(***************************************************************************)
(* Round robin runs every thread that is ready inside the kernel.  Nothing *)
(* is assumed of user programs: they need not exit, nor wait.              *)
(***************************************************************************)
Spec == Init /\ [][Next]_vars

FairSpec == Spec /\ \A p \in Proc : WF_vars(Step(p))
-----------------------------------------------------------------------------

\* p still has a reference to c's wait_status: the child until it decrements the
\* count in process_exit, the parent from the moment exec creates the child.
Holds(p, c) ==
  \/ p = c /\ proc[c].has_status /\ proc[c].pc \in {"notify", "up", "user", "exec",
        "exec_wait", "exec_unlock", "wait", "exit", "exit_store", "exit_up"}
  \/ p = c /\ proc[c].has_status /\ proc[c].ret = "user"
  \/ p # c /\ proc[p].pc = "exec_wait" /\ proc[p].target = c /\ proc[c].has_status
  \/ c \in Elems(proc[p].children)
  \/ proc[p].pc \in {"wait", "rel_lock", "rel_dec"} /\ proc[p].target = c

\* The count of a wait_status is the number of threads that still refer to it,
\* whatever order parent and child decrement it in.  All variables keep their types.
RefCount ==
  TypeOK /\ \A c \in Proc : ws[c] # NULL => ws[c].ref_cnt = Cardinality({p \in Proc : Holds(p, c)})

\* No thread uses a wait_status that has been freed, and none is freed twice.
NoUseAfterFree ==
  \A c \in Proc :
    /\ (\E p \in Proc : Holds(p, c)) => ws[c] # NULL
    /\ Cardinality({p \in Proc : /\ proc[p].pc = "rel_free" /\ proc[p].target = c
                                 /\ proc[p].new_ref_cnt = 0}) <= (IF ws[c] = NULL THEN 0 ELSE 1)

\* A wait_status nobody refers to is about to be freed by the last thread that
\* did: none is leaked, however parent and child die.
NoLeak ==
  \A c \in Proc :
    ws[c] # NULL /\ ~(\E p \in Proc : Holds(p, c)) =>
      \E p \in Proc : proc[p].pc = "rel_free" /\ proc[p].target = c /\ proc[p].new_ref_cnt = 0

\* process_wait returns the status the child exited with, and only once the
\* child has exited.
WaitGetsExitCode ==
  \A p \in Proc :
    proc[p].ret = "user" =>
      LET c == proc[p].target
      IN  /\ proc[p].code = proc[c].exit_code
          /\ \/ proc[c].pc \in {"exit_children", "dead"}
             \/ proc[c].ret = "exit_children"

\* The exec_info the child writes is on its parent's stack: the parent is still
\* in process_execute for that child.
ExecInfoAlive ==
  \A c \in Proc :
    proc[c].pc \in {"load", "notify", "up"} =>
      LET p == proc[c].parent IN proc[p].pc = "exec_wait" /\ proc[p].target = c

\* exec returns to its caller, whether the load succeeds or fails.
ExecReturns == \A p \in Proc : proc[p].pc = "exec_wait" ~> proc[p].pc \in {"user", "exec_unlock"}

\* A process that waits for a child comes back once the child gets to notify it,
\* however the two interleave.
WaitReturns ==
  \A p, c \in Proc :
    /\ proc[p].pc = "wait" /\ proc[p].target = c
    /\ proc[c].pc \in {"exit_store", "exit_up"}
    ~> proc[p].pc = "user"
=============================================================================
