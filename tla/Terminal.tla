------------------------------ MODULE Terminal ------------------------------
(***************************************************************************)
(* The console: threads that print (lib/kernel/console.c), the queue of    *)
(* bytes the serial port transmits (devices/serial.c), the queue of keys   *)
(* that the keyboard and the serial port fill (devices/kbd.c, input.c),    *)
(* both interrupt queues (devices/intq.c), and the interrupts that drain   *)
(* and fill them (threads/interrupt.c).                                    *)
(*                                                                         *)
(* There is one CPU.  Code that runs with interrupts off, up to the point  *)
(* where it blocks or turns them on again, is one step.  Interrupts come   *)
(* between the steps.  The lock of txq is never contended, because a       *)
(* thread waits for room in txq only while it holds the console lock, and  *)
(* is left out.  Keys are queued and never read: input_getc is called only *)
(* by sys_read for handle 0, which lookup_fd has refused before.           *)
(***************************************************************************)
EXTENDS Vga, Keyboard, FiniteSets

CONSTANTS
  Writer,       \* threads that print
  Main,         \* the thread that starts and stops the kernel, one of Writer
  Text,         \* the characters each writer prints
  Line,         \* a byte that arrives on the serial line
  INTQ_BUFSIZE, \* 64 in the code
  KeyEvent,     \* keyboard events: the bytes the keyboard sends for one
  Budgets,      \* bounds on how often each outside event happens
  NULL

ASSUME TerminalAssumption ==
  Main \in Writer /\ INTQ_BUFSIZE \in Nat \ {0, 1}

VARIABLES
  serial,       \* the driver's mode and txq, the port's registers, the bytes sent
  buffer,       \* the queue of keys
  kbd,          \* the modifier keys
  intr_handlers, unexpected_cnt,
  console_lock,
  vga,
  pc, printed,  \* where each thread is; the characters it has printed
  halted,       \* why the machine no longer runs
  budget,
  queued,       \* history: the bytes given to serial_putc
  typed         \* history: the keys accepted

inputvars == <<buffer, typed>>
tvars == <<serial, buffer, kbd, intr_handlers, unexpected_cnt, console_lock,
           vga, pc, printed, halted, budget, queued, typed>>

\* The interrupt vectors of the keyboard and of the serial port; one that the hardware may
\* raise for no reason, and one without a handler.
KeyboardVec == 33
SerialVec == 36
SpuriousVec == 39
OtherVec == 37

\* The characters of the messages about an unexpected interrupt and about a panic.
Unexpected == 33
Panic == 80

-----------------------------------------------------------------------------
(* Interrupt queues (devices/intq.c) *)

intq_init ==
  [buf |-> [i \in 0 .. INTQ_BUFSIZE - 1 |-> 0], head |-> 0, tail |-> 0,
   not_full |-> NULL, not_empty |-> NULL]

next(p) == (p + 1) % INTQ_BUFSIZE

intq_empty(q) == q.head = q.tail

intq_full(q) == next(q.head) = q.tail

\* intq_getc and intq_putc when they need not wait: the queue afterwards.  Both reset the
\* waiter that they signal.
intq_getc(q) == [q EXCEPT !.tail = next(q.tail), !.not_full = NULL]

intq_putc(q, byte) ==
  [q EXCEPT !.buf[q.head] = byte, !.head = next(q.head), !.not_empty = NULL]

\* wait: the thread is recorded as the waiter, and blocks.
wait(q, waiter, t) == [q EXCEPT ![waiter] = t]

\* Mutant: nobody is woken.
signal_nobody(p, waiter) == p

\* signal: thread_unblock of the waiter, if there is one.
signal(p, waiter) == [t \in DOMAIN p |-> IF t = waiter THEN "woken" ELSE p[t]]

\* The byte that intq_getc returns, and all the bytes of a queue.
Oldest(q) == q.buf[q.tail]

Contents(q) ==
  [i \in 1 .. (q.head - q.tail + INTQ_BUFSIZE) % INTQ_BUFSIZE |->
     q.buf[(q.tail + i - 1) % INTQ_BUFSIZE]]

-----------------------------------------------------------------------------
(* Serial port (devices/serial.c).  s is the value of serial, in that of buffer. *)

init_poll(s) == [s EXCEPT !.ier = {}, !.txq = intq_init, !.mode = "POLL"]

\* Mutant: the port is never asked to say that it can take a byte.
write_ier_recv_only(s, in) == [s EXCEPT !.ier = IF intq_full(in) THEN {} ELSE {"recv"}]

write_ier(s, in) ==
  [s EXCEPT !.ier = (IF intq_empty(s.txq) THEN {} ELSE {"xmit"})
                      \cup (IF intq_full(in) THEN {} ELSE {"recv"})]

\* Spins until the port has sent the byte it holds, and gives it the next.
putc_poll(s, byte) == [s EXCEPT !.wire = @ \o s.thr, !.thr = <<byte>>]

\* One byte of txq sent by polling.
PollOne(s) == [putc_poll(s, Oldest(s.txq)) EXCEPT !.txq = intq_getc(@)]

\* Mutant: with interrupts off and a full queue, the new byte overtakes the queue.
serial_putc_overtakes(s, in, byte) ==
  IF s.mode # "QUEUE"
    THEN putc_poll(IF s.mode = "UNINIT" THEN init_poll(s) ELSE s, byte)
    ELSE IF intq_full(s.txq) THEN putc_poll(s, byte)
         ELSE write_ier([s EXCEPT !.txq = intq_putc(@, byte)], in)

\* serial_putc when it need not wait: the queue is not in use yet, it has room, or
\* interrupts were off and a byte is polled out to make room.
serial_putc(s, in, byte) ==
  IF s.mode # "QUEUE"
    THEN putc_poll(IF s.mode = "UNINIT" THEN init_poll(s) ELSE s, byte)
    ELSE LET r == IF intq_full(s.txq) THEN PollOne(s) ELSE s
         IN  write_ier([r EXCEPT !.txq = intq_putc(@, byte)], in)

\* The loop of serial_flush sends all of txq by polling.
serial_flush(s) ==
  LET bytes == Contents(s.txq)
  IN  IF bytes = <<>> THEN s
      ELSE [s EXCEPT !.wire = @ \o s.thr \o Front(bytes), !.thr = <<Last(bytes)>>,
                     !.txq = [@ EXCEPT !.tail = s.txq.head, !.not_full = NULL]]

\* Mutant: a change of the input buffer is not passed on to the port.
serial_notify_never(s, in) == s

serial_notify(s, in) == IF s.mode = "QUEUE" THEN write_ier(s, in) ELSE s

-----------------------------------------------------------------------------
(* Threads.  Between two of its steps a thread runs with interrupts on. *)

Running(t) == halted = "no" /\ pc[t] # "blocked"

\* No thread prints while it prints, so the lock is never taken twice.
acquire_console(t) == console_lock = NULL /\ console_lock' = t

release_console(t, more) == console_lock' = IF more THEN t ELSE NULL

\* acquire_console, and the start of putbuf, puts or vprintf.  Before the queue is set up
\* the main thread is the only one.
PrintStart(t) ==
  /\ Running(t) /\ pc[t] = "idle"
  /\ serial.mode = "QUEUE" \/ t = Main
  /\ printed[t] = 0 /\ budget.prints > 0
  /\ acquire_console(t)
  /\ pc' = [pc EXCEPT ![t] = "serial"]
  /\ budget' = [budget EXCEPT !.prints = @ - 1]
  /\ UNCHANGED <<serial, kbd, intr_handlers, unexpected_cnt, vga, printed, halted, queued,
                 inputvars>>

\* putchar_have_lock: serial_putc queues the byte, or waits until there is room.
SerialPutc(t) ==
  /\ Running(t) /\ pc[t] \in {"serial", "woken"}
  /\ LET byte == Text[t][printed[t] + 1]
     IN  \/ /\ serial.mode = "QUEUE" /\ intq_full(serial.txq)
            /\ serial' = [serial EXCEPT !.txq = wait(@, "not_full", t)]
            /\ pc' = [pc EXCEPT ![t] = "blocked"]
            /\ UNCHANGED queued
         \/ /\ serial.mode # "QUEUE" \/ ~intq_full(serial.txq)
            /\ serial' = serial_putc(serial, buffer, byte)
            /\ pc' = [pc EXCEPT ![t] = "vga"]
            /\ queued' = Append(queued, byte)
  /\ UNCHANGED <<kbd, intr_handlers, unexpected_cnt, console_lock, vga,
                 printed, halted, budget, inputvars>>

\* putchar_have_lock: vga_putc, then the next character, or release_console.
VgaPutc(t) ==
  /\ Running(t) /\ pc[t] = "vga"
  /\ vga' = vga_putc(vga, Text[t][printed[t] + 1])
  /\ printed' = [printed EXCEPT ![t] = @ + 1]
  /\ LET more == printed[t] + 1 < Len(Text[t])
     IN  /\ pc' = [pc EXCEPT ![t] = IF more THEN "serial" ELSE "idle"]
         /\ release_console(t, more)
  /\ UNCHANGED <<serial, kbd, intr_handlers, unexpected_cnt, halted,
                 budget, queued, inputvars>>

\* register_handler: each vector has one handler at most.
register_handler(h, vec, handler) == [h EXCEPT ![vec] = handler]

\* serial_init_queue, which main calls once the scheduler runs.
SerialInitQueue ==
  /\ Running(Main) /\ pc[Main] = "idle" /\ serial.mode # "QUEUE"
  /\ intr_handlers[SerialVec] = NULL
  /\ intr_handlers' = register_handler(intr_handlers, SerialVec, "serial")
  /\ serial' = LET s == IF serial.mode = "UNINIT" THEN init_poll(serial) ELSE serial
               IN  write_ier([s EXCEPT !.mode = "QUEUE"], buffer)
  /\ UNCHANGED <<kbd, unexpected_cnt, console_lock, vga, pc, printed,
                 halted, budget, queued, inputvars>>

-----------------------------------------------------------------------------
(* Interrupts.  A handler runs to its end with interrupts off. *)

\* keyboard_interrupt.  Ctrl+Alt+Del reboots; a key that finds the buffer full is lost.
keyboard_interrupt(bytes) ==
  LET code == Scancode(bytes)
      release == Released(bytes)
      c == KeyChar(kbd, code)
      key == code # 58 /\ c # 0 /\ ~release
      reboot == key /\ c = 127 /\ ctrl(kbd) /\ alt(kbd)
      put == key /\ ~reboot /\ ~intq_full(buffer)
  IN  /\ kbd' = [mods |-> IF code = 58 \/ c # 0 THEN kbd.mods ELSE NextMods(kbd, code, release),
                 caps_lock |-> IF code = 58 /\ ~release THEN ~kbd.caps_lock ELSE kbd.caps_lock]
      /\ halted' = IF reboot THEN "reboot" ELSE halted
      /\ buffer' = IF put THEN intq_putc(buffer, Typed(kbd, c)) ELSE buffer
      /\ typed' = IF put THEN Append(typed, Typed(kbd, c)) ELSE typed
      /\ serial' = IF put THEN serial_notify(serial, buffer') ELSE serial
      /\ pc' = IF put THEN signal(pc, buffer.not_empty) ELSE pc
      /\ UNCHANGED <<unexpected_cnt, vga, queued>>

\* serial_interrupt: takes a byte that has arrived if there is room for it, gives the port
\* the next byte if it can take one.
serial_interrupt ==
  LET recv == ~intq_full(buffer) /\ serial.rbr # <<>>
      xmit == ~intq_empty(serial.txq) /\ serial.thr = <<>>
      s == [serial EXCEPT !.rbr = IF recv THEN <<>> ELSE @,
                          !.thr = IF xmit THEN <<Oldest(serial.txq)>> ELSE @,
                          !.txq = IF xmit THEN intq_getc(@) ELSE @]
  IN  /\ buffer' = IF recv THEN intq_putc(buffer, serial.rbr[1]) ELSE buffer
      /\ typed' = IF recv THEN typed \o serial.rbr ELSE typed
      /\ serial' = write_ier(s, buffer')
      /\ pc' = signal(signal(pc, IF recv THEN buffer.not_empty ELSE NULL),
                      IF xmit THEN serial.txq.not_full ELSE NULL)
      /\ UNCHANGED <<kbd, unexpected_cnt, vga, halted, queued>>

\* unexpected_interrupt prints when the number of the vector's interrupts is a power of 2.
unexpected_interrupt(vec) ==
  LET n == unexpected_cnt[vec] + 1
      tell == n \in {2^k : k \in 0 .. n}
  IN  /\ unexpected_cnt' = [unexpected_cnt EXCEPT ![vec] = n]
      /\ serial' = IF tell THEN serial_putc(serial, buffer, Unexpected) ELSE serial
      /\ pc' = IF tell /\ intq_full(serial.txq) THEN signal(pc, serial.txq.not_full) ELSE pc
      /\ vga' = IF tell THEN vga_putc(vga, Unexpected) ELSE vga
      /\ queued' = IF tell THEN Append(queued, Unexpected) ELSE queued
      /\ UNCHANGED <<kbd, halted, buffer, typed>>

\* What the hardware raises: the serial port for a byte it has or wants, the keyboard for
\* an event, and now and then an interrupt that no driver asked for.
Raised(vec) ==
  CASE vec = SerialVec -> \/ "recv" \in serial.ier /\ serial.rbr # <<>>
                          \/ "xmit" \in serial.ier /\ serial.thr = <<>>
    [] vec = KeyboardVec -> budget.keys > 0
    [] OTHER -> budget.stray > 0

\* intr_handler: the vector's handler, if it has one.
intr_handler(vec) ==
  /\ halted = "no" /\ Raised(vec)
  /\ \/ /\ intr_handlers[vec] = "keyboard"
        /\ \E bytes \in KeyEvent : keyboard_interrupt(bytes)
        /\ budget' = [budget EXCEPT !.keys = @ - 1]
     \/ /\ intr_handlers[vec] = "serial"
        /\ serial_interrupt
        /\ UNCHANGED budget
     \/ /\ intr_handlers[vec] = NULL
        /\ IF vec = SpuriousVec THEN UNCHANGED <<unexpected_cnt, serial, pc, vga, queued, kbd,
                                                 halted, buffer, typed>>
           ELSE unexpected_interrupt(vec)
        /\ budget' = [budget EXCEPT !.stray = @ - 1]
  /\ UNCHANGED <<intr_handlers, console_lock, printed>>

-----------------------------------------------------------------------------
(* The end of the machine, and the serial line. *)

\* Interrupts stay off, the console lock is no longer used, and what is queued goes out by
\* polling after the message.
debug_panic ==
  /\ serial' = serial_flush(serial_putc(serial, buffer, Panic))
  /\ vga' = vga_putc(vga, Panic)
  /\ queued' = Append(queued, Panic)
  /\ pc' = signal(pc, serial.txq.not_full)
  /\ halted' = "panic"
  /\ UNCHANGED <<kbd, intr_handlers, unexpected_cnt, console_lock, printed, budget, inputvars>>

\* Any thread that runs may panic.
DebugPanic(t) == Running(t) /\ budget.panic > 0 /\ debug_panic

\* shutdown_power_off: main flushes the queue, and then stops the machine.
ShutdownFlush ==
  /\ Running(Main) /\ pc[Main] = "idle" /\ serial.mode = "QUEUE" /\ printed[Main] > 0
  /\ serial' = serial_flush(serial)
  /\ pc' = [signal(pc, IF intq_empty(serial.txq) THEN NULL ELSE serial.txq.not_full)
              EXCEPT ![Main] = "off"]
  /\ UNCHANGED <<kbd, intr_handlers, unexpected_cnt, console_lock, vga, printed, halted,
                 budget, queued, inputvars>>

ShutdownOff ==
  /\ Running(Main) /\ pc[Main] = "off"
  /\ halted' = "off"
  /\ UNCHANGED <<serial, kbd, intr_handlers, unexpected_cnt, console_lock, vga, pc, printed,
                 budget, queued, inputvars>>

\* The port puts the byte it holds on the line, and a byte comes in from the line.
LineTransmit ==
  /\ halted = "no" /\ serial.thr # <<>>
  /\ serial' = [serial EXCEPT !.wire = @ \o serial.thr, !.thr = <<>>]
  /\ UNCHANGED <<kbd, intr_handlers, unexpected_cnt, console_lock, vga, pc, printed, halted,
                 budget, queued, inputvars>>

LineReceive ==
  /\ halted = "no" /\ serial.rbr = <<>> /\ budget.line > 0
  /\ serial' = [serial EXCEPT !.rbr = <<Line>>]
  /\ budget' = [budget EXCEPT !.line = @ - 1]
  /\ UNCHANGED <<kbd, intr_handlers, unexpected_cnt, console_lock, vga, pc, printed, halted,
                 queued, inputvars>>

-----------------------------------------------------------------------------
\* kbd_init and input_init have run, the serial port is untouched; off says that the
\* machine is switched off again.
TerminalInit(off) ==
  /\ serial = [mode |-> "UNINIT", txq |-> intq_init, ier |-> {}, thr |-> <<>>, rbr |-> <<>>,
               wire |-> <<>>]
  /\ buffer = intq_init
  /\ kbd = [mods |-> {}, caps_lock |-> FALSE]
  /\ intr_handlers = [vec \in {KeyboardVec, SerialVec, SpuriousVec, OtherVec} |->
                        IF vec = KeyboardVec THEN "keyboard" ELSE NULL]
  /\ unexpected_cnt = [vec \in {SpuriousVec, OtherVec} |-> 0]
  /\ console_lock = NULL
  /\ vga = init(cls.fb, 0)
  /\ pc = [t \in Writer |-> "idle"]
  /\ printed = [t \in Writer |-> 0]
  /\ halted = IF off THEN "off" ELSE "no"
  /\ budget \in IF off THEN {NULL} ELSE Budgets
  /\ queued = <<>> /\ typed = <<>>

TerminalNext ==
  \/ \E t \in Writer : PrintStart(t) \/ SerialPutc(t) \/ VgaPutc(t) \/ DebugPanic(t)
  \/ SerialInitQueue \/ ShutdownFlush \/ ShutdownOff
  \/ \E vec \in DOMAIN intr_handlers : intr_handler(vec)
  \/ LineTransmit \/ LineReceive

\* The scheduler runs every ready thread in time, and the port sends what it holds and
\* raises its interrupt.  Nothing outside is bound to happen: keys, bytes from the line,
\* stray interrupts, panics and the shutdown.
TerminalFairness ==
  /\ \A t \in Writer : WF_tvars(PrintStart(t) \/ SerialPutc(t) \/ VgaPutc(t))
  /\ WF_tvars(SerialInitQueue)
  /\ WF_tvars(intr_handler(SerialVec)) /\ WF_tvars(LineTransmit)

-----------------------------------------------------------------------------
Sent == serial.wire \o serial.thr

\* Bytes leave the serial port in the order in which they were given to serial_putc,
\* whether they are queued, polled out to make room, or flushed, and none is lost or sent
\* twice; after a panic all have been sent.  What one putbuf prints is not mixed with what
\* other threads print: only the message of an interrupt handler or of a panic may come in
\* between.  Keys are kept in the order in which the keyboard and the serial line delivered
\* them, none lost once accepted (serial.c, console.c, input.c, intq.c).
BytesInOrder ==
  /\ Sent \o Contents(serial.txq) = queued
  /\ halted = "panic" => Sent = queued
  /\ \A t \in Writer : \A i, k \in DOMAIN queued :
       {queued[i], queued[k]} \subseteq Range(Text[t])
         => \A j \in i .. k : queued[j] \in Range(Text[t]) \cup {Unexpected, Panic}
  /\ Contents(buffer) = typed

\* Once the queue is in use the port's interrupts are on whenever the driver needs one: a
\* transmit interrupt while bytes are queued, a receive interrupt exactly while the input
\* buffer has room.  write_ier has to run at every change of either queue.
InterruptsArmed ==
  serial.mode = "QUEUE" /\ halted = "no" =>
    /\ ~intq_empty(serial.txq) => "xmit" \in serial.ier
    /\ "recv" \in serial.ier <=> ~intq_full(buffer)

\* A thread sleeps in intq.c's wait only while the queue it wants to put a byte in is full,
\* and it is the thread that signal will wake.
NoLostWakeupInQueue ==
  /\ serial.txq.not_full # NULL => intq_full(serial.txq)
  /\ \A t \in Writer : pc[t] = "blocked" => t = serial.txq.not_full

\* A thread that has started to print finishes, unless the machine is halted: by a panic, by
\* Ctrl+Alt+Del, or at the end.
ConsoleProgress ==
  LET Printing(t) == pc[t] \in {"serial", "vga", "blocked", "woken"}
  IN  \A t \in Writer : Printing(t) ~> ~Printing(t) \/ halted # "no"
=============================================================================
