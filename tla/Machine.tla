------------------------------ MODULE Machine ------------------------------
(***************************************************************************)
(* From the boot loader to the running kernel: kmain and kernel_start      *)
(* (kernel/kernel.c), the descriptor tables, exceptions and interrupts of  *)
(* sys/, the timer, memory detection, and how the handlers of the drivers  *)
(* are entered and left.                                                   *)
(*                                                                         *)
(* The interrupt controllers and the serial chip are modelled from how     *)
(* irq.c and serial.c program them: fully nested mode with the ends of     *)
(* interrupt sent by irq_handler; requests taken at a rising edge; a       *)
(* receive queue that asks at Trigger bytes or after a silence.  What      *)
(* handlers do with characters is in modules Keyboard, Serial, Console.    *)
(***************************************************************************)
EXTENDS Integers, Sequences, SequencesExt, FiniteSetsExt

CONSTANTS
  Maps,        \* memory maps of the boot loader: sequences of [addr, len, ram],
               \* the last of which lies behind the map
  WordLimit,   \* 2^32
  Waits,       \* arguments of timer_wait
  Trigger, FifoSize,            \* 14, 16
  MaxOpen,     \* bound: handlers that flush a buffer inside each other
  MaxRequests, MaxBytesIn  \* bounds: interrupts not of the serial chip, bytes

ASSUME MachineAssumption ==
  /\ WordLimit \in Nat \ {0} /\ Waits \subseteq 0 .. WordLimit - 1
  /\ Trigger \in 1 .. FifoSize /\ FifoSize \in Nat
  /\ \A m \in Maps : m \in Seq([addr : Nat, len : Nat, ram : BOOLEAN]) /\ Len(m) > 1
  /\ MaxOpen \in Nat /\ MaxRequests \in Nat /\ MaxBytesIn \in Nat

VARIABLES
  pc,          \* the mainline: a step of kmain, "run", "wait" or an end
  idt,         \* vector -> stub, or None
  irq_routines,
  base,        \* vector of line 0, per controller
  streams,     \* streams that exist: "vgaout", "stdout"
  enabled,     \* the interrupt flag of the mainline
  frames,      \* handlers that run, innermost last: [line, at, open]
  irr, isr,    \* lines requested, and in service: [master, slave]
  timer_ticks, wait,  \* the timer, and the call of timer_wait: [from, for, seen]
  fifo,        \* the serial chip: [n, silent]
  faked,       \* history: an interrupt without a request came
  used         \* history: [requests, bytes] so far

machVars == <<pc, idt, irq_routines, base, streams, enabled, frames, irr, isr,
              timer_ticks, wait, fifo, faked, used>>
tables   == <<idt, irq_routines, base, streams, enabled>>
chips    == <<irr, isr, fifo, faked>>
clock    == <<timer_ticks, wait>>

None == -1
TIMER == 0  KEYBOARD == 1  CASCADE == 2  SERIAL == 4  MOUSE == 12
Lines == {TIMER, KEYBOARD, SERIAL, MOUSE}
Fakes == {7, 15}    \* what a controller sends when a request has gone away
Ends  == {"wild", "halted", "hung", "exited"}

-----------------------------------------------------------------------------
(* kmain.  Each step is a call.  What memory_init finds is used by malloc      *)
(* (module Heap) and by nothing here.                                      *)

Boot_Early ==
  <<"magic", "gdt", "idt", "isrs", "sti", "irq", "memory", "vga", "timer", "phase",
    "keyboard", "serial", "stdio", "run">>
Boot ==
  <<"magic", "gdt", "idt", "isrs", "irq", "memory", "vga", "timer", "phase",
    "keyboard", "serial", "sti", "stdio", "run">>
After(step) == Boot[SelectInSeq(Boot, LAMBDA s : s = step) + 1]

\* FATAL and fault_handler print on vgaout; before vga_init that is a call
\* through a null pointer.
Fatal(end) == IF "vgaout" \in streams THEN end ELSE "wild"

idt_set_gate(t, gates) == [v \in DOMAIN t |-> IF v \in gates THEN v ELSE t[v]]
isrs_install(t) == idt_set_gate(t, 0 .. 31)
irq_install(t)  == idt_set_gate(t, 32 .. 47)

\* The cursor into the map moves on before it is looked at.  Addresses are cut
\* to a pointer; the kind of memory is not asked for.
Visited(m) == 2 .. Len(m)
memory_init(m) ==
  LET size == Max({0} \cup {m[i].len : i \in Visited(m)})
  IN  IF size = 0 THEN [ptr |-> 0, size |-> 0]
      ELSE [ptr |-> m[Min({i \in Visited(m) : m[i].len = size})].addr % WordLimit,
            size |-> size]

kmain(magic_ok) ==
  /\ frames = <<>> /\ pc \in ToSet(Front(Boot))
  /\ pc' = IF pc = "magic" /\ ~magic_ok
           THEN Fatal("hung") ELSE After(pc)
  /\ idt' = CASE pc = "idt" -> [v \in DOMAIN idt |-> None]
              [] pc = "isrs" -> isrs_install(idt)
              [] pc = "irq" -> irq_install(idt)
              [] OTHER -> idt
  /\ base' = IF pc = "irq" THEN [master |-> 32, slave |-> 40] ELSE base
  /\ irq_routines' = CASE pc = "timer" -> [irq_routines EXCEPT ![TIMER] = "timer"]
                       [] pc = "keyboard" -> [irq_routines EXCEPT ![KEYBOARD] = "keyboard"]
                       [] pc = "serial" -> [irq_routines EXCEPT ![SERIAL] = "serial"]
                       [] OTHER -> irq_routines
  /\ streams' = CASE pc = "vga" -> streams \cup {"vgaout"}
                  [] pc = "stdio" -> streams \cup {"stdout"}
                  [] OTHER -> streams
  /\ enabled' = (enabled \/ pc = "sti")
  /\ fifo' = IF pc = "serial" THEN [n |-> 0, silent |-> FALSE] ELSE fifo
  /\ UNCHANGED <<frames, irr, isr, clock, used, faked>>

\* kernel_start ends in exit, which loops, or returns to the loader, which
\* disables interrupts and halts.
kernel_start ==
  /\ frames = <<>> /\ pc = "run"
  /\ \/ pc' = "exited" /\ UNCHANGED enabled
     \/ pc' = "hung" /\ enabled' = FALSE
  /\ UNCHANGED <<idt, irq_routines, base, streams, frames, chips, clock, used>>

\* An exception, of the mainline or a handler, or a non-maskable interrupt.
fault_handler(v) ==
  /\ pc \notin Ends \ {"exited"} /\ used.bytes = 0   \* bound: before any byte
  /\ pc' = IF idt[v] = v THEN Fatal("halted") ELSE "wild"
  /\ UNCHANGED <<tables, frames, chips, clock, used>>

-----------------------------------------------------------------------------
(* Interrupts.                                                             *)

Live == pc \notin {"wild", "halted"}
IF_ == IF frames = <<>> THEN enabled ELSE Last(frames).open
\* Fully nested mode: the lines of the second controller rank as line 2.
Rank(line) == IF line >= 8 THEN CASCADE ELSE line
MayInterrupt(line) ==
  /\ \A l \in isr.master : Rank(line) < l
  /\ line >= 8 => \A l \in isr.slave : line < l

Extra == used.requests < MaxRequests /\ used' = [used EXCEPT !.requests = @ + 1]
Request(line) ==
  /\ Live /\ line \notin irr /\ line # SERIAL
  /\ irr' = irr \cup {line}
  /\ Extra
  /\ UNCHANGED <<pc, tables, frames, isr, clock, fifo, faked>>

Vector(line) == IF line < 8 THEN base.master + line ELSE base.slave + line - 8
\* The gate clears the interrupt flag.  A vector below 32 is an exception.
Enter(line) ==
  IF Vector(line) < 32
  THEN pc' = "wild" /\ UNCHANGED frames
  ELSE /\ frames' = Append(frames, [line |-> line, at |-> "handler", open |-> FALSE])
       /\ UNCHANGED pc

Deliver(line) ==
  /\ Live /\ IF_ /\ line \in irr /\ MayInterrupt(line)
  /\ \A l \in irr : MayInterrupt(l) => Rank(line) <= Rank(l)
  /\ irr' = irr \ {line}
  /\ isr' = [master |-> isr.master \cup {Rank(line)},
             slave  |-> isr.slave \cup ({line} \cap 8 .. 15)]
  /\ Enter(line)
  /\ UNCHANGED <<tables, clock, fifo, used, faked>>

\* The controller that sends it does not mark it as in service; for one of the
\* second, the first has marked line 2.
DeliverFake(line) ==
  /\ Live /\ IF_ /\ Extra
  /\ \A l \in isr.master : l > IF line = 15 THEN CASCADE ELSE TIMER
  /\ faked' = TRUE
  /\ isr' = IF line = 15 THEN [isr EXCEPT !.master = @ \cup {CASCADE}] ELSE isr
  /\ Enter(line)
  /\ UNCHANGED <<tables, clock, fifo, irr>>

\* An edge on the line of the serial chip.
Level(f) == f.n >= Trigger \/ f.silent
Rising(old, new) == IF Level(new) /\ ~Level(old) THEN irr \cup {SERIAL} ELSE irr

Handler(line) == IF line \in DOMAIN irq_routines THEN irq_routines[line] ELSE "none"
TopAt(at) == Live /\ frames # <<>> /\ Last(frames).at = at
SetTop(f) == frames' = Append(Front(frames), f)

\* keyboard_flush and serial_flush, when a buffer is full, enable interrupts.
RunHandler ==
  /\ TopAt("handler")
  /\ LET top == Last(frames)  h == Handler(top.line) IN
     /\ \E open \in {FALSE} \cup
                    (IF h \in {"keyboard", "serial"} /\ Len(frames) <= MaxOpen THEN {TRUE} ELSE {}) :
          SetTop([top EXCEPT !.at = "eoi", !.open = open])
     /\ timer_ticks' = IF h = "timer" THEN (timer_ticks + 1) % WordLimit ELSE timer_ticks
     /\ wait' = IF h = "timer" THEN [wait EXCEPT !.seen = Min({@ + 1, wait.for})] ELSE wait
     /\ fifo' = IF h = "serial" /\ fifo.n > 0 THEN [n |-> fifo.n - 1, silent |-> FALSE] ELSE fifo
     /\ irr' = Rising(fifo, fifo')
  /\ UNCHANGED <<pc, tables, isr, used, faked>>

\* The end of the interrupt.  A controller takes the line that ranks highest of
\* those in service out of service, whichever handler tells it.
TopOut(lines) == IF lines = {} THEN {} ELSE lines \ {Min(lines)}
EndOf_OneOnly(line) ==
  IF line >= 8 THEN [isr EXCEPT !.slave = TopOut(@)] ELSE [isr EXCEPT !.master = TopOut(@)]
EndOf(line) ==
  [master |-> TopOut(isr.master),
   slave  |-> IF line >= 8 THEN TopOut(isr.slave) ELSE isr.slave]
irq_handler ==
  /\ TopAt("eoi")
  /\ isr' = EndOf(Last(frames).line)
  /\ SetTop([Last(frames) EXCEPT !.at = "iret"])
  /\ UNCHANGED <<pc, tables, irr, clock, fifo, used, faked>>

Iret ==
  /\ TopAt("iret")
  /\ frames' = Front(frames)
  /\ UNCHANGED <<pc, tables, chips, clock, used>>

-----------------------------------------------------------------------------
(* The serial chip.                                                        *)

Arrive ==
  /\ Live /\ used.bytes < MaxBytesIn /\ used' = [used EXCEPT !.bytes = @ + 1]
  /\ fifo' = IF fifo.n < FifoSize THEN [fifo EXCEPT !.n = @ + 1] ELSE fifo
  /\ irr' = Rising(fifo, fifo')
  /\ UNCHANGED <<pc, tables, frames, isr, clock, faked>>

Silence ==
  /\ Live /\ fifo.n > 0 /\ ~fifo.silent
  /\ fifo' = [fifo EXCEPT !.silent = TRUE]
  /\ irr' = Rising(fifo, fifo')
  /\ UNCHANGED <<pc, tables, frames, isr, clock, used, faked>>

-----------------------------------------------------------------------------
(* timer_wait.                                                             *)

NoWait == [from |-> 0, for |-> 0, seen |-> 0]
timer_wait(ticks) ==
  /\ frames = <<>> /\ pc = "run" /\ pc' = "wait"
  /\ wait' = [from |-> timer_ticks, for |-> ticks, seen |-> 0]
  /\ UNCHANGED <<tables, frames, chips, timer_ticks, used>>
eticks == (wait.from + wait.for) % WordLimit
TimerTest ==
  /\ frames = <<>> /\ pc = "wait" /\ timer_ticks >= eticks
  /\ pc' = "waited"
  /\ UNCHANGED <<tables, frames, chips, clock, used>>
\* The mainline goes on.
Waited ==
  /\ frames = <<>> /\ pc = "waited" /\ pc' = "run"
  /\ wait' = NoWait
  /\ UNCHANGED <<tables, frames, chips, timer_ticks, used>>

-----------------------------------------------------------------------------
MachInit ==
  /\ pc = "magic"
  /\ idt = [v \in 0 .. 47 |-> None]
  /\ irq_routines = [l \in 0 .. 15 |-> "none"]
  /\ base = [master |-> 8, slave |-> 112]
  /\ streams = {} /\ enabled = FALSE /\ frames = <<>> /\ irr = {}
  /\ isr = [master |-> {}, slave |-> {}]
  /\ timer_ticks = 0 /\ wait = NoWait
  /\ fifo = [n |-> 0, silent |-> FALSE]
  /\ faked = FALSE /\ used = [requests |-> 0, bytes |-> 0]

HandlerStep == RunHandler \/ irq_handler \/ Iret
MachNext ==
  \/ \E ok \in BOOLEAN : kmain(ok)
  \/ kernel_start
  \/ \E v \in {0, 2} : fault_handler(v)
  \/ \E l \in Lines : Request(l) \/ Deliver(l)
  \/ \E l \in Fakes : DeliverFake(l)
  \/ HandlerStep \/ Arrive \/ Silence
  \/ \E n \in Waits : timer_wait(n)
  \/ TimerTest \/ Waited

\* Handlers go on, a request is delivered if it may be, the chip notices a
\* silence.
MachSpec ==
  /\ MachInit /\ [][MachNext]_machVars
  /\ WF_machVars(HandlerStep) /\ WF_machVars(Silence)
  /\ \A l \in Lines : WF_machVars(Deliver(l))

-----------------------------------------------------------------------------
(* What the machine promises.                                              *)

\* Whenever interrupts are enabled, by the mainline or by a handler, each
\* vector has its gate, the lines are mapped away from the exceptions, and all
\* that a handler uses is installed.  Only before vga_init does an exception,
\* or a loader that is not a multiboot loader, end in a wild call.
HandlersReady ==
  /\ IF_ => /\ \A v \in DOMAIN idt : idt[v] = v
           /\ base = [master |-> 32, slave |-> 40]
           /\ "vgaout" \in streams
           /\ \A l \in Lines \ {MOUSE} : irq_routines[l] # "none"
  /\ pc = "wild" => "vgaout" \notin streams

\* Handlers nest by rank although keyboard_flush and serial_flush enable
\* interrupts inside a handler: the lines in service are those of the handlers
\* that have not sent their end, no line interrupts itself before its end, and
\* when no handler runs no line is in service, so none is blocked for good.
\* An interrupt without a request voids all but the last: the end it sends is
\* another handler's.
Unended == {i \in DOMAIN frames : frames[i].at # "iret"}
HandlersNest ==
  /\ ~faked =>
       /\ isr.master = {Rank(frames[i].line) : i \in Unended}
       /\ \A i, j \in Unended : i < j => Rank(frames[i].line) > Rank(frames[j].line)
  /\ \A i \in 1 .. Len(frames) - 1 : frames[i].open
  /\ frames = <<>> => isr = [master |-> {}, slave |-> {}]

\* timer_wait waits for at least so many ticks, unless the count wraps around
\* while it waits: then it returns at once.
WaitsLongEnough ==
  pc = "waited" => wait.seen >= wait.for \/ wait.from + wait.for >= WordLimit

\* The memory that malloc gets is the largest piece of RAM, if no other entry is
\* as large, the first entry is not it, nothing behind the map looks larger
\* and it lies below the limit of a pointer.
IsLargest(m, i) == \A j \in DOMAIN m \ {i} : m[i].len > m[j].len
MemoryIsRam ==
  \A m \in Maps : \A i \in 2 .. Len(m) - 1 :
    m[i].ram /\ m[i].addr < WordLimit /\ IsLargest(m, i)
      => memory_init(m) = [ptr |-> m[i].addr, size |-> m[i].len]

MachineSafe == HandlersReady /\ HandlersNest /\ WaitsLongEnough /\ MemoryIsRam

\* A line that stays up asks no more.
Jammed == Level(fifo) /\ SERIAL \notin irr
            /\ \A i \in DOMAIN frames : ~(frames[i].line = SERIAL /\ frames[i].at = "handler")
InOrder ==
  pc \in {"run", "wait", "waited", "exited"}

\* No byte, key, tick or handler makes it fall or ask again.
StaysJammed == [][Jammed => Jammed']_machVars

\* The bytes that the serial chip holds are read out one interrupt each, unless
\* its queue has grown beyond the trigger before the handler reads its byte:
\* the line then stays up, there is no further edge, and nothing is ever read
\* again.
AlwaysGoesOn ==
  /\ (InOrder /\ fifo.n > 0) ~> (fifo.n = 0 \/ Jammed \/ ~InOrder)
  /\ StaysJammed
=============================================================================
