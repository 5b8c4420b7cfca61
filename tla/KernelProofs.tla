---------------------------- MODULE KernelProofs ----------------------------
(***************************************************************************)
(* What the kernel promises. Module Machine, for every memory map, word    *)
(* size, queue and number of interrupts: from the boot loader on, however  *)
(* deep handlers nest. Module Console, for every size of screen, text,     *)
(* color and number of keys that are echoed in between, and for every line *)
(* that is typed behind a prompt.                                          *)
(***************************************************************************)
EXTENDS Machine, Console, SequenceTheorems, FiniteSetTheorems, WellFoundedInduction, TLAPS

-----------------------------------------------------------------------------
(* The order of kmain.                                                     *)

Early == {"magic", "gdt", "idt", "isrs", "irq", "memory", "vga", "timer", "phase",
          "keyboard", "serial", "sti"}

LEMMA SmallestOf ==
  ASSUME NEW S \in SUBSET Int, NEW m \in S, \A x \in S : m <= x
  PROVE  Min(S) = m
<1>1. \E x \in S : \A y \in S : x <= y
  OBVIOUS
<1>2. Min(S) \in S /\ \A y \in S : Min(S) <= y
  BY <1>1 DEF Min
<1>3. Min(S) \in Int /\ m \in Int /\ Min(S) <= m /\ m <= Min(S)
  BY <1>2
<1> QED
  BY <1>3

LEMMA LargestOf ==
  ASSUME NEW S \in SUBSET Int, NEW m \in S, \A x \in S : x <= m
  PROVE  Max(S) = m
<1>1. \E x \in S : \A y \in S : x >= y
  OBVIOUS
<1>2. Max(S) \in S /\ \A y \in S : Max(S) >= y
  BY <1>1 DEF Max
<1>3. Max(S) \in Int /\ m \in Int /\ Max(S) <= m /\ m <= Max(S)
  BY <1>2
<1> QED
  BY <1>3

LEMMA SmallerOf ==
  ASSUME NEW a \in Int, NEW b \in Int
  PROVE  Min({a, b}) = IF a <= b THEN a ELSE b
<1>1. {a, b} \in SUBSET Int /\ a \in {a, b} /\ b \in {a, b}
  OBVIOUS
<1>2. CASE a <= b
  <2>1. \A x \in {a, b} : a <= x
    BY <1>2
  <2> QED
    BY <1>1, <1>2, <2>1, SmallestOf
<1>3. CASE ~(a <= b)
  <2>1. \A x \in {a, b} : b <= x
    BY <1>3
  <2> QED
    BY <1>1, <1>3, <2>1, SmallestOf
<1> QED
  BY <1>2, <1>3

LEMMA StepOf ==
  ASSUME NEW i \in 1 .. 13
  PROVE  After(Boot[i]) = Boot[i + 1]
<1> DEFINE I == {j \in 1 .. Len(Boot) : Boot[j] = Boot[i]}
<1>1. Len(Boot) = 14
  BY DEF Boot
<1>2. \A j \in 1 .. 14 : Boot[j] = Boot[i] => j = i
  BY DEF Boot
<1>3. I = {i}
  BY <1>1, <1>2
<1>4. Min(I) = i
  <2>1. {i} \in SUBSET Int /\ i \in {i} /\ \A x \in {i} : i <= x
    OBVIOUS
  <2>2. Min({i}) = i
    BY <2>1, SmallestOf
  <2> QED
    BY <1>3, <2>2
<1> QED
  BY <1>3, <1>4 DEF After, SelectInSeq

LEMMA BootOrder ==
  /\ ToSet(Front(Boot)) = Early \cup {"stdio"}
  /\ After("magic") = "gdt" /\ After("gdt") = "idt" /\ After("idt") = "isrs"
  /\ After("isrs") = "irq" /\ After("irq") = "memory" /\ After("memory") = "vga"
  /\ After("vga") = "timer" /\ After("timer") = "phase" /\ After("phase") = "keyboard"
  /\ After("keyboard") = "serial" /\ After("serial") = "sti" /\ After("sti") = "stdio"
  /\ After("stdio") = "run"
<1>1. \A i \in 1 .. 13 : After(Boot[i]) = Boot[i + 1]
  BY StepOf
<1>2. Boot \in Seq(Early \cup {"stdio", "run"}) /\ Len(Boot) = 14
  BY DEF Boot, Early
<1>3. DOMAIN Front(Boot) = 1 .. 13 /\ \A i \in 1 .. 13 : Front(Boot)[i] = Boot[i]
  BY <1>2, SubSeqProperties DEF Front
<1>4. ToSet(Front(Boot)) = {Boot[i] : i \in 1 .. 13}
  BY <1>3 DEF ToSet
<1>5. {Boot[i] : i \in 1 .. 13} = Early \cup {"stdio"}
  BY DEF Boot, Early
<1> QED
  BY <1>1, <1>4, <1>5 DEF Boot

-----------------------------------------------------------------------------
(* Types.                                                                  *)

Frame == [line : Lines \cup Fakes, at : {"handler", "eoi", "iret"}, open : BOOLEAN]

Word  == 0 .. WordLimit - 1
Queue == 0 .. FifoSize

MachTypes ==
  /\ pc \in Early \cup {"stdio", "run", "wait", "waited"} \cup Ends
  /\ idt \in [0 .. 47 -> Int]
  /\ irq_routines \in [0 .. 15 -> {"none", "timer", "keyboard", "serial"}]
  /\ base \in [master : Nat, slave : Nat]
  /\ streams \subseteq {"vgaout", "stdout"}
  /\ enabled \in BOOLEAN
  /\ frames \in Seq(Frame)
  /\ irr \subseteq Lines
  /\ isr \in [master : SUBSET (0 .. 7), slave : SUBSET {MOUSE}]
  /\ timer_ticks \in Word
  /\ wait \in [from : Word, for : Word, seen : Nat]
  /\ wait.seen <= wait.for
  /\ fifo \in [n : Queue, silent : BOOLEAN]
  /\ faked \in BOOLEAN
  /\ used \in [requests : Nat, bytes : Nat]

LEMMA MachineSizes ==
  /\ WordLimit \in Nat \ {0} /\ Waits \subseteq Word
  /\ Word \subseteq Nat /\ 0 \in Word /\ \A n \in Nat : n % WordLimit \in Word
  /\ Trigger \in Nat /\ Trigger >= 1 /\ FifoSize \in Nat /\ Trigger <= FifoSize
  /\ Queue \subseteq Nat /\ 0 \in Queue
  /\ \A n \in Queue : /\ n < FifoSize => n + 1 \in Queue
                      /\ n > 0 => n - 1 \in Queue
<1>1. /\ WordLimit \in Nat \ {0} /\ Waits \subseteq 0 .. WordLimit - 1
      /\ Trigger \in Nat /\ Trigger >= 1 /\ FifoSize \in Nat /\ Trigger <= FifoSize
  BY MachineAssumption
<1>2. \A n \in Nat : n % WordLimit \in 0 .. WordLimit - 1
  BY <1>1
<1> QED
  BY <1>1, <1>2 DEF Word, Queue

LEMMA TopOfFrames ==
  ASSUME NEW s \in Seq(Frame), s # <<>>
  PROVE  /\ Len(s) \in Nat \ {0} /\ DOMAIN s = 1 .. Len(s)
         /\ Last(s) \in Frame /\ Last(s) = s[Len(s)]
         /\ Front(s) \in Seq(Frame) /\ Len(Front(s)) = Len(s) - 1
         /\ \A i \in 1 .. Len(s) - 1 : Front(s)[i] = s[i]
<1>1. Len(s) \in Nat \ {0} /\ DOMAIN s = 1 .. Len(s)
  BY EmptySeq, LenProperties
<1>2. \A i \in 1 .. Len(s) : s[i] \in Frame
  BY ElementOfSeq
<1>3. Last(s) \in Frame /\ Last(s) = s[Len(s)]
  BY <1>1, <1>2 DEF Last
<1>4. \A i \in 1 .. Len(s) - 1 : s[i] \in Frame
  BY <1>1, <1>2
<1>5. /\ Front(s) \in Seq(Frame)
      /\ Len(Front(s)) = IF 1 <= Len(s) - 1 THEN Len(s) - 1 - 1 + 1 ELSE 0
      /\ \A i \in 1 .. Len(s) - 1 - 1 + 1 : Front(s)[i] = s[1 + i - 1]
  BY <1>1, <1>4, SubSeqProperties DEF Front
<1>6. \A k \in Nat \ {0} : /\ (IF 1 <= k - 1 THEN k - 1 - 1 + 1 ELSE 0) = k - 1
                           /\ \A i \in 1 .. k - 1 : i \in 1 .. k - 1 - 1 + 1 /\ 1 + i - 1 = i
  OBVIOUS
<1>7. Len(Front(s)) = Len(s) - 1 /\ \A i \in 1 .. Len(s) - 1 : Front(s)[i] = s[i]
  BY <1>1, <1>5, <1>6
<1> QED
  BY <1>1, <1>3, <1>5, <1>7

LEMMA TopReplaced ==
  ASSUME NEW s \in Seq(Frame), s # <<>>, NEW f \in Frame
  PROVE  LET t == Append(Front(s), f) IN
         /\ t \in Seq(Frame) /\ Len(t) = Len(s) /\ DOMAIN t = 1 .. Len(s) /\ t # <<>>
         /\ t[Len(s)] = f /\ \A i \in 1 .. Len(s) - 1 : t[i] = s[i]
<1> DEFINE t == Append(Front(s), f)
<1>1. /\ Len(s) \in Nat \ {0} /\ Front(s) \in Seq(Frame) /\ Len(Front(s)) = Len(s) - 1
      /\ \A i \in 1 .. Len(s) - 1 : Front(s)[i] = s[i]
  BY TopOfFrames
<1>2. /\ t \in Seq(Frame) /\ t # <<>> /\ Len(t) = Len(s) - 1 + 1
      /\ \A i \in 1 .. Len(s) - 1 : t[i] = Front(s)[i]
      /\ t[Len(s) - 1 + 1] = f
  BY <1>1, AppendProperties
<1>3. DOMAIN t = 1 .. Len(t)
  BY <1>2, LenProperties
<1> QED
  BY <1>1, <1>2, <1>3

LEMMA Pushed ==
  ASSUME NEW s \in Seq(Frame), NEW f \in Frame
  PROVE  LET t == Append(s, f) IN
         /\ t \in Seq(Frame) /\ Len(t) = Len(s) + 1 /\ DOMAIN t = 1 .. Len(s) + 1
         /\ t # <<>> /\ Len(s) \in Nat
         /\ t[Len(s) + 1] = f /\ \A i \in 1 .. Len(s) : t[i] = s[i]
<1> DEFINE t == Append(s, f)
<1>1. /\ t \in Seq(Frame) /\ t # <<>> /\ Len(t) = Len(s) + 1
      /\ \A i \in 1 .. Len(s) : t[i] = s[i] /\ t[Len(s) + 1] = f
  BY AppendProperties
<1>2. DOMAIN t = 1 .. Len(t) /\ Len(s) \in Nat
  BY <1>1, LenProperties
<1> QED
  BY <1>1, <1>2, AppendProperties

LEMMA RankOf ==
  /\ \A l \in Lines \cup Fakes : l \in 0 .. 15 /\ Rank(l) \in 0 .. 7
  /\ \A l \in Lines : l >= 8 <=> l = MOUSE
  BY DEF Lines, Fakes, Rank, TIMER, KEYBOARD, SERIAL, MOUSE, CASCADE

LEMMA MachineTypesInit == MachInit => MachTypes
<1> SUFFICES ASSUME MachInit PROVE MachTypes
  OBVIOUS
<1>1. WordLimit \in Nat \ {0} /\ FifoSize \in Nat
  BY MachineSizes
<1>2. frames \in Seq(Frame)
  BY DEF MachInit
<1>3. pc \in Early /\ idt \in [0 .. 47 -> Int] /\ base \in [master : Nat, slave : Nat]
      /\ irq_routines \in [0 .. 15 -> {"none", "timer", "keyboard", "serial"}]
  BY DEF MachInit, Early, None
<1>4. isr \in [master : SUBSET (0 .. 7), slave : SUBSET {MOUSE}]
  BY DEF MachInit
<1>5. /\ wait \in [from : Word, for : Word, seen : Nat]
      /\ wait.seen <= wait.for
  <2>1. wait = NoWait
    BY DEF MachInit
  <2> QED
    BY <2>1, MachineSizes DEF NoWait
<1>6. timer_ticks \in Word /\ fifo \in [n : Queue, silent : BOOLEAN]
  BY MachineSizes DEF MachInit
<1>7. used \in [requests : Nat, bytes : Nat]
  BY DEF MachInit
<1> QED
  BY <1>2, <1>3, <1>4, <1>5, <1>6, <1>7 DEF MachInit, MachTypes

LEMMA TypesBoot ==
  MachTypes /\ ((\E ok \in BOOLEAN : kmain(ok)) \/ kernel_start
                \/ (\E v \in {0, 2} : fault_handler(v))) => MachTypes'
<1>1. ASSUME MachTypes, NEW ok \in BOOLEAN, kmain(ok)
      PROVE  MachTypes'
  <2>1. pc \in Early \cup {"stdio"} /\ After(pc) \in Early \cup {"stdio", "run"}
    BY <1>1, BootOrder DEF kmain, Early
  <2>2. pc' \in Early \cup {"stdio", "run", "wild", "hung"}
    BY <1>1, <2>1 DEF kmain, Fatal
  <2>3. idt' \in [0 .. 47 -> Int]
    BY <1>1 DEF MachTypes, kmain, isrs_install, irq_install, idt_set_gate, None
  <2>4. irq_routines' \in [0 .. 15 -> {"none", "timer", "keyboard", "serial"}]
    BY <1>1 DEF MachTypes, kmain
  <2>5. base' \in [master : Nat, slave : Nat] /\ streams' \subseteq {"vgaout", "stdout"}
        /\ enabled' \in BOOLEAN
    BY <1>1 DEF MachTypes, kmain
  <2>6. fifo' \in [n : Queue, silent : BOOLEAN]
    BY <1>1, MachineSizes DEF MachTypes, kmain
  <2> QED
    BY <1>1, <2>2, <2>3, <2>4, <2>5, <2>6 DEF MachTypes, kmain, Ends, clock
<1>2. MachTypes /\ kernel_start => MachTypes'
  BY DEF MachTypes, kernel_start, Ends, clock, chips
<1>3. ASSUME MachTypes, NEW v \in {0, 2}, fault_handler(v)
      PROVE  MachTypes'
  BY <1>3 DEF MachTypes, fault_handler, Fatal, Ends, clock, chips, tables
<1> QED
  BY <1>1, <1>2, <1>3

\* A vector below 32 ends the machine, so base does not matter here.
LEMMA TypesInterrupt ==
  MachTypes /\ ((\E l \in Lines : Request(l) \/ Deliver(l)) \/ (\E l \in Fakes : DeliverFake(l)))
    => MachTypes'
<1>1. ASSUME MachTypes, NEW l \in Lines \cup Fakes, Enter(l)
      PROVE  /\ pc' \in Early \cup {"stdio", "run", "wait", "waited"} \cup Ends
             /\ frames' \in Seq(Frame)
  <2>1. [line |-> l, at |-> "handler", open |-> FALSE] \in Frame
    BY DEF Frame
  <2> QED
    <3>1. frames \in Seq(Frame) /\ pc \in Early \cup {"stdio", "run", "wait", "waited"} \cup Ends
      BY <1>1 DEF MachTypes
    <3>2. Append(frames, [line |-> l, at |-> "handler", open |-> FALSE]) \in Seq(Frame)
      BY <2>1, <3>1, Pushed
    <3> QED
      BY <1>1, <3>1, <3>2 DEF Enter, Ends
<1>2. ASSUME Extra, MachTypes
      PROVE  used' \in [requests : Nat, bytes : Nat]
  <2>1. used \in [requests : Nat, bytes : Nat] /\ used' = [used EXCEPT !.requests = @ + 1]
    BY <1>2 DEF Extra, MachTypes
  <2> QED
    BY <2>1
<1>3. ASSUME MachTypes, NEW l \in Lines, Request(l)
      PROVE  MachTypes'
  BY <1>2, <1>3 DEF MachTypes, Request, tables, clock
<1>4. isr \in [master : SUBSET (0 .. 7), slave : SUBSET {MOUSE}] =>
        isr.master \subseteq 0 .. 7 /\ isr.slave \subseteq {MOUSE}
  OBVIOUS
<1>5. ASSUME MachTypes, NEW l \in Lines, Deliver(l)
      PROVE  MachTypes'
  <2>1. isr' \in [master : SUBSET (0 .. 7), slave : SUBSET {MOUSE}]
    <3>1. Rank(l) \in 0 .. 7 /\ {l} \cap 8 .. 15 \subseteq {MOUSE}
      BY RankOf
    <3>2. isr' = [master |-> isr.master \cup {Rank(l)},
                  slave  |-> isr.slave \cup ({l} \cap 8 .. 15)]
      BY <1>5 DEF Deliver
    <3>3. isr.master \subseteq 0 .. 7 /\ isr.slave \subseteq {MOUSE}
      BY <1>4, <1>5 DEF MachTypes
    <3> QED
      BY <3>1, <3>2, <3>3
  <2>2. Enter(l) /\ UNCHANGED <<tables, clock, fifo, used, faked>> /\ irr' \subseteq Lines
    BY <1>5 DEF Deliver, MachTypes
  <2> QED
    BY <1>1, <1>5, <2>1, <2>2 DEF MachTypes, tables, clock
<1>6. ASSUME MachTypes, NEW l \in Fakes, DeliverFake(l)
      PROVE  MachTypes'
  <2>1. isr' \in [master : SUBSET (0 .. 7), slave : SUBSET {MOUSE}]
    <3>1. isr.master \subseteq 0 .. 7 /\ isr.slave \subseteq {MOUSE}
      BY <1>4, <1>6 DEF MachTypes
    <3>2. isr' = isr \/ isr' = [isr EXCEPT !.master = @ \cup {CASCADE}]
      BY <1>6 DEF DeliverFake
    <3>3. isr.master \cup {CASCADE} \in SUBSET (0 .. 7)
      BY <3>1 DEF CASCADE
    <3> QED
      BY <1>6, <3>2, <3>3 DEF MachTypes
  <2>2. Enter(l) /\ Extra /\ faked' = TRUE /\ UNCHANGED <<tables, clock, fifo, irr>>
    BY <1>6 DEF DeliverFake
  <2> QED
    BY <1>1, <1>2, <1>6, <2>1, <2>2 DEF MachTypes, tables, clock
<1> QED
  BY <1>3, <1>5, <1>6

LEMMA TypesHandler == MachTypes /\ HandlerStep => MachTypes'
<1> SUFFICES ASSUME MachTypes, HandlerStep, frames # <<>>
             PROVE  MachTypes'
  BY DEF HandlerStep, RunHandler, irq_handler, Iret, TopAt
<1>0. Last(frames) \in Frame /\ Front(frames) \in Seq(Frame)
  BY TopOfFrames DEF MachTypes
<1>1. CASE RunHandler
  <2>1. frames' \in Seq(Frame)
    <3>1. PICK open \in BOOLEAN :
            frames' = Append(Front(frames), [Last(frames) EXCEPT !.at = "eoi", !.open = open])
      BY <1>1 DEF RunHandler, SetTop
    <3>2. [Last(frames) EXCEPT !.at = "eoi", !.open = open] \in Frame
      BY <1>0 DEF Frame
    <3> QED
      BY <3>1, <3>2, TopReplaced DEF MachTypes
  <2>2. timer_ticks' \in Word
    <3>1. timer_ticks + 1 \in Nat
      BY MachineSizes DEF MachTypes
    <3> QED
      BY <1>1, <3>1, MachineSizes DEF RunHandler, MachTypes
  <2>3. /\ wait' \in [from : Word, for : Word, seen : Nat]
        /\ wait'.seen <= wait'.for
    <3>1. wait.seen \in Nat /\ wait.seen + 1 \in Nat /\ wait.for \in Nat
      <4>1. wait \in [from : Word, for : Word, seen : Nat]
        BY DEF MachTypes
      <4>2. wait.seen \in Nat /\ wait.for \in Word
        BY <4>1
      <4>3. wait.for \in Nat
        BY <4>2, MachineSizes
      <4> QED
        BY <4>2, <4>3
    <3>2. Min({wait.seen + 1, wait.for}) =
            IF wait.seen + 1 <= wait.for THEN wait.seen + 1 ELSE wait.for
      BY <3>1, SmallerOf
    <3>3. Min({wait.seen + 1, wait.for}) \in Nat /\ Min({wait.seen + 1, wait.for}) <= wait.for
      BY <3>1, <3>2
    <3>4. wait' = wait \/ wait' = [wait EXCEPT !.seen = Min({wait.seen + 1, wait.for})]
      BY <1>1 DEF RunHandler
    <3> QED
      BY <3>3, <3>4 DEF MachTypes
  <2>4. fifo' \in [n : Queue, silent : BOOLEAN]
    BY <1>1, MachineSizes DEF RunHandler, MachTypes
  <2>5. irr' \subseteq Lines
    BY <1>1 DEF RunHandler, Rising, MachTypes, Lines
  <2> QED
    BY <1>1, <2>1, <2>2, <2>3, <2>4, <2>5 DEF RunHandler, MachTypes, tables
<1>2. CASE irq_handler
  <2>1. frames' \in Seq(Frame)
    <3>1. [Last(frames) EXCEPT !.at = "iret"] \in Frame
      BY <1>0 DEF Frame
    <3> QED
      BY <1>2, <3>1, TopReplaced DEF MachTypes, irq_handler, SetTop
  <2>2. isr' \in [master : SUBSET (0 .. 7), slave : SUBSET {MOUSE}]
    BY <1>2 DEF irq_handler, EndOf, TopOut, MachTypes
  <2> QED
    BY <1>2, <2>1, <2>2 DEF irq_handler, MachTypes, tables, clock
<1>3. CASE Iret
  BY <1>0, <1>3 DEF Iret, MachTypes, tables, chips, clock
<1> QED
  BY <1>1, <1>2, <1>3 DEF HandlerStep

LEMMA TypesChip == MachTypes /\ (Arrive \/ Silence) => MachTypes'
<1>1. ASSUME MachTypes, Arrive PROVE MachTypes'
  <2>1. fifo' \in [n : Queue, silent : BOOLEAN]
    BY <1>1, MachineSizes DEF Arrive, MachTypes
  <2>2. irr' \subseteq Lines
    BY <1>1 DEF Arrive, Rising, MachTypes, Lines
  <2>3. used' \in [requests : Nat, bytes : Nat]
    <3>1. used \in [requests : Nat, bytes : Nat]
      BY <1>1 DEF MachTypes
    <3>2. used' = [used EXCEPT !.bytes = @ + 1]
      BY <1>1 DEF Arrive
    <3> QED
      BY <3>1, <3>2
  <2> QED
    BY <1>1, <2>1, <2>2, <2>3 DEF Arrive, MachTypes, tables, clock
<1>2. ASSUME MachTypes, Silence PROVE MachTypes'
  <2>2. irr' \subseteq Lines
    BY <1>2 DEF Silence, Rising, MachTypes, Lines
  <2> QED
    BY <1>2, <2>2 DEF Silence, MachTypes, tables, clock
<1> QED
  BY <1>1, <1>2

LEMMA TypesWait ==
  MachTypes /\ ((\E n \in Waits : timer_wait(n)) \/ TimerTest \/ Waited) => MachTypes'
<1>1. ASSUME MachTypes, NEW n \in Waits, timer_wait(n) PROVE MachTypes'
  <2>1. /\ wait' \in [from : Word, for : Word, seen : Nat]
        /\ wait'.seen <= wait'.for
    <3>1. timer_ticks \in Word /\ wait' = [from |-> timer_ticks, for |-> n, seen |-> 0]
      BY <1>1 DEF MachTypes, timer_wait
    <3> QED
      BY <3>1, MachineSizes
  <2> QED
    BY <1>1, <2>1 DEF timer_wait, MachTypes, tables, chips
<1>2. MachTypes /\ TimerTest => MachTypes'
  BY DEF TimerTest, MachTypes, tables, chips, clock
<1>3. ASSUME MachTypes, Waited PROVE MachTypes'
  <2>1. /\ wait' \in [from : Word, for : Word, seen : Nat]
        /\ wait'.seen <= wait'.for
    <3>1. wait' = NoWait
      BY <1>3 DEF Waited
    <3> QED
      BY <3>1, MachineSizes DEF NoWait
  <2> QED
    BY <1>3, <2>1 DEF Waited, MachTypes, tables, chips
<1> QED
  BY <1>1, <1>2, <1>3

LEMMA TypesStep == MachTypes /\ [MachNext]_machVars => MachTypes'
<1>1. MachTypes /\ UNCHANGED machVars => MachTypes'
  BY DEF MachTypes, machVars
<1> QED
  BY <1>1, TypesBoot, TypesInterrupt, TypesHandler, TypesChip, TypesWait DEF MachNext

-----------------------------------------------------------------------------
(* The order of kmain: nothing is interrupted before all is installed.     *)

Mapped == (\A v \in 0 .. 47 : idt[v] = v) /\ base = [master |-> 32, slave |-> 40]
Ready ==
  /\ Mapped /\ "vgaout" \in streams
  /\ \A l \in Lines \ {MOUSE} : irq_routines[l] # "none"
\* A handler runs only after sti, and so after everything is ready; what each
\* step of kmain may rely on is what those in front of it have done.
BootInv ==
  /\ pc \in Early => ~enabled /\ frames = <<>>
  /\ pc = "irq" => \A v \in 0 .. 31 : idt[v] = v
  /\ pc \in Early \ {"magic", "gdt", "idt", "isrs", "irq"} => Mapped
  /\ pc \in {"magic", "gdt", "idt", "isrs", "irq", "memory", "vga"} => "vgaout" \notin streams
  /\ pc \in {"timer", "phase", "keyboard", "serial", "sti"} => "vgaout" \in streams
  /\ pc \in {"phase", "keyboard", "serial", "sti"} => irq_routines[TIMER] # "none"
  /\ pc \in {"serial", "sti"} => irq_routines[KEYBOARD] # "none"
  /\ pc = "sti" => irq_routines[SERIAL] # "none"
  /\ "vgaout" \in streams => Mapped
  /\ enabled \/ frames # <<>> => Ready
  /\ pc = "wild" => "vgaout" \notin streams

LEMMA BootInit == MachInit => BootInv
  BY DEF MachInit, BootInv, Early

LEMMA BootKmain ==
  ASSUME MachTypes, BootInv, NEW ok \in BOOLEAN, kmain(ok)
  PROVE  BootInv'
<1> USE DEF TIMER, KEYBOARD, SERIAL, MOUSE
<1>1. frames = <<>> /\ frames' = <<>> /\ pc \in Early \cup {"stdio"}
  BY BootOrder DEF kmain
<1>2. \/ pc = "magic" /\ ~ok /\ pc' = Fatal("hung")
      \/ pc' = After(pc)
  BY DEF kmain
<1>3. CASE pc = "magic"
  BY <1>1, <1>2, <1>3, BootOrder DEF kmain, BootInv, Early, Fatal, Mapped, Ready
<1>4. CASE pc = "gdt"
  BY <1>1, <1>2, <1>4, BootOrder DEF kmain, BootInv, Early, Mapped, Ready
<1>5. CASE pc = "idt"
  BY <1>1, <1>2, <1>5, BootOrder DEF kmain, BootInv, Early, Mapped, Ready
<1>6. CASE pc = "isrs"
  <2>1. \A v \in 0 .. 31 : idt'[v] = v
    <3>1. idt' = [v \in 0 .. 47 |-> IF v \in 0 .. 31 THEN v ELSE idt[v]]
      BY <1>6 DEF kmain, isrs_install, idt_set_gate, MachTypes
    <3> QED
      BY <3>1
  <2>2. pc' = "irq" /\ streams' = streams /\ ~enabled'
    BY <1>2, <1>6, BootOrder DEF kmain, BootInv, Early
  <2> QED
    BY <1>1, <1>6, <2>1, <2>2 DEF BootInv, Early
<1>7. CASE pc = "irq"
  <2>1. \A v \in 0 .. 47 : idt'[v] = v
    <3>1. idt' = [v \in 0 .. 47 |-> IF v \in 32 .. 47 THEN v ELSE idt[v]]
      BY <1>7 DEF kmain, irq_install, idt_set_gate, MachTypes
    <3>2. \A v \in 0 .. 31 : idt[v] = v
      BY <1>7 DEF BootInv
    <3> QED
      BY <3>1, <3>2
  <2>2. base' = [master |-> 32, slave |-> 40]
    BY <1>7 DEF kmain
  <2>3. pc' = "memory" /\ streams' = streams /\ ~enabled'
    BY <1>2, <1>7, BootOrder DEF kmain, BootInv, Early
  <2> QED
    BY <1>1, <1>7, <2>1, <2>2, <2>3 DEF BootInv, Early, Mapped
<1>8. CASE pc \in {"memory", "vga", "phase", "sti", "stdio"}
  <2>1. idt' = idt /\ base' = base /\ irq_routines' = irq_routines
    BY <1>8 DEF kmain
  <2>2. enabled' = (enabled \/ pc = "sti")
        /\ streams' = CASE pc = "vga" -> streams \cup {"vgaout"}
                        [] pc = "stdio" -> streams \cup {"stdout"}
                        [] OTHER -> streams
    BY DEF kmain
  <2>3. pc' = CASE pc = "memory" -> "vga" [] pc = "vga" -> "timer" [] pc = "phase" -> "keyboard"
                [] pc = "sti" -> "stdio" [] pc = "stdio" -> "run"
    BY <1>2, <1>8, BootOrder
  <2> QED
    BY <1>1, <1>8, <2>1, <2>2, <2>3 DEF BootInv, Early, Mapped, Ready, Lines
<1>9. CASE pc \in {"timer", "keyboard", "serial"}
  <2>1. idt' = idt /\ base' = base /\ streams' = streams /\ enabled' = enabled
    BY <1>9 DEF kmain, MachTypes
  <2>2. irq_routines' = CASE pc = "timer" -> [irq_routines EXCEPT ![TIMER] = "timer"]
                          [] pc = "keyboard" -> [irq_routines EXCEPT ![KEYBOARD] = "keyboard"]
                          [] pc = "serial" -> [irq_routines EXCEPT ![SERIAL] = "serial"]
    BY <1>9 DEF kmain
  <2>3. pc' = CASE pc = "timer" -> "phase" [] pc = "keyboard" -> "serial" [] pc = "serial" -> "sti"
    BY <1>2, <1>9, BootOrder
  <2>4. irq_routines \in [0 .. 15 -> {"none", "timer", "keyboard", "serial"}]
    BY DEF MachTypes
  <2> QED
    BY <1>1, <1>9, <2>1, <2>2, <2>3, <2>4 DEF BootInv, Early, Mapped
<1> QED
  BY <1>1, <1>3, <1>4, <1>5, <1>6, <1>7, <1>8, <1>9 DEF Early

\* Where the tables stay as they are, it is enough to look at the steps of the
\* mainline and at who may be interrupted.
LEMMA BootKept ==
  ASSUME BootInv, UNCHANGED <<idt, irq_routines, base, streams>>,
         enabled' \/ frames' # <<>> => enabled \/ frames # <<>>,
         pc' \notin Early \/ (pc' = pc /\ UNCHANGED <<enabled, frames>>),
         pc' = "wild" => "vgaout" \notin streams
  PROVE  BootInv'
<1>1. Mapped' = Mapped /\ Ready' = Ready
  BY DEF Mapped, Ready
<1>2. CASE pc' \notin Early
  BY <1>1, <1>2 DEF BootInv, Early
<1>3. CASE pc' = pc /\ UNCHANGED <<enabled, frames>>
  BY <1>1, <1>3 DEF BootInv, Early
<1> QED
  BY <1>2, <1>3

LEMMA BootStep == MachTypes /\ BootInv /\ [MachNext]_machVars => BootInv'
<1> SUFFICES ASSUME MachTypes, BootInv, [MachNext]_machVars PROVE BootInv'
  OBVIOUS
<1>1. UNCHANGED machVars => BootInv'
  <2>1. BootInv => (pc = "wild" => "vgaout" \notin streams)
    BY DEF BootInv
  <2> QED
    BY <2>1, BootKept DEF machVars
<1>2. kernel_start => BootInv'
  BY BootKept DEF kernel_start, Early
<1>3. ASSUME NEW v \in {0, 2}, fault_handler(v) PROVE BootInv'
  <2>1. pc' = "wild" => "vgaout" \notin streams
    <3>1. CASE "vgaout" \in streams
      BY <1>3, <3>1 DEF fault_handler, Fatal, BootInv, Mapped
    <3> QED
      BY <3>1
  <2>2. pc' \notin Early
    BY <1>3 DEF fault_handler, Fatal, Early
  <2> QED
    BY <1>3, <2>1, <2>2, BootKept DEF fault_handler, tables
<1>4. ASSUME IF_ PROVE Ready /\ pc \notin Early
  BY <1>4 DEF IF_, BootInv
<1>5. ASSUME NEW l \in Lines \cup Fakes, IF_, Live, Enter(l), UNCHANGED tables PROVE BootInv'
  <2>1. ~(Vector(l) < 32) /\ pc \notin Early /\ pc # "wild"
    BY <1>4, <1>5, RankOf DEF Vector, Ready, Mapped, Live
  <2>2. enabled \/ frames # <<>>
    BY <1>5 DEF IF_
  <2> QED
    <3>1. pc' = pc
      BY <1>5, <2>1 DEF Enter
    <3>2. enabled' = enabled /\ UNCHANGED <<idt, irq_routines, base, streams>>
      BY <1>5 DEF tables
    <3> QED
      BY <2>1, <2>2, <3>1, <3>2, BootKept
<1>6. ASSUME NEW l \in Lines, Request(l) \/ Deliver(l) PROVE BootInv'
  BY <1>5, <1>6, BootKept DEF Request, Deliver, tables, Live, Early
<1>7. ASSUME NEW l \in Fakes, DeliverFake(l) PROVE BootInv'
  BY <1>5, <1>7 DEF DeliverFake
<1>8. HandlerStep => BootInv'
  <2>1. HandlerStep => /\ frames # <<>> /\ pc' = pc /\ UNCHANGED tables /\ pc # "wild"
    BY DEF HandlerStep, RunHandler, irq_handler, Iret, TopAt, Live
  <2> QED
    BY <2>1, BootKept DEF BootInv, tables
<1>9. Arrive \/ Silence => BootInv'
  BY BootKept DEF Arrive, Silence, tables, Live
<1>10. ASSUME (\E n \in Waits : timer_wait(n)) \/ TimerTest \/ Waited PROVE BootInv'
  BY <1>10, BootKept DEF timer_wait, TimerTest, Waited, tables, Early
<1> QED
  BY <1>1, <1>2, <1>3, <1>6, <1>7, <1>8, <1>9, <1>10, BootKmain DEF MachNext

-----------------------------------------------------------------------------
(* Handlers nest by rank.                                                  *)

\* The last two parts also hold once an interrupt without a request came: a
\* controller has no more lines in service than there are ends to be sent.
NestInv ==
  /\ ~faked =>
       /\ isr.master = {Rank(frames[i].line) : i \in Unended}
       /\ \A i, j \in Unended : i < j => Rank(frames[i].line) > Rank(frames[j].line)
  /\ \A i \in 1 .. Len(frames) - 1 : frames[i].open
  /\ Cardinality(isr.master) <= Cardinality(Unended)
  /\ isr.slave # {} => \E i \in Unended : frames[i].line >= 8

LEMMA NestInit == MachInit => NestInv
<1> SUFFICES ASSUME MachInit PROVE NestInv
  OBVIOUS
<1>1. frames = <<>> /\ DOMAIN frames = {} /\ Len(frames) = 0
      /\ isr = [master |-> {}, slave |-> {}]
  BY DEF MachInit
<1>2. Unended = {}
  BY <1>1 DEF Unended
<1> QED
  BY <1>1, <1>2, FS_EmptySet DEF NestInv

LEMMA NestKept ==
  ASSUME NestInv, UNCHANGED <<frames, isr, faked>>
  PROVE  NestInv'
  BY DEF NestInv, Unended, Rank, CASCADE

LEMMA UnendedFinite ==
  ASSUME MachTypes
  PROVE  /\ Unended \subseteq 1 .. Len(frames) /\ Len(frames) \in Nat
         /\ IsFiniteSet(Unended) /\ Cardinality(Unended) \in Nat
         /\ IsFiniteSet(isr.master) /\ Cardinality(isr.master) \in Nat
         /\ isr.master \subseteq 0 .. 7 /\ isr.slave \subseteq {MOUSE}
         /\ \A i \in 1 .. Len(frames) : frames[i] \in Frame
<1>1. frames \in Seq(Frame) /\ isr \in [master : SUBSET (0 .. 7), slave : SUBSET {MOUSE}]
  BY DEF MachTypes
<1>2. DOMAIN frames = 1 .. Len(frames) /\ Len(frames) \in Nat
      /\ \A i \in 1 .. Len(frames) : frames[i] \in Frame
  BY <1>1, LenProperties, ElementOfSeq
<1>3. Unended \subseteq 1 .. Len(frames)
  BY <1>2 DEF Unended
<1>4. IsFiniteSet(1 .. Len(frames)) /\ IsFiniteSet(0 .. 7)
  <2>1. 1 \in Int /\ Len(frames) \in Int /\ 0 \in Int /\ 7 \in Int
    BY <1>2
  <2>2. IsFiniteSet(0 .. 7)
    BY <2>1, FS_Interval
  <2>3. IsFiniteSet(1 .. Len(frames))
    BY <2>1, FS_Interval
  <2> QED
    BY <2>2, <2>3
<1>5. isr.master \subseteq 0 .. 7 /\ isr.slave \subseteq {MOUSE}
  BY <1>1
<1> QED
  BY <1>2, <1>3, <1>4, <1>5, FS_Subset, FS_CardinalityType

LEMMA EnterPushes ==
  ASSUME BootInv, IF_, NEW l \in Lines \cup Fakes, Enter(l)
  PROVE  frames' = Append(frames, [line |-> l, at |-> "handler", open |-> FALSE])
<1>1. ~(Vector(l) < 32)
  <2>1. base.master = 32 /\ base.slave = 40
    <3>1. Ready
      BY DEF IF_, BootInv
    <3>2. base = [master |-> 32, slave |-> 40]
      BY <3>1 DEF Ready, Mapped
    <3> QED
      BY <3>2
  <2>2. l \in 0 .. 15
    BY RankOf
  <2> QED
    BY <2>1, <2>2 DEF Vector
<1> QED
  BY <1>1 DEF Enter

\* An interrupt that is delivered, with the lines m in service afterwards.
LEMMA NestPush ==
  ASSUME MachTypes, BootInv, NestInv, IF_, NEW l \in Lines \cup Fakes, Enter(l),
         isr'.master = isr.master \/ \E r \in 0 .. 7 : isr'.master = isr.master \cup {r},
         isr'.slave \subseteq isr.slave \/ l >= 8
  PROVE  /\ Unended' = Unended \cup {Len(frames) + 1}
         /\ Len(frames) + 1 \notin Unended /\ Unended \subseteq 1 .. Len(frames)
         /\ frames'[Len(frames) + 1].line = l
         /\ \A i \in Unended : frames'[i] = frames[i]
         /\ \A i \in 1 .. Len(frames') - 1 : frames'[i].open
         /\ Cardinality(isr'.master) <= Cardinality(Unended')
         /\ isr'.slave # {} => \E i \in Unended' : frames'[i].line >= 8
<1> DEFINE n == Len(frames)
           f == [line |-> l, at |-> "handler", open |-> FALSE]
<1>1. frames' = Append(frames, f)
  BY EnterPushes
<1>2. f \in Frame /\ frames \in Seq(Frame)
  BY DEF Frame, MachTypes
<1>3. /\ Len(frames') = n + 1 /\ DOMAIN frames' = 1 .. n + 1 /\ n \in Nat
      /\ frames'[n + 1] = f /\ \A i \in 1 .. n : frames'[i] = frames[i]
  BY <1>1, <1>2, Pushed
<1>4. DOMAIN frames = 1 .. n
  BY <1>2, LenProperties
<1>5. Unended \subseteq 1 .. n /\ n + 1 \notin Unended
  BY <1>3, <1>4 DEF Unended
<1>6. Unended' = {i \in DOMAIN frames' : frames'[i].at # "iret"}
  BY DEF Unended
<1>7. Unended' = Unended \cup {n + 1}
  BY <1>3, <1>4, <1>6 DEF Unended
<1>8. \A i \in 1 .. n : frames'[i].open
  <2>1. \A i \in 1 .. n - 1 : frames[i].open
    BY DEF NestInv
  <2>2. n > 0 => frames[n].open
    BY <1>3, EmptySeq DEF IF_, Last
  <2> QED
    BY <1>3, <2>1, <2>2
<1>9. /\ Cardinality(Unended') = Cardinality(Unended) + 1
      /\ Cardinality(Unended) \in Nat /\ Cardinality(isr.master) \in Nat
      /\ IsFiniteSet(isr.master)
  BY <1>5, <1>7, UnendedFinite, FS_AddElement
<1>10. Cardinality(isr'.master) <= Cardinality(isr.master) + 1
  <2>1. CASE isr'.master = isr.master
    BY <1>9, <2>1
  <2>2. CASE \E r \in 0 .. 7 : isr'.master = isr.master \cup {r}
    <3>1. PICK r \in 0 .. 7 : isr'.master = isr.master \cup {r}
      BY <2>2
    <3>2. Cardinality(isr.master \cup {r}) =
            IF r \in isr.master THEN Cardinality(isr.master) ELSE Cardinality(isr.master) + 1
      BY <1>9, FS_AddElement
    <3> QED
      BY <1>9, <3>1, <3>2
  <2> QED
    BY <2>1, <2>2
<1>11. Cardinality(isr.master) <= Cardinality(Unended)
  BY DEF NestInv
<1>12. Cardinality(isr'.master) \in Nat
  BY <1>9, FS_AddElement, FS_CardinalityType
<1>13. isr'.slave # {} => \E i \in Unended' : frames'[i].line >= 8
  <2>1. CASE l >= 8
    BY <1>3, <1>7, <2>1
  <2>2. CASE isr'.slave \subseteq isr.slave
    BY <1>3, <1>5, <1>7, <2>2 DEF NestInv
  <2> QED
    BY <2>1, <2>2
<1> QED
  BY <1>3, <1>5, <1>7, <1>8, <1>9, <1>10, <1>11, <1>12, <1>13

LEMMA NestDeliver ==
  ASSUME MachTypes, BootInv, NestInv, NEW l \in Lines, Deliver(l)
  PROVE  NestInv'
<1> DEFINE n == Len(frames)
<1>1. IF_ /\ Enter(l) /\ MayInterrupt(l) /\ faked' = faked
      /\ isr' = [master |-> isr.master \cup {Rank(l)}, slave |-> isr.slave \cup ({l} \cap 8 .. 15)]
  BY DEF Deliver
<1>2. isr'.master = isr.master \cup {Rank(l)} /\ isr'.slave = isr.slave \cup ({l} \cap 8 .. 15)
      /\ Rank(l) \in 0 .. 7 /\ l \in 0 .. 15
  BY <1>1, RankOf
<1>3. isr'.slave \subseteq isr.slave \/ l >= 8
  BY <1>2
<1>4. /\ Unended' = Unended \cup {n + 1}
      /\ n + 1 \notin Unended /\ Unended \subseteq 1 .. n
      /\ frames'[n + 1].line = l
      /\ \A i \in Unended : frames'[i] = frames[i]
      /\ \A i \in 1 .. Len(frames') - 1 : frames'[i].open
      /\ Cardinality(isr'.master) <= Cardinality(Unended')
      /\ isr'.slave # {} => \E i \in Unended' : frames'[i].line >= 8
  BY <1>1, <1>2, <1>3, NestPush
<1>5. ASSUME ~faked
      PROVE  /\ isr'.master = {Rank(frames'[i].line) : i \in Unended'}
             /\ \A i, j \in Unended' : i < j => Rank(frames'[i].line) > Rank(frames'[j].line)
  <2>1. isr.master = {Rank(frames[i].line) : i \in Unended}
        /\ \A i, j \in Unended : i < j => Rank(frames[i].line) > Rank(frames[j].line)
    BY <1>5 DEF NestInv
  <2>2. \A i \in Unended : Rank(l) < Rank(frames[i].line)
    BY <1>1, <2>1 DEF MayInterrupt
  <2>3. n \in Nat /\ isr.master \subseteq 0 .. 7
    BY UnendedFinite
  <2>4. \A i \in Unended : Rank(frames'[i].line) = Rank(frames[i].line)
    BY <1>4
  <2>5. Rank(frames'[n + 1].line) = Rank(l)
    BY <1>4
  <2> HIDE DEF n
  <2>6. isr'.master = {Rank(frames'[i].line) : i \in Unended'}
    <3> DEFINE R(i) == Rank(frames'[i].line)
    <3>1. {R(i) : i \in Unended'} = {R(i) : i \in Unended} \cup {R(n + 1)}
      BY <1>4
    <3>2. {R(i) : i \in Unended} = {Rank(frames[i].line) : i \in Unended}
      BY <2>4
    <3> QED
      BY <1>2, <2>1, <2>5, <3>1, <3>2
  <2>7. \A i \in Unended : Rank(frames[i].line) \in 0 .. 7
    BY <2>1, <2>3
  <2>8. ASSUME NEW i \in Unended', NEW j \in Unended', i < j
        PROVE  Rank(frames'[i].line) > Rank(frames'[j].line)
    <3>1. i \in Unended
      BY <1>4, <2>3, <2>8
    <3>2. CASE j \in Unended
      BY <2>1, <2>4, <2>8, <3>1, <3>2
    <3>3. CASE j = n + 1
      BY <1>2, <2>2, <2>4, <2>5, <2>7, <3>1, <3>3
    <3> QED
      BY <1>4, <3>2, <3>3
  <2> QED
    BY <2>6, <2>8
<1> QED
  BY <1>1, <1>4, <1>5 DEF NestInv

LEMMA NestFake ==
  ASSUME MachTypes, BootInv, NestInv, NEW l \in Fakes, DeliverFake(l)
  PROVE  NestInv'
<1>1. IF_ /\ Enter(l) /\ faked' = TRUE
  BY DEF DeliverFake
<1>2. (isr'.master = isr.master \/ \E r \in 0 .. 7 : isr'.master = isr.master \cup {r})
      /\ isr'.slave \subseteq isr.slave
  BY DEF DeliverFake, MachTypes, CASCADE
<1> QED
  BY <1>1, <1>2, NestPush DEF NestInv

LEMMA HasMin ==
  ASSUME NEW S \in SUBSET (0 .. 7), S # {}
  PROVE  Min(S) \in S /\ \A x \in S : Min(S) <= x
<1>1. S \subseteq 0 .. 7 /\ 0 .. 7 = {0, 1, 2, 3, 4, 5, 6, 7}
  OBVIOUS
<1>2. \E m \in S : \A x \in S : m <= x
  <2>1. CASE 0 \in S
    BY <1>1, <2>1
  <2>2. CASE 0 \notin S /\ 1 \in S
    BY <1>1, <2>2
  <2>3. CASE 0 \notin S /\ 1 \notin S /\ 2 \in S
    BY <1>1, <2>3
  <2>4. CASE 0 \notin S /\ 1 \notin S /\ 2 \notin S /\ 3 \in S
    BY <1>1, <2>4
  <2>5. CASE 0 \notin S /\ 1 \notin S /\ 2 \notin S /\ 3 \notin S /\ 4 \in S
    BY <1>1, <2>5
  <2>6. CASE 0 \notin S /\ 1 \notin S /\ 2 \notin S /\ 3 \notin S /\ 4 \notin S /\ 5 \in S
    BY <1>1, <2>6
  <2>7. CASE 0 \notin S /\ 1 \notin S /\ 2 \notin S /\ 3 \notin S /\ 4 \notin S /\ 5 \notin S /\ 6 \in S
    BY <1>1, <2>7
  <2>8. CASE 0 \notin S /\ 1 \notin S /\ 2 \notin S /\ 3 \notin S /\ 4 \notin S /\ 5 \notin S /\ 6 \notin S /\ 7 \in S
    BY <1>1, <2>8
  <2> QED
    BY <1>1, <2>1, <2>2, <2>3, <2>4, <2>5, <2>6, <2>7, <2>8
<1> QED
  BY <1>2 DEF Min

\* An end of interrupt, of the frame on top.
LEMMA NestEnd == MachTypes /\ NestInv /\ irq_handler => NestInv'
<1> SUFFICES ASSUME MachTypes, NestInv, irq_handler PROVE NestInv'
  OBVIOUS
<1> DEFINE n == Len(frames)
           top == frames[n]
<1>1. frames # <<>> /\ top.at = "eoi" /\ faked' = faked /\ isr' = EndOf(top.line)
  BY DEF irq_handler, TopAt, Last
<1>2. n \in Nat \ {0} /\ frames \in Seq(Frame) /\ top \in Frame /\ DOMAIN frames = 1 .. n
  <2>1. frames \in Seq(Frame)
    BY DEF MachTypes
  <2> QED
    BY <1>1, <2>1, TopOfFrames
<1>3. [top EXCEPT !.at = "iret"] \in Frame
  BY <1>2 DEF Frame
<1>4. frames' = Append(Front(frames), [top EXCEPT !.at = "iret"])
  BY DEF irq_handler, SetTop, Last
<1>5. /\ Len(frames') = n /\ DOMAIN frames' = 1 .. n
      /\ frames'[n] = [top EXCEPT !.at = "iret"] /\ \A i \in 1 .. n - 1 : frames'[i] = frames[i]
  BY <1>1, <1>2, <1>3, <1>4, TopReplaced
<1>6. Unended' = Unended \ {n} /\ n \in Unended /\ Unended \subseteq 1 .. n
  BY <1>1, <1>2, <1>5 DEF Unended, Frame
<1>7. /\ isr.master \subseteq 0 .. 7 /\ isr.slave \subseteq {MOUSE}
      /\ IsFiniteSet(isr.master) /\ Cardinality(isr.master) \in Nat
      /\ IsFiniteSet(Unended) /\ Cardinality(Unended) \in Nat
  BY UnendedFinite
<1>8. /\ isr'.master = TopOut(isr.master)
      /\ isr'.slave = IF top.line >= 8 THEN TopOut(isr.slave) ELSE isr.slave
  BY <1>1 DEF EndOf
<1>9. \A i \in 1 .. n : frames'[i].line = frames[i].line /\ frames'[i].open = frames[i].open
  BY <1>2, <1>5 DEF Frame
<1> HIDE DEF n, top
<1>10. Cardinality(isr'.master) <= Cardinality(Unended')
  <2>1. Cardinality(Unended') = Cardinality(Unended) - 1
    BY <1>6, <1>7, FS_RemoveElement
  <2>2. Cardinality(Unended') \in Nat
    BY <1>6, <1>7, FS_RemoveElement, FS_CardinalityType
  <2>3. CASE isr.master = {}
    BY <1>8, <2>2, <2>3, FS_EmptySet DEF TopOut
  <2>4. CASE isr.master # {}
    <3>1. Min(isr.master) \in isr.master
      BY <1>7, <2>4, HasMin
    <3>2. isr'.master = isr.master \ {Min(isr.master)}
      BY <1>8, <2>4 DEF TopOut
    <3>3. Cardinality(isr'.master) = Cardinality(isr.master) - 1
      BY <1>7, <3>1, <3>2, FS_RemoveElement
    <3>4. Cardinality(isr.master) <= Cardinality(Unended)
      BY DEF NestInv
    <3> QED
      BY <1>7, <2>1, <3>3, <3>4
  <2> QED
    BY <2>3, <2>4
<1>11. isr'.slave # {} => \E i \in Unended' : frames'[i].line >= 8
  <2> SUFFICES ASSUME isr'.slave # {} PROVE \E i \in Unended' : frames'[i].line >= 8
    OBVIOUS
  <2>1. TopOut(isr.slave) = {}
    <3>1. CASE isr.slave = {}
      BY <3>1 DEF TopOut
    <3>2. CASE isr.slave = {MOUSE}
      <4>1. Min({MOUSE}) = MOUSE
        BY SmallestOf DEF MOUSE
      <4> QED
        BY <3>2, <4>1 DEF TopOut
    <3> QED
      BY <1>7, <3>1, <3>2
  <2>2. ~(top.line >= 8) /\ isr'.slave = isr.slave
    BY <1>8, <2>1
  <2>3. PICK i \in Unended : frames[i].line >= 8
    BY <2>2 DEF NestInv
  <2>4. i # n
    BY <2>2, <2>3 DEF top
  <2> QED
    BY <1>6, <1>9, <2>3, <2>4
<1>12. ASSUME ~faked
       PROVE  /\ isr'.master = {Rank(frames'[i].line) : i \in Unended'}
              /\ \A i, j \in Unended' : i < j => Rank(frames'[i].line) > Rank(frames'[j].line)
  <2> DEFINE R(i) == Rank(frames[i].line)
  <2>1. isr.master = {R(i) : i \in Unended} /\ \A i, j \in Unended : i < j => R(i) > R(j)
    BY <1>12 DEF NestInv
  <2>2. \A i \in Unended' : Rank(frames'[i].line) = R(i) /\ i \in Unended /\ i < n
    BY <1>2, <1>6, <1>9
  <2>3. R(n) \in isr.master /\ \A i \in Unended : R(i) \in 0 .. 7
    BY <1>6, <1>7, <2>1
  <2> HIDE DEF R
  <2>4. \A i \in Unended' : R(i) > R(n)
    BY <1>6, <2>1, <2>2
  <2>5. \A x \in isr.master : R(n) <= x
    BY <1>2, <1>6, <2>1, <2>3, <2>4
  <2>6. Min(isr.master) = R(n)
    BY <1>7, <2>3, <2>5, SmallestOf
  <2>7. isr'.master = isr.master \ {R(n)}
    BY <1>8, <2>3, <2>6 DEF TopOut
  <2>8. \A i \in Unended' : R(i) # R(n)
    BY <2>2, <2>3, <2>4
  <2>9. isr'.master = {R(i) : i \in Unended'}
    BY <1>6, <2>1, <2>7, <2>8
  <2>10. {R(i) : i \in Unended'} = {Rank(frames'[i].line) : i \in Unended'}
    BY <2>2
  <2> QED
    BY <2>1, <2>2, <2>9, <2>10
<1> QED
  <2>1. \A i \in 1 .. Len(frames') - 1 : frames'[i].open
    BY <1>2, <1>5, <1>9 DEF NestInv, n
  <2> QED
    BY <1>1, <1>10, <1>11, <1>12, <2>1 DEF NestInv

LEMMA NestStep == MachTypes /\ BootInv /\ NestInv /\ [MachNext]_machVars => NestInv'
<1> SUFFICES ASSUME MachTypes, BootInv, NestInv, [MachNext]_machVars PROVE NestInv'
  OBVIOUS
<1>1. CASE RunHandler
  <2> DEFINE n == Len(frames)
  <2>1. frames # <<>> /\ Last(frames).at = "handler" /\ UNCHANGED <<isr, faked>>
    BY <1>1 DEF RunHandler, TopAt
  <2>2. PICK open \in BOOLEAN :
          frames' = Append(Front(frames), [Last(frames) EXCEPT !.at = "eoi", !.open = open])
    BY <1>1 DEF RunHandler, SetTop
  <2>3. n \in Nat \ {0} /\ frames \in Seq(Frame) /\ Last(frames) = frames[n] /\ frames[n] \in Frame
        /\ DOMAIN frames = 1 .. n
    <3>1. frames \in Seq(Frame)
      BY DEF MachTypes
    <3> QED
      BY <2>1, <3>1, TopOfFrames
  <2>4. [Last(frames) EXCEPT !.at = "eoi", !.open = open] \in Frame
    BY <2>3 DEF Frame
  <2>5. /\ Len(frames') = n /\ DOMAIN frames' = 1 .. n
        /\ frames'[n] = [Last(frames) EXCEPT !.at = "eoi", !.open = open]
        /\ \A i \in 1 .. n - 1 : frames'[i] = frames[i]
    BY <2>1, <2>2, <2>3, <2>4, TopReplaced
  <2>6. /\ Unended' = Unended /\ Unended \subseteq 1 .. n
        /\ \A i \in 1 .. n : frames'[i].line = frames[i].line
    <3>1. frames'[n].at = "eoi" /\ frames'[n].line = frames[n].line /\ frames[n].at = "handler"
      BY <2>1, <2>3, <2>5 DEF Frame
    <3>2. \A k \in Nat \ {0} : \A i \in 1 .. k : i = k \/ i \in 1 .. k - 1
      OBVIOUS
    <3>3. \A i \in 1 .. n : frames'[i].line = frames[i].line
      BY <2>3, <2>5, <3>1, <3>2
    <3>4. \A i \in 1 .. n : frames'[i].at = "iret" <=> frames[i].at = "iret"
      BY <2>3, <2>5, <3>1, <3>2
    <3>5. /\ \A i : i \in Unended' <=> i \in 1 .. n /\ frames'[i].at # "iret"
          /\ \A i : i \in Unended <=> i \in 1 .. n /\ frames[i].at # "iret"
      BY <2>3, <2>5 DEF Unended
    <3> HIDE DEF n
    <3>6. \A i : i \in Unended' <=> i \in Unended
      BY <3>4, <3>5
    <3> QED
      BY <3>3, <3>5, <3>6
  <2>7. \A i \in 1 .. Len(frames') - 1 : frames'[i].open
    BY <2>3, <2>5 DEF NestInv
  <2>8. \A i \in Unended : frames'[i].line = frames[i].line
    BY <2>6
  <2> HIDE DEF n
  <2> QED
    BY <2>1, <2>6, <2>7, <2>8 DEF NestInv
<1>2. CASE Iret
  <2> DEFINE n == Len(frames)
  <2>1. frames # <<>> /\ Last(frames).at = "iret" /\ UNCHANGED <<isr, faked>>
        /\ frames' = Front(frames)
    BY <1>2 DEF Iret, TopAt, chips
  <2>2. n \in Nat \ {0} /\ Last(frames) = frames[n] /\ DOMAIN frames = 1 .. n
        /\ Front(frames) \in Seq(Frame) /\ Len(Front(frames)) = n - 1
        /\ \A i \in 1 .. n - 1 : Front(frames)[i] = frames[i]
    BY <2>1, TopOfFrames DEF MachTypes
  <2>3. DOMAIN frames' = 1 .. n - 1 /\ Len(frames') = n - 1
        /\ \A i \in 1 .. n - 1 : frames'[i] = frames[i]
    BY <2>1, <2>2, LenProperties
  <2>4. Unended' = Unended /\ Unended \subseteq 1 .. n - 1
    BY <2>1, <2>2, <2>3 DEF Unended
  <2>5. \A i \in Unended : frames'[i] = frames[i]
    BY <2>3, <2>4
  <2>6. \A i \in 1 .. Len(frames') - 1 : frames'[i].open
    BY <2>2, <2>3 DEF NestInv
  <2> HIDE DEF n
  <2> QED
    BY <2>1, <2>4, <2>5, <2>6 DEF NestInv
<1>3. ASSUME ~HandlerStep, \A l \in Lines : ~Deliver(l), \A l \in Fakes : ~DeliverFake(l)
      PROVE  UNCHANGED <<frames, isr, faked>>
  BY <1>3 DEF MachNext, machVars, kmain, kernel_start, fault_handler, Request, Arrive, Silence,
              timer_wait, TimerTest, Waited, chips
<1> QED
  BY <1>1, <1>2, <1>3, NestKept, NestDeliver, NestFake, NestEnd DEF HandlerStep

-----------------------------------------------------------------------------
(* The timer.                                                              *)

\* While timer_wait waits, ticks that it saw are ticks that were counted, as
\* long as the count does not wrap around.
WaitInv ==
  /\ pc = "wait" /\ wait.from + wait.for < WordLimit /\ wait.seen < wait.for =>
       timer_ticks = wait.from + wait.seen
  /\ WaitsLongEnough

LEMMA WaitFields ==
  ASSUME MachTypes
  PROVE  /\ wait.seen \in Nat /\ wait.for \in Nat /\ wait.from \in Nat /\ wait.seen <= wait.for
         /\ wait.from < WordLimit /\ wait.for < WordLimit
         /\ timer_ticks \in Nat /\ timer_ticks < WordLimit /\ WordLimit \in Nat \ {0}
<1>1. wait \in [from : Word, for : Word, seen : Nat] /\ timer_ticks \in Word
      /\ wait.seen <= wait.for
  BY DEF MachTypes
<1>2. wait.from \in Word /\ wait.for \in Word /\ wait.seen \in Nat
  BY <1>1
<1>3. WordLimit \in Nat \ {0} /\ \A n \in Word : n \in Nat /\ n < WordLimit
  BY MachineSizes DEF Word
<1> QED
  BY <1>1, <1>2, <1>3

LEMMA WaitKept ==
  ASSUME WaitInv, UNCHANGED clock, pc' = pc \/ pc' \notin {"wait", "waited"}
  PROVE  WaitInv'
  BY DEF WaitInv, WaitsLongEnough, clock

LEMMA WaitTick == MachTypes /\ WaitInv /\ RunHandler => WaitInv'
<1> SUFFICES ASSUME MachTypes, WaitInv, RunHandler PROVE WaitInv'
  OBVIOUS
<1>1. /\ pc' = pc
      /\ \/ UNCHANGED clock
         \/ /\ timer_ticks' = (timer_ticks + 1) % WordLimit
            /\ wait' = [wait EXCEPT !.seen = Min({@ + 1, wait.for})]
  BY DEF RunHandler, clock
<1>2. CASE UNCHANGED clock
  BY <1>1, <1>2, WaitKept
<1>3. CASE /\ timer_ticks' = (timer_ticks + 1) % WordLimit
           /\ wait' = [wait EXCEPT !.seen = Min({@ + 1, wait.for})]
  <2>1. /\ wait.seen \in Nat /\ wait.for \in Nat /\ wait.from \in Nat /\ wait.seen <= wait.for
        /\ timer_ticks \in Nat /\ timer_ticks < WordLimit /\ WordLimit \in Nat \ {0}
    BY WaitFields
  <2>2. Min({wait.seen + 1, wait.for}) =
          IF wait.seen + 1 <= wait.for THEN wait.seen + 1 ELSE wait.for
    BY <2>1, SmallerOf
  <2>3. wait \in [from : Word, for : Word, seen : Nat]
    BY DEF MachTypes
  <2>4. wait'.from = wait.from /\ wait'.for = wait.for
        /\ wait'.seen = IF wait.seen + 1 <= wait.for THEN wait.seen + 1 ELSE wait.for
    BY <1>3, <2>2, <2>3
  <2>5. timer_ticks + 1 < WordLimit => timer_ticks' = timer_ticks + 1
    BY <1>3, <2>1
  <2>6. pc = "wait" /\ wait.from + wait.for < WordLimit /\ wait.seen < wait.for =>
          timer_ticks = wait.from + wait.seen
    BY DEF WaitInv
  <2>7. pc = "waited" => wait.seen >= wait.for \/ wait.from + wait.for >= WordLimit
    BY DEF WaitInv, WaitsLongEnough
  <2>8. ASSUME pc' = "wait", wait'.from + wait'.for < WordLimit, wait'.seen < wait'.for
        PROVE  timer_ticks' = wait'.from + wait'.seen
    <3>1. wait'.seen = wait.seen + 1 /\ wait.seen + 1 < wait.for
      BY <2>1, <2>4, <2>8
    <3>2. timer_ticks = wait.from + wait.seen
      BY <1>1, <2>1, <2>4, <2>6, <2>8, <3>1
    <3> QED
      BY <2>1, <2>4, <2>5, <2>8, <3>1, <3>2
  <2>9. pc' = "waited" => wait'.seen >= wait'.for \/ wait'.from + wait'.for >= WordLimit
    BY <1>1, <2>1, <2>4, <2>7
  <2> QED
    BY <2>8, <2>9 DEF WaitInv, WaitsLongEnough
<1> QED
  BY <1>1, <1>2, <1>3

LEMMA WaitStep == MachTypes /\ WaitInv /\ [MachNext]_machVars => WaitInv'
<1> SUFFICES ASSUME MachTypes, WaitInv, [MachNext]_machVars PROVE WaitInv'
  OBVIOUS
<1>0. \A s \in Early \cup {"stdio", "run"} \cup Ends : s \notin {"wait", "waited"}
  BY DEF Early, Ends
<1>1. UNCHANGED machVars => WaitInv'
  BY WaitKept DEF machVars, clock
<1>2. ASSUME NEW ok \in BOOLEAN, kmain(ok) PROVE WaitInv'
  <2>1. pc' \in Early \cup {"stdio", "run"} \cup Ends
    BY <1>2, BootOrder DEF kmain, Fatal, Early, Ends
  <2> QED
    BY <1>0, <1>2, <2>1, WaitKept DEF kmain
<1>3. kernel_start => WaitInv'
  BY WaitKept DEF kernel_start
<1>4. ASSUME NEW v \in {0, 2}, fault_handler(v) PROVE WaitInv'
  BY <1>4, WaitKept DEF fault_handler, Fatal
<1>5. ASSUME NEW l, Enter(l) PROVE pc' = pc \/ pc' = "wild"
  BY <1>5 DEF Enter
<1>6. ASSUME NEW l \in Lines, Request(l) \/ Deliver(l) PROVE WaitInv'
  BY <1>5, <1>6, WaitKept DEF Request, Deliver
<1>7. ASSUME NEW l \in Fakes, DeliverFake(l) PROVE WaitInv'
  BY <1>5, <1>7, WaitKept DEF DeliverFake
<1>8. irq_handler \/ Iret \/ Arrive \/ Silence => WaitInv'
  BY WaitKept DEF irq_handler, Iret, Arrive, Silence
<1>9. ASSUME NEW n \in Waits, timer_wait(n) PROVE WaitInv'
  <2>1. pc' = "wait" /\ timer_ticks' = timer_ticks
        /\ wait' = [from |-> timer_ticks, for |-> n, seen |-> 0]
    BY <1>9 DEF timer_wait
  <2> QED
    BY <2>1, WaitFields DEF WaitInv, WaitsLongEnough
<1>10. TimerTest => WaitInv'
  <2> SUFFICES ASSUME TimerTest PROVE WaitInv'
    OBVIOUS
  <2>1. /\ wait.seen \in Nat /\ wait.for \in Nat /\ wait.from \in Nat /\ wait.seen <= wait.for
        /\ timer_ticks \in Nat /\ WordLimit \in Nat \ {0}
    BY WaitFields
  <2>2. pc = "wait" /\ pc' = "waited" /\ timer_ticks >= (wait.from + wait.for) % WordLimit
        /\ wait' = wait
    BY DEF TimerTest, eticks, clock
  <2>3. wait.from + wait.for < WordLimit =>
          (wait.from + wait.for) % WordLimit = wait.from + wait.for
    BY <2>1
  <2>4. wait.seen >= wait.for \/ wait.from + wait.for >= WordLimit
    BY <2>1, <2>2, <2>3 DEF WaitInv
  <2> QED
    BY <2>2, <2>4 DEF WaitInv, WaitsLongEnough
<1>11. Waited => WaitInv'
  BY DEF Waited, WaitInv, WaitsLongEnough
<1> QED
  BY <1>1, <1>2, <1>3, <1>4, <1>6, <1>7, <1>8, <1>9, <1>10, <1>11, WaitTick
  DEF MachNext, HandlerStep

-----------------------------------------------------------------------------
(* Memory.                                                                 *)

\* This is about the walk of memory_init alone.
LEMMA LargestIsFound ==
  ASSUME NEW m \in Maps, NEW i \in 2 .. Len(m) - 1,
         m[i].addr < WordLimit, IsLargest(m, i)
  PROVE  memory_init(m) = [ptr |-> m[i].addr, size |-> m[i].len]
<1> DEFINE lens == {0} \cup {m[j].len : j \in Visited(m)}
<1>1. m \in Seq([addr : Nat, len : Nat, ram : BOOLEAN]) /\ WordLimit \in Nat \ {0}
  BY MachineAssumption
<1>2. /\ Len(m) \in Nat /\ DOMAIN m = 1 .. Len(m)
      /\ \A j \in 1 .. Len(m) : m[j].addr \in Nat /\ m[j].len \in Nat
  <2>1. Len(m) \in Nat /\ DOMAIN m = 1 .. Len(m)
    BY <1>1, LenProperties
  <2>2. \A j \in 1 .. Len(m) : m[j] \in [addr : Nat, len : Nat, ram : BOOLEAN]
    BY <1>1, ElementOfSeq
  <2> QED
    BY <2>1, <2>2
<1>3. Visited(m) = 2 .. Len(m) /\ Visited(m) \subseteq 1 .. Len(m) /\ i \in Visited(m)
  BY <1>2 DEF Visited
<1>4. \A j \in 1 .. Len(m) : j # i => m[j].len < m[i].len
  BY <1>2 DEF IsLargest
<1>5. m[i].len \in Nat /\ m[i].addr \in Nat /\ m[i].len > 0
  BY <1>2, <1>3, <1>4
<1>6. Max(lens) = m[i].len
  <2>1. lens \in SUBSET Int /\ m[i].len \in lens
    BY <1>2, <1>3
  <2>2. \A x \in lens : x <= m[i].len
    BY <1>2, <1>3, <1>4, <1>5
  <2> HIDE DEF lens
  <2> QED
    BY <2>1, <2>2, LargestOf
<1>7. {j \in Visited(m) : m[j].len = m[i].len} = {i}
  BY <1>2, <1>3, <1>4
<1>8. Min({i}) = i
  <2>1. {i} \in SUBSET Int /\ i \in {i} /\ \A x \in {i} : i <= x
    BY <1>2
  <2> QED
    BY <2>1, SmallestOf
<1>9. m[i].addr % WordLimit = m[i].addr
  <2>1. \A a, w \in Nat : a < w => a % w = a
    OBVIOUS
  <2> QED
    BY <1>1, <1>5, <2>1
<1> HIDE DEF lens
<1>10. memory_init(m) =
         IF Max(lens) = 0 THEN [ptr |-> 0, size |-> 0]
         ELSE [ptr |-> m[Min({j \in Visited(m) : m[j].len = Max(lens)})].addr % WordLimit,
               size |-> Max(lens)]
  BY DEF memory_init, lens
<1>11. {j \in Visited(m) : m[j].len = Max(lens)} = {i}
  BY <1>6, <1>7
<1>12. Max(lens) # 0
  BY <1>5, <1>6
<1>13. memory_init(m) = [ptr |-> m[Min({i})].addr % WordLimit, size |-> Max(lens)]
  BY <1>10, <1>11, <1>12
<1> QED
  BY <1>6, <1>8, <1>9, <1>13

LEMMA MemoryFound == MemoryIsRam
  BY LargestIsFound DEF MemoryIsRam

-----------------------------------------------------------------------------
(* What the machine promises.                                              *)

LEMMA MachInvariant == MachSpec => [](MachTypes /\ BootInv /\ NestInv /\ WaitInv)
<1>1. MachInit => MachTypes /\ BootInv /\ NestInv /\ WaitInv
  BY MachineTypesInit, BootInit, NestInit DEF MachInit, WaitInv, WaitsLongEnough
<1>2. MachTypes /\ BootInv /\ NestInv /\ WaitInv /\ [MachNext]_machVars =>
        (MachTypes /\ BootInv /\ NestInv /\ WaitInv)'
  BY TypesStep, BootStep, NestStep, WaitStep
<1> QED
  BY <1>1, <1>2, PTL DEF MachSpec

\* For every memory map, queue, number of interrupts and depth of nesting: no
\* interrupt is taken before all that it needs is installed; handlers nest by
\* rank and leave no line in service behind; timer_wait waits long enough; and
\* malloc gets the largest piece of RAM where memory_init can see it.
THEOREM MachineIsSafe == MachSpec => []MachineSafe
<1>1. ASSUME MachTypes, BootInv PROVE HandlersReady
  <2>1. IF_ => Ready
    BY <1>1 DEF IF_, BootInv
  <2>2. DOMAIN idt = 0 .. 47
    BY <1>1 DEF MachTypes
  <2> QED
    BY <1>1, <2>1, <2>2 DEF HandlersReady, Ready, Mapped, BootInv
<1>2. ASSUME MachTypes, NestInv PROVE HandlersNest
  <2>1. ASSUME frames = <<>> PROVE isr = [master |-> {}, slave |-> {}]
    <3>1. Unended = {}
      BY <2>1 DEF Unended
    <3>2. isr.master = {} /\ isr.slave = {}
      BY <1>2, <3>1, UnendedFinite, FS_EmptySet DEF NestInv
    <3>3. isr \in [master : SUBSET (0 .. 7), slave : SUBSET {MOUSE}]
      BY <1>2 DEF MachTypes
    <3> QED
      BY <3>2, <3>3
  <2> QED
    BY <1>2, <2>1 DEF HandlersNest, NestInv
<1>3. MachTypes /\ BootInv /\ NestInv /\ WaitInv => MachineSafe
  BY <1>1, <1>2, MemoryFound DEF MachineSafe, WaitInv
<1> QED
  BY <1>3, MachInvariant, PTL

-----------------------------------------------------------------------------
(* The line of the serial chip.                                            *)

\* An edge that came before interrupts are enabled is still requested.
EdgeInv == pc \in Early /\ Level(fifo) => SERIAL \in irr
\* Only the line of the serial chip has its handler.
OwnLine == \A l \in 0 .. 15 : irq_routines[l] = "serial" => l = SERIAL

LEMMA RaisedStays ==
  ASSUME MachTypes, Arrive \/ Silence
  PROVE  (Level(fifo) => Level(fifo')) /\ (Level(fifo') /\ ~Level(fifo) => SERIAL \in irr')
         /\ irr \subseteq irr' /\ (Level(fifo) => irr' = irr)
<1>1. fifo \in [n : Queue, silent : BOOLEAN] /\ Queue \subseteq Nat /\ Trigger \in Nat
  BY MachineSizes DEF MachTypes
<1>2. fifo.n \in Nat
  BY <1>1
<1>3. \/ fifo' = fifo \/ fifo' = [fifo EXCEPT !.n = @ + 1] \/ fifo' = [fifo EXCEPT !.silent = TRUE]
  BY DEF Arrive, Silence
<1>4. fifo'.n \in {fifo.n, fifo.n + 1} /\ (fifo.silent => fifo'.silent)
  BY <1>1, <1>3
<1>5. Level(fifo) => Level(fifo')
  BY <1>1, <1>2, <1>4 DEF Level
<1>6. irr' = Rising(fifo, fifo')
  BY DEF Arrive, Silence
<1> QED
  BY <1>5, <1>6 DEF Rising

LEMMA EdgeStep ==
  MachTypes /\ BootInv /\ EdgeInv /\ OwnLine /\ [MachNext]_machVars => EdgeInv' /\ OwnLine'
<1> SUFFICES ASSUME MachTypes, BootInv, EdgeInv, OwnLine, [MachNext]_machVars
             PROVE  EdgeInv' /\ OwnLine'
  OBVIOUS
<1>1. OwnLine'
  <2>1. ASSUME NEW ok \in BOOLEAN, kmain(ok) PROVE OwnLine'
    <3>1. irq_routines \in [0 .. 15 -> {"none", "timer", "keyboard", "serial"}]
      BY DEF MachTypes
    <3> QED
      BY <2>1, <3>1 DEF kmain, OwnLine, TIMER, KEYBOARD, SERIAL
  <2>2. UNCHANGED irq_routines => OwnLine'
    BY DEF OwnLine
  <2>3. \/ \E ok \in BOOLEAN : kmain(ok)
        \/ UNCHANGED irq_routines
    BY DEF MachNext, machVars, HandlerStep, tables, kernel_start, fault_handler, Request, Deliver,
           DeliverFake, RunHandler, irq_handler, Iret, Arrive, Silence, timer_wait, TimerTest, Waited
  <2> QED
    BY <2>1, <2>2, <2>3
<1>2. pc' \notin Early => EdgeInv'
  BY DEF EdgeInv, Early
<1>3. CASE pc' \in Early
  <2>1. ASSUME NEW ok \in BOOLEAN, kmain(ok) PROVE EdgeInv'
    <3>1. pc \in Early
      BY <1>3, <2>1, BootOrder DEF kmain, Early, Fatal
    <3>2. irr' = irr /\ (fifo' = fifo \/ fifo' = [n |-> 0, silent |-> FALSE])
      BY <2>1 DEF kmain
    <3>3. ~Level([n |-> 0, silent |-> FALSE])
      BY MachineSizes DEF Level
    <3> QED
      BY <3>1, <3>2, <3>3 DEF EdgeInv
  <2>2. ASSUME UNCHANGED <<pc, fifo>>, irr \subseteq irr' PROVE EdgeInv'
    BY <2>2 DEF EdgeInv
  <2>3. ASSUME pc' = pc PROVE ~IF_ /\ frames = <<>>
    BY <1>3, <2>3 DEF BootInv, IF_
  <2>4. Arrive \/ Silence => EdgeInv'
    BY RaisedStays DEF EdgeInv, Arrive, Silence
  <2>5. \/ \E ok \in BOOLEAN : kmain(ok)
        \/ Arrive \/ Silence
        \/ UNCHANGED <<pc, fifo>> /\ irr \subseteq irr'
    <3>1. ASSUME NEW l, Enter(l) PROVE pc' = pc
      BY <1>3, <3>1 DEF Enter, Early
    <3>2. \A l \in Lines : ~Deliver(l)
      BY <2>3, <3>1 DEF Deliver
    <3>3. \A l \in Fakes : ~DeliverFake(l)
      BY <2>3, <3>1 DEF DeliverFake
    <3>4. ~HandlerStep
      BY <2>3 DEF HandlerStep, RunHandler, irq_handler, Iret, TopAt
    <3>5. \A l \in Lines : Request(l) => UNCHANGED <<pc, fifo>> /\ irr \subseteq irr'
      BY DEF Request
    <3>6. ~kernel_start /\ ~(\E v \in {0, 2} : fault_handler(v)) /\ ~TimerTest /\ ~Waited
          /\ ~(\E n \in Waits : timer_wait(n))
      BY <1>3 DEF kernel_start, fault_handler, Fatal, TimerTest, Waited, timer_wait, Early
    <3> QED
      BY <3>2, <3>3, <3>4, <3>5, <3>6 DEF MachNext, machVars
  <2> QED
    BY <1>1, <2>1, <2>2, <2>4, <2>5
<1> QED
  BY <1>1, <1>2, <1>3

LEMMA JammedStep ==
  MachTypes /\ BootInv /\ EdgeInv /\ OwnLine /\ [MachNext]_machVars => (Jammed => Jammed')
<1> SUFFICES ASSUME MachTypes, BootInv, EdgeInv, OwnLine, [MachNext]_machVars, Jammed
             PROVE  Jammed'
  OBVIOUS
<1> DEFINE Served(s, i) == s[i].line = SERIAL /\ s[i].at = "handler"
<1>0. Level(fifo) /\ SERIAL \notin irr /\ \A i \in DOMAIN frames : ~Served(frames, i)
  BY DEF Jammed
<1>1. ASSUME Level(fifo'), irr' \subseteq irr \cup (Lines \ {SERIAL}),
             \A i \in DOMAIN frames' : ~Served(frames', i)
      PROVE  Jammed'
  BY <1>0, <1>1 DEF Jammed
<1>2. UNCHANGED <<fifo, frames, irr>> => Jammed'
  BY <1>0, <1>1
<1>3. ASSUME NEW ok \in BOOLEAN, kmain(ok) PROVE Jammed'
  <2>1. pc # "serial"
    BY <1>0 DEF EdgeInv, Early
  <2> QED
    BY <1>2, <1>3, <2>1 DEF kmain
<1>4. ASSUME NEW l \in Lines, Request(l) PROVE Jammed'
  BY <1>0, <1>1, <1>4 DEF Request
<1>5. ASSUME NEW l \in (Lines \cup Fakes) \ {SERIAL}, IF_, Enter(l), irr' \subseteq irr,
             UNCHANGED fifo
      PROVE  Jammed'
  <2>1. frames' = Append(frames, [line |-> l, at |-> "handler", open |-> FALSE])
    BY <1>5, EnterPushes
  <2>2. [line |-> l, at |-> "handler", open |-> FALSE] \in Frame /\ frames \in Seq(Frame)
    BY DEF Frame, MachTypes
  <2>3. /\ DOMAIN frames' = 1 .. Len(frames) + 1 /\ DOMAIN frames = 1 .. Len(frames)
        /\ frames'[Len(frames) + 1].line = l
        /\ \A i \in 1 .. Len(frames) : frames'[i] = frames[i]
    BY <2>1, <2>2, Pushed, LenProperties
  <2>4. \A i \in DOMAIN frames' : ~Served(frames', i)
    BY <1>0, <1>5, <2>2, <2>3, LenProperties
  <2> QED
    BY <1>0, <1>1, <1>5, <2>4
<1>6. ASSUME NEW l \in Lines, Deliver(l) PROVE Jammed'
  BY <1>0, <1>5, <1>6 DEF Deliver
<1>7. ASSUME NEW l \in Fakes, DeliverFake(l) PROVE Jammed'
  BY <1>5, <1>7 DEF DeliverFake, Fakes, SERIAL
<1>8. ASSUME RunHandler \/ irq_handler PROVE Jammed'
  <2>1. frames # <<>> /\ frames \in Seq(Frame)
    BY <1>8 DEF RunHandler, irq_handler, TopAt, MachTypes
  <2>2. PICK f \in Frame : frames' = Append(Front(frames), f) /\ f.at # "handler"
    <3>1. Last(frames) \in Frame
      BY <2>1, TopOfFrames
    <3>2. CASE RunHandler
      <4>1. PICK open \in BOOLEAN :
              frames' = Append(Front(frames), [Last(frames) EXCEPT !.at = "eoi", !.open = open])
        BY <3>2 DEF RunHandler, SetTop
      <4>2. [Last(frames) EXCEPT !.at = "eoi", !.open = open] \in Frame
            /\ [Last(frames) EXCEPT !.at = "eoi", !.open = open].at # "handler"
        BY <3>1 DEF Frame
      <4> QED
        BY <4>1, <4>2
    <3>3. CASE irq_handler
      <4>1. [Last(frames) EXCEPT !.at = "iret"] \in Frame
            /\ [Last(frames) EXCEPT !.at = "iret"].at # "handler"
        BY <3>1 DEF Frame
      <4> QED
        BY <3>3, <4>1 DEF irq_handler, SetTop
    <3> QED
      BY <1>8, <3>2, <3>3
  <2>3. /\ Len(frames) \in Nat \ {0}
        /\ DOMAIN frames = 1 .. Len(frames) /\ DOMAIN frames' = 1 .. Len(frames)
        /\ frames'[Len(frames)] = f /\ \A i \in 1 .. Len(frames) - 1 : frames'[i] = frames[i]
    BY <2>1, <2>2, TopOfFrames, TopReplaced
  <2>4. ASSUME NEW i \in DOMAIN frames' PROVE ~Served(frames', i)
    <3>1. CASE i = Len(frames)
      BY <2>2, <2>3, <3>1
    <3>2. CASE i # Len(frames)
      <4>1. i \in 1 .. Len(frames) - 1 /\ i \in DOMAIN frames
        BY <2>3, <3>2
      <4> QED
        BY <1>0, <2>3, <4>1
    <3> QED
      BY <3>1, <3>2
  <2>5. fifo' = fifo
    <3>1. CASE RunHandler
      <4>1. Last(frames) = frames[Len(frames)] /\ Last(frames).at = "handler"
            /\ Last(frames).line \in 0 .. 15
        BY <2>1, <3>1, TopOfFrames, RankOf DEF RunHandler, TopAt, Frame
      <4>2. Last(frames).line # SERIAL
        BY <1>0, <2>3, <4>1
      <4>3. Handler(Last(frames).line) # "serial"
        BY <4>1, <4>2 DEF Handler, OwnLine
      <4> QED
        BY <3>1, <4>3 DEF RunHandler
    <3>2. CASE irq_handler
      BY <3>2 DEF irq_handler
    <3> QED
      BY <1>8, <3>1, <3>2
  <2>6. irr' = irr
    BY <1>8, <2>5 DEF RunHandler, irq_handler, Rising
  <2> QED
    BY <1>0, <1>1, <2>4, <2>5, <2>6
<1>9. ASSUME Iret PROVE Jammed'
  <2>1. frames # <<>> /\ frames \in Seq(Frame) /\ frames' = Front(frames)
    BY <1>9 DEF Iret, TopAt, MachTypes
  <2>2. /\ DOMAIN frames = 1 .. Len(frames) /\ DOMAIN frames' = 1 .. Len(frames) - 1
        /\ Len(frames) \in Nat \ {0} /\ \A i \in 1 .. Len(frames) - 1 : frames'[i] = frames[i]
    BY <2>1, TopOfFrames, LenProperties
  <2>3. \A i \in DOMAIN frames' : ~Served(frames', i)
    BY <1>0, <2>2
  <2> QED
    BY <1>0, <1>1, <1>9, <2>3 DEF Iret, chips
<1>10. Arrive \/ Silence => Jammed'
  BY <1>0, <1>1, RaisedStays DEF Arrive, Silence
<1>11. ASSUME kernel_start \/ (\E v \in {0, 2} : fault_handler(v)) \/ (\E n \in Waits : timer_wait(n))
              \/ TimerTest \/ Waited \/ UNCHANGED machVars
       PROVE  Jammed'
  BY <1>2, <1>11 DEF kernel_start, fault_handler, timer_wait, TimerTest, Waited, machVars, chips
<1> QED
  BY <1>3, <1>4, <1>6, <1>7, <1>8, <1>9, <1>10, <1>11 DEF MachNext, HandlerStep

\* For every trigger level and queue: once the queue of the serial chip has
\* outgrown the trigger before its handler read a byte, it is never read again.
THEOREM MachineStaysJammed == MachSpec => StaysJammed
<1>1. MachInit => EdgeInv /\ OwnLine
  BY MachineSizes DEF MachInit, EdgeInv, OwnLine, Level
<1>2. MachTypes /\ BootInv /\ EdgeInv /\ OwnLine /\ [MachNext]_machVars =>
        [Jammed => Jammed']_machVars
  BY JammedStep
<1> QED
  BY <1>1, <1>2, MachInvariant, EdgeStep, PTL DEF MachSpec, StaysJammed

-----------------------------------------------------------------------------
(* Rows and columns.                                                       *)

LEMMA Dimensions == W \in Nat /\ W > 0 /\ H \in Nat /\ H > 1 /\ Margin \in Nat
<1>1. /\ SCREEN_WIDTH \in Nat \ {0} /\ SCREEN_HEIGHT \in Nat \ {0, 1}
      /\ Margin \in Nat \ {0}
  BY ScreenAssumption DEF ScreenAssumption
<1> QED
  BY <1>1 DEF W, H

LEMMA ScreenSizes ==
  /\ W \in Nat /\ W > 0 /\ H \in Nat /\ H > 1 /\ Margin \in Nat
  /\ W * H \in Nat /\ W * (H + 1) = W * H + W
  /\ W * (H - 1) = W * H - W /\ W * (H - 2) = W * H - 2 * W
  /\ W * H >= 2 * W
<1>1. W \in Nat /\ W > 0 /\ H \in Nat /\ H > 1 /\ Margin \in Nat
  BY Dimensions
<1>2. PICK d \in Nat : H = 2 + d
  <2>1. H - 2 \in Nat /\ H = 2 + (H - 2)
    BY <1>1
  <2> QED
    BY <2>1
<1>3. W * d \in Nat
  BY <1>1, <1>2
<1>4. W * H = 2 * W + W * d /\ W * (H + 1) = 3 * W + W * d
  BY <1>1, <1>2, <1>3
<1>5. W * (H - 1) = W + W * d /\ W * (H - 2) = W * d
  BY <1>1, <1>2, <1>3
<1> QED
  BY <1>1, <1>3, <1>4, <1>5

LEMMA RowFits ==
  ASSUME NEW y \in 0 .. H - 1
  PROVE  y * W \in Nat /\ y * W <= W * H - W
<1>1. PICK d \in Nat : H - 1 = y + d
  <2>1. H - 1 - y \in Nat /\ H - 1 = y + (H - 1 - y)
    BY ScreenSizes
  <2> QED
    BY <2>1
<1>2. y \in Nat /\ y * W \in Nat /\ d * W \in Nat
  BY ScreenSizes
<1>3. W * (H - 1) = y * W + d * W
  BY <1>1, <1>2, ScreenSizes
<1> QED
  BY <1>2, <1>3, ScreenSizes

LEMMA Divided ==
  ASSUME NEW x \in Int, NEW n \in Nat, n > 0
  PROVE  /\ x \div n \in Int /\ x % n \in 0 .. n - 1
         /\ x = n * (x \div n) + (x % n)
  OBVIOUS

LEMMA Quotient ==
  ASSUME NEW q \in Int, NEW n \in Nat, n > 0, NEW r \in 0 .. n - 1
  PROVE  (q * n + r) \div n = q /\ (q * n + r) % n = r
<1> DEFINE x == q * n + r
           p == x \div n
           s == x % n
<1>1. x \in Int /\ q * n \in Int
  OBVIOUS
<1>2. p \in Int /\ s \in 0 .. n - 1 /\ x = n * p + s
  BY <1>1, Divided
<1>3. x = q * n + r
  OBVIOUS
<1> HIDE DEF x, p, s
<1>4. p = q
  <2>1. CASE p > q
    <3>1. PICK d \in Nat : p = q + 1 + d
      <4>1. p - q - 1 \in Nat /\ p = q + 1 + (p - q - 1)
        BY <2>1, <1>2
      <4> QED
        BY <4>1
    <3>2. n * d \in Nat
      OBVIOUS
    <3>3. n * p = q * n + n + n * d
      BY <3>1, <3>2, <1>1
    <3> QED
      BY <1>1, <1>2, <1>3, <3>2, <3>3
  <2>2. CASE p < q
    <3>1. PICK d \in Nat : q = p + 1 + d
      <4>1. q - p - 1 \in Nat /\ q = p + 1 + (q - p - 1)
        BY <2>2, <1>2
      <4> QED
        BY <4>1
    <3>2. n * d \in Nat /\ n * p \in Int
      BY <1>2
    <3>3. q * n = n * p + n + n * d
      BY <3>1, <3>2, <1>2
    <3> QED
      BY <1>1, <1>2, <1>3, <3>2, <3>3
  <2> QED
    BY <2>1, <2>2, <1>2
<1>5. n * p = q * n
  BY <1>4, <1>2
<1>6. s = r
  BY <1>5, <1>1, <1>2, <1>3
<1> QED
  BY <1>4, <1>6 DEF x, p, s

\* The cell of a row and a column, and the row and the column of a cell.
LEMMA CellOf ==
  ASSUME NEW y \in 0 .. H - 1, NEW x \in 0 .. W - 1
  PROVE  /\ y * W + x \in ScreenCells
         /\ (y * W + x) \div W = y /\ (y * W + x) % W = x
<1>1. y * W \in Nat /\ y * W <= W * H - W
  BY RowFits
<1>2. y * W + x \in 0 .. W * H - 1
  BY <1>1, ScreenSizes
<1>3. y \in Int
  OBVIOUS
<1> QED
  BY <1>2, <1>3, Quotient, ScreenSizes DEF ScreenCells

LEMMA PlaceOf ==
  ASSUME NEW i \in ScreenCells
  PROVE  /\ i \in Nat /\ i \div W \in 0 .. H - 1 /\ i % W \in 0 .. W - 1
         /\ i = (i \div W) * W + (i % W)
<1> DEFINE p == i \div W
           r == i % W
<1>1. i \in Nat /\ i < W * H
  BY ScreenSizes DEF ScreenCells
<1>2. p \in Int /\ r \in 0 .. W - 1 /\ i = W * p + r
  BY <1>1, ScreenSizes, Divided
<1> HIDE DEF p, r
<1>3. p >= 0
  <2> SUFFICES ASSUME p < 0 PROVE FALSE
    BY <1>2
  <2>1. PICK d \in Nat : p = -1 - d
    <3>1. -1 - p \in Nat /\ p = -1 - (-1 - p)
      BY <1>2
    <3> QED
      BY <3>1
  <2>2. W * d \in Nat
    BY ScreenSizes
  <2>3. W * p = -W - W * d
    BY <2>1, <2>2, ScreenSizes
  <2> QED
    BY <1>1, <1>2, <2>2, <2>3, ScreenSizes
<1>4. p < H
  <2> SUFFICES ASSUME p >= H PROVE FALSE
    BY <1>2, ScreenSizes
  <2>1. PICK d \in Nat : p = H + d
    <3>1. p - H \in Nat /\ p = H + (p - H)
      BY <1>2, ScreenSizes
    <3> QED
      BY <3>1
  <2>2. W * d \in Nat
    BY ScreenSizes
  <2>3. W * p = W * H + W * d
    BY <2>1, <2>2, ScreenSizes
  <2> QED
    BY <1>1, <1>2, <2>2, <2>3, ScreenSizes
<1>5. W * p = p * W
  BY <1>2, ScreenSizes
<1>6. p \in 0 .. H - 1 /\ r \in 0 .. W - 1 /\ i = p * W + r
  BY <1>2, <1>3, <1>4, <1>5, ScreenSizes
<1> QED
  BY <1>1, <1>6 DEF p, r

\* A tab leads to the next stop, which is on the row or at its end.
LEMMA TabFits ==
  ASSUME NEW x \in Int
  PROVE  LET t == (x \div TabStop + 1) * TabStop IN
         /\ t \in Int /\ t > x
         /\ t = x + TabStop - (x % TabStop)
         /\ x < W => t <= W
<1> DEFINE n == TabStop
           p == x \div n
           r == x % n
           q == W \div n
<1>1. n \in Nat /\ n > 0 /\ W % n = 0
  <2>1. TabStop \in Nat \ {0} /\ SCREEN_WIDTH % TabStop = 0
    BY ScreenAssumption DEF ScreenAssumption
  <2> QED
    BY <2>1 DEF W
<1>2. p \in Int /\ r \in 0 .. n - 1 /\ x = n * p + r
  BY <1>1, Divided
<1>3. q \in Int /\ W = n * q
  <2>1. q \in Int /\ W = n * q + (W % n)
    BY <1>1, ScreenSizes, Divided
  <2>2. n * q \in Int
    BY <1>1, <2>1
  <2> QED
    BY <1>1, <2>1, <2>2
<1>4. (x \div TabStop + 1) * TabStop = (p + 1) * n /\ (x % TabStop) = r
  OBVIOUS
<1> HIDE DEF n, p, r, q
<1>5. n * p \in Int /\ (p + 1) * n = n * p + n
  BY <1>1, <1>2
<1>6. ASSUME x < W PROVE n * p + n <= W
  <2>1. p < q
    <3> SUFFICES ASSUME p >= q PROVE FALSE
      BY <1>2, <1>3
    <3>1. PICK d \in Nat : p = q + d
      <4>1. p - q \in Nat /\ p = q + (p - q)
        BY <1>2, <1>3
      <4> QED
        BY <4>1
    <3>2. n * d \in Nat /\ n * q \in Int
      BY <1>1, <1>3
    <3>3. n * p = n * q + n * d
      BY <3>1, <1>1, <1>3
    <3> QED
      BY <1>2, <1>3, <1>6, <3>2, <3>3, ScreenSizes
  <2>2. PICK d \in Nat : q = p + 1 + d
    <3>1. q - p - 1 \in Nat /\ q = p + 1 + (q - p - 1)
      BY <2>1, <1>2, <1>3
    <3> QED
      BY <3>1
  <2>3. n * d \in Nat /\ n * q = n * p + n + n * d
    BY <2>2, <1>1, <1>2
  <2>4. W = n * p + n + n * d
    BY <1>3, <2>3
  <2> QED
    BY <1>1, <1>5, <2>3, <2>4
<1>7. (p + 1) * n \in Int /\ (p + 1) * n > x /\ (p + 1) * n = x + n - r
  BY <1>1, <1>2, <1>5
<1>8. n = TabStop
  BY DEF n
<1> QED
  BY <1>4, <1>5, <1>6, <1>7, <1>8
-----------------------------------------------------------------------------
(* vga_putchar as a whole, on any screen.                                  *)

Attribs == (0 .. LastColor) \X (0 .. LastColor)
Cell == [ch : Bytes \cup {"out"}, at : Attribs]
ScreenState == [cells : [Memory -> Cell], x : Int, y : Int]
Prints(c) == c \notin Controls \cup Silent

LEMMA CellNames ==
  ASSUME NEW i \in ScreenCells
  PROVE  i \in Memory /\ i \in Int
BY ScreenSizes DEF ScreenCells, Memory

LEMMA MovedForms ==
  ASSUME NEW s, NEW c
  PROVE  /\ c = "bs" => Moved(s, c) = [s EXCEPT !.x = IF s.x # 0 THEN s.x - 1 ELSE s.x]
         /\ c = "tab" => Moved(s, c) = [s EXCEPT !.x = (s.x \div TabStop + 1) * TabStop]
         /\ c = "cr" => Moved(s, c) = [s EXCEPT !.x = 0]
         /\ c = "nl" => Moved(s, c) = [s EXCEPT !.x = 0, !.y = s.y + 1]
         /\ c \in Silent => Moved(s, c) = s
         /\ Prints(c) => Moved(s, c) = [s EXCEPT !.cells[s.y * W + s.x] = [ch |-> c, at |-> attrib],
                                                !.x = s.x + 1]
<1>1. CASE c = "bs"
  BY <1>1 DEF Moved, Silent, Prints, Controls
<1>2. CASE c = "tab"
  BY <1>2 DEF Moved, Silent, Prints, Controls
<1>3. CASE c = "cr"
  BY <1>3 DEF Moved, Silent, Prints, Controls
<1>4. CASE c = "nl"
  BY <1>4 DEF Moved, Silent, Prints, Controls
<1>5. CASE c \in Silent
  BY <1>5 DEF Moved, Silent, Prints, Controls
<1>6. CASE Prints(c)
  BY <1>6 DEF Moved, Silent, Prints, Controls
<1> QED
  BY <1>1, <1>2, <1>3, <1>4, <1>5, <1>6 DEF Prints, Controls

LEMMA MovedBounds ==
  ASSUME NEW s \in ScreenState, NEW c \in Bytes, attrib \in Attribs
  PROVE  LET m == Moved(s, c) IN
         /\ m \in ScreenState
         /\ m.y = IF c = "nl" THEN s.y + 1 ELSE s.y
         /\ c \in {"cr", "nl"} => m.x = 0
         /\ c = "bs" => m.x = IF s.x # 0 THEN s.x - 1 ELSE s.x
         /\ c = "tab" => m.x = (s.x \div TabStop + 1) * TabStop
         /\ c \in Silent => m = s
         /\ s.x < W => m.x <= W
         /\ s.x >= 0 => m.x >= 0
         /\ s.x <= W /\ ~Prints(c) /\ c # "tab" => m.x <= s.x \/ m.x = 0
         /\ ~Prints(c) => m.cells = s.cells
         /\ Prints(c) => /\ m.cells = [s.cells EXCEPT ![s.y * W + s.x] = [ch |-> c, at |-> attrib]]
                         /\ m.x = s.x + 1
<1> DEFINE m == Moved(s, c)
<1>0. /\ s = [cells |-> s.cells, x |-> s.x, y |-> s.y]
      /\ s.cells \in [Memory -> Cell] /\ s.x \in Int /\ s.y \in Int
  BY DEF ScreenState
<1>1. CASE c = "bs"
  <2>1. m = [s EXCEPT !.x = IF s.x # 0 THEN s.x - 1 ELSE s.x]
    BY <1>1, MovedForms
  <2>2. m.cells = s.cells /\ m.y = s.y /\ m.x = (IF s.x # 0 THEN s.x - 1 ELSE s.x) /\ m \in ScreenState
    BY <2>1, <1>0 DEF ScreenState
  <2> QED
    BY <1>0, <1>1, <2>2, ScreenSizes DEF Prints, Controls, Silent
<1>2. CASE c = "tab"
  <2>1. m = [s EXCEPT !.x = (s.x \div TabStop + 1) * TabStop]
    BY <1>2, MovedForms
  <2> DEFINE t == (s.x \div TabStop + 1) * TabStop
  <2>2. t \in Int /\ t > s.x /\ (s.x < W => t <= W)
    BY <1>0, TabFits
  <2> HIDE DEF t
  <2>3. m.cells = s.cells /\ m.y = s.y /\ m.x = t /\ m \in ScreenState
    BY <2>1, <2>2, <1>0 DEF ScreenState, t
  <2> QED
    BY <1>0, <1>2, <2>2, <2>3, ScreenSizes DEF Prints, Controls, Silent, t
<1>3. CASE c = "cr"
  <2>1. m = [s EXCEPT !.x = 0]
    BY <1>3, MovedForms
  <2>2. m.cells = s.cells /\ m.y = s.y /\ m.x = 0 /\ m \in ScreenState
    BY <2>1, <1>0 DEF ScreenState
  <2> QED
    BY <1>0, <1>3, <2>2, ScreenSizes DEF Prints, Controls, Silent
<1>4. CASE c = "nl"
  <2>1. m = [s EXCEPT !.x = 0, !.y = s.y + 1]
    BY <1>4, MovedForms
  <2> DEFINE down == s.y + 1
  <2>2. down \in Int
    BY <1>0
  <2> HIDE DEF down
  <2>3. m = [cells |-> s.cells, x |-> 0, y |-> down]
    BY <2>1, <1>0 DEF down
  <2>4. m.cells = s.cells /\ m.y = down /\ m.x = 0 /\ m \in ScreenState
    BY <2>2, <2>3, <1>0 DEF ScreenState
  <2> QED
    BY <1>0, <1>4, <2>4, ScreenSizes DEF Prints, Controls, Silent, down
<1>5. CASE c \in Silent
  <2>1. m = s /\ c # "nl" /\ ~Prints(c)
    BY <1>5, MovedForms DEF Silent, Prints
  <2> QED
    BY <1>0, <1>5, <2>1, ScreenSizes DEF Silent
<1>6. CASE Prints(c)
  <2>1. m = [s EXCEPT !.cells[s.y * W + s.x] = [ch |-> c, at |-> attrib], !.x = s.x + 1]
    BY <1>6, MovedForms
  <2>2. [ch |-> c, at |-> attrib] \in Cell
    BY DEF Cell
  <2>3. /\ m.cells = [s.cells EXCEPT ![s.y * W + s.x] = [ch |-> c, at |-> attrib]]
        /\ m.y = s.y /\ m.x = s.x + 1
    BY <2>1, <1>0
  <2>4. m = [cells |-> m.cells, x |-> m.x, y |-> m.y]
    BY <2>1, <1>0
  <2>5. m.cells \in [Memory -> Cell]
    BY <2>2, <2>3, <1>0
  <2>6. m \in ScreenState
    BY <2>3, <2>4, <2>5, <1>0 DEF ScreenState
  <2>7. c # "nl"
    BY <1>6 DEF Prints, Controls
  <2> QED
    BY <1>0, <1>6, <2>3, <2>6, <2>7, ScreenSizes DEF Prints, Controls
<1> QED
  BY <1>1, <1>2, <1>3, <1>4, <1>5, <1>6 DEF Prints, Controls

LEMMA WrappedForms ==
  ASSUME NEW s \in ScreenState
  PROVE  /\ Wrapped(s) \in ScreenState /\ Wrapped(s).cells = s.cells
         /\ s.x < W => Wrapped(s) = s
         /\ s.x >= W => Wrapped(s).x = 0 /\ Wrapped(s).y = s.y + 1
<1>1. /\ s = [cells |-> s.cells, x |-> s.x, y |-> s.y]
      /\ s.cells \in [Memory -> Cell] /\ s.x \in Int /\ s.y \in Int
  BY DEF ScreenState
<1>2. CASE s.x >= W
  <2> DEFINE down == s.y + 1
  <2>1. down \in Int
    BY <1>1
  <2>2. Wrapped(s) = [s EXCEPT !.x = 0, !.y = down]
    BY <1>2 DEF Wrapped
  <2>3. s.y + 1 = down
    OBVIOUS
  <2> HIDE DEF down
  <2>4. Wrapped(s) = [cells |-> s.cells, x |-> 0, y |-> down]
    BY <2>2, <1>1
  <2>5. Wrapped(s) \in ScreenState
    BY <2>1, <2>4, <1>1 DEF ScreenState
  <2> QED
    BY <2>3, <2>4, <2>5, <1>1, <1>2, ScreenSizes
<1>3. CASE ~(s.x >= W)
  BY <1>3, <1>1, ScreenSizes DEF Wrapped
<1> QED
  BY <1>2, <1>3

LEMMA ScrollForms ==
  ASSUME NEW s \in ScreenState, s.y \in 0 .. H + 1, attrib \in Attribs
  PROVE  LET r == scroll(s) IN
         /\ r \in ScreenState /\ r.x = s.x
         /\ r.y = IF s.y < H THEN s.y ELSE H - 1
         /\ s.y < H => r = s
         /\ \A i \in Memory \ ScreenCells : r.cells[i] = s.cells[i]
         /\ s.y = H => \A i \in ScreenCells :
              r.cells[i] = IF i < W * (H - 1) THEN s.cells[i + W]
                           ELSE [ch |-> BLANK, at |-> attrib]
<1>1. /\ s = [cells |-> s.cells, x |-> s.x, y |-> s.y]
      /\ s.cells \in [Memory -> Cell] /\ s.x \in Int /\ s.y \in Int
  BY DEF ScreenState
<1>2. CASE s.y < H
  BY <1>1, <1>2, ScreenSizes DEF scroll
<1>3. CASE ~(s.y < H)
  <2> DEFINE temp == s.y - H + 1
             new == [i \in Memory |->
                       IF i \in 0 .. W * (H - temp) - 1 THEN s.cells[i + temp * W]
                       ELSE IF i \in W * (H - temp) .. W * (H - temp) + W - 1
                       THEN [ch |-> BLANK, at |-> attrib] ELSE s.cells[i]]
  <2>1. scroll(s) = [s EXCEPT !.y = H - 1, !.cells = new]
    BY <1>3 DEF scroll
  <2>2. /\ temp \in {1, 2} /\ temp \in Nat /\ (s.y = H => temp = 1)
        /\ W * (H - temp) = W * H - temp * W /\ temp * W \in Nat /\ temp * W <= 2 * W
        /\ temp * W >= W /\ (temp = 1 => temp * W = W)
    <3>1. CASE s.y = H
      <4>1. temp = 1
        BY <3>1, ScreenSizes
      <4> QED
        BY <4>1, <3>1, ScreenSizes
    <3>2. CASE s.y = H + 1
      <4>1. temp = 2
        BY <3>2, ScreenSizes
      <4> QED
        BY <4>1, <3>2, ScreenSizes
    <3>3. s.y = H \/ s.y = H + 1
      <4>1. s.y \in 0 .. H + 1 /\ H \in Nat
        BY ScreenSizes
      <4> QED
        BY <4>1, <1>3
    <3> QED
      BY <3>1, <3>2, <3>3
  <2> HIDE DEF temp
  <2> DEFINE tw == temp * W
             top == W * (H - temp)
  <2>30. tw \in Nat /\ tw <= 2 * W /\ tw >= W /\ top = W * H - tw /\ (s.y = H => tw = W)
    BY <2>2
  <2>4. new = [i \in Memory |-> IF i \in 0 .. top - 1 THEN s.cells[i + tw]
                                ELSE IF i \in top .. top + W - 1
                                THEN [ch |-> BLANK, at |-> attrib] ELSE s.cells[i]]
    OBVIOUS
  <2>5. [ch |-> BLANK, at |-> attrib] \in Cell
    BY DEF Cell, Bytes
  <2> HIDE DEF tw, top, new
  <2>3. tw \in Nat /\ tw <= 2 * W /\ tw >= W /\ top = W * H - tw /\ top \in Nat /\ (s.y = H => tw = W)
    BY <2>30, ScreenSizes
  <2>6. \A i \in Memory : i \in 0 .. top - 1 => i + tw \in Memory
    BY <2>3, ScreenSizes DEF Memory
  <2>7. new \in [Memory -> Cell]
    BY <2>4, <2>5, <2>6, <1>1
  <2>8. scroll(s) = [cells |-> new, x |-> s.x, y |-> H - 1]
    BY <2>1, <1>1
  <2>9. H - 1 \in Int
    BY ScreenSizes
  <2>10. \A i \in Memory \ ScreenCells : new[i] = s.cells[i]
    <3> SUFFICES ASSUME NEW i \in Memory \ ScreenCells PROVE new[i] = s.cells[i]
      OBVIOUS
    <3>1. i \in Int /\ ~(0 <= i /\ i <= W * H - 1)
      BY ScreenSizes DEF Memory, ScreenCells
    <3>2. i \notin 0 .. top - 1 /\ i \notin top .. top + W - 1
      BY <3>1, <2>3, ScreenSizes
    <3> QED
      BY <3>2, <2>4
  <2>11. ASSUME s.y = H, NEW i \in ScreenCells
         PROVE  new[i] = IF i < W * (H - 1) THEN s.cells[i + W]
                         ELSE [ch |-> BLANK, at |-> attrib]
    <3>1. i \in Memory /\ i \in Int /\ 0 <= i /\ i <= W * H - 1
      BY CellNames, ScreenSizes DEF ScreenCells
    <3>2. tw = W /\ top = W * (H - 1) /\ top + W = W * H
      BY <2>3, <2>11, ScreenSizes
    <3>3. (i \in 0 .. top - 1 <=> i < W * (H - 1)) /\ (i < top \/ i \in top .. top + W - 1)
      BY <3>1, <3>2, <2>3, ScreenSizes
    <3> QED
      BY <2>4, <3>1, <3>2, <3>3
  <2>12. ~(s.y < H)
    BY <1>3
  <2>13. scroll(s) \in ScreenState
    BY <2>7, <2>8, <2>9, <1>1 DEF ScreenState
  <2> QED
    BY <2>8, <2>10, <2>11, <2>12, <2>13
<1> QED
  BY <1>2, <1>3

\* Wherever the cursor is left by an interrupted vga_putchar, a whole one
\* brings it back onto the screen and writes at most the cell it was at.
LEMMA PutBounds ==
  ASSUME NEW s \in ScreenState, NEW c \in Bytes, attrib \in Attribs,
         s.y \in 0 .. H, s.x <= W, s.y = H => s.x < W
  PROVE  LET r == vga_putchar(s, c) IN
         /\ r \in ScreenState /\ r.y \in 0 .. H - 1 /\ r.x < W
         /\ s.x >= 0 => r.x >= 0
         /\ \A i \in Memory \ ScreenCells :
              r.cells[i] = s.cells[i] \/ i = s.y * W + s.x
<1> DEFINE m == Moved(s, c)
           w == Wrapped(m)
           r == scroll(w)
<1>0. /\ s.cells \in [Memory -> Cell] /\ s.x \in Int /\ s.y \in Int
  BY DEF ScreenState
<1>1. /\ m \in ScreenState
      /\ m.y = IF c = "nl" THEN s.y + 1 ELSE s.y
      /\ c = "nl" => m.x = 0
      /\ s.x >= 0 => m.x >= 0
      /\ ~Prints(c) => m.cells = s.cells
      /\ Prints(c) => m.cells = [s.cells EXCEPT ![s.y * W + s.x] = [ch |-> c, at |-> attrib]]
  BY MovedBounds
<1>2. m.x \in Int /\ m.y \in Int
  BY <1>1 DEF ScreenState
<1>3. \A i \in Memory : m.cells[i] = s.cells[i] \/ i = s.y * W + s.x
  BY <1>0, <1>1
<1> HIDE DEF m
<1>4. /\ w \in ScreenState /\ w.cells = m.cells
      /\ m.x < W => w = m
      /\ m.x >= W => w.x = 0 /\ w.y = m.y + 1
  BY <1>1, WrappedForms
<1>5. w.x \in Int /\ w.y \in 0 .. H + 1 /\ w.x < W /\ (s.x >= 0 => w.x >= 0)
  <2>1. CASE m.x < W
    BY <2>1, <1>0, <1>1, <1>2, <1>4, ScreenSizes
  <2>2. CASE m.x >= W
    <3>1. m.y = s.y /\ w.x = 0 /\ w.y = s.y + 1
      BY <2>2, <1>0, <1>1, <1>2, <1>4, ScreenSizes
    <3> QED
      BY <3>1, <1>0, ScreenSizes
  <2> QED
    BY <2>1, <2>2, <1>2, ScreenSizes
<1> HIDE DEF w
<1>6. /\ r \in ScreenState /\ r.x = w.x
      /\ r.y = IF w.y < H THEN w.y ELSE H - 1
      /\ \A i \in Memory \ ScreenCells : r.cells[i] = w.cells[i]
  BY <1>4, <1>5, ScrollForms
<1>7. r.y \in 0 .. H - 1
  BY <1>5, <1>6, ScreenSizes
<1>8. vga_putchar(s, c) = r
  BY DEF vga_putchar, w, m
<1> HIDE DEF r
<1> QED
  BY <1>3, <1>4, <1>5, <1>6, <1>7, <1>8

\* Where the cell of a cursor lies that is at most one row below the screen or
\* one column beside it.
LEMMA CellBounds ==
  ASSUME NEW y \in 0 .. H, NEW x \in Int, x <= W, y = H => x < W
  PROVE  /\ y * W + x \in Int /\ y * W + x <= W * (H + 1)
         /\ x >= 0 => y * W + x >= 0
         /\ y < H /\ x < W => y * W + x <= W * H - 1
<1>1. CASE y = H
  <2>1. y * W = W * H
    BY <1>1, ScreenSizes
  <2> QED
    BY <2>1, <1>1, ScreenSizes
<1>2. CASE y # H
  <2>1. y \in 0 .. H - 1
    BY <1>2, ScreenSizes
  <2>2. y * W \in Nat /\ y * W <= W * H - W
    BY <2>1, RowFits
  <2> QED
    BY <2>2, ScreenSizes
<1> QED
  BY <1>1, <1>2

\* The same for the three characters that echo a backspace.
LEMMA EchoBounds ==
  ASSUME NEW s \in ScreenState, NEW c \in Bytes, attrib \in Attribs,
         s.y \in 0 .. H, s.x <= W, s.y = H => s.x < W
  PROVE  LET r == Each(vga_putchar, s, Echo(c)) IN
         /\ r \in ScreenState /\ r.y \in 0 .. H - 1 /\ r.x < W
         /\ s.x >= 0 => r.x >= 0
         /\ \A i \in Memory \ ScreenCells :
              r.cells[i] # s.cells[i] =>
                \/ i < 0 /\ s.x < 0
                \/ i = s.y * W + s.x
<1> DEFINE r == Each(vga_putchar, s, Echo(c))
<1>1. CASE c # "bs"
  <2>1. r = vga_putchar(s, c)
    <3>1. Echo(c) = <<c>>
      BY <1>1 DEF Echo
    <3> QED
      BY <3>1 DEF Each
  <2> HIDE DEF r
  <2>2. /\ r \in ScreenState /\ r.y \in 0 .. H - 1 /\ r.x < W
        /\ s.x >= 0 => r.x >= 0
        /\ \A i \in Memory \ ScreenCells :
             r.cells[i] = s.cells[i] \/ i = s.y * W + s.x
    BY <2>1, PutBounds
  <2> QED
    BY <2>2 DEF r
<1>2. CASE c = "bs"
  <2> DEFINE a == vga_putchar(s, "bs")
             b == vga_putchar(a, BLANK)
             d == vga_putchar(b, "bs")
  <2>0. "bs" \in Bytes /\ BLANK \in Bytes
    BY DEF Bytes, Controls
  <2>1. r = d
    <3>1. Echo(c) = <<"bs", BLANK, "bs">>
      BY <1>2 DEF Echo
    <3> QED
      BY <3>1 DEF Each
  <2>2. /\ a \in ScreenState /\ a.y \in 0 .. H - 1 /\ a.x < W
        /\ s.x >= 0 => a.x >= 0
        /\ \A i \in Memory \ ScreenCells :
             a.cells[i] = s.cells[i] \/ i = s.y * W + s.x
    BY <2>0, PutBounds
  <2> HIDE DEF a
  <2>3. a.y \in 0 .. H /\ a.x \in Int /\ a.x <= W /\ a.y # H /\ a.y < H
    BY <2>2, ScreenSizes DEF ScreenState
  <2>4. /\ b \in ScreenState /\ b.y \in 0 .. H - 1 /\ b.x < W
        /\ a.x >= 0 => b.x >= 0
        /\ \A i \in Memory \ ScreenCells :
             b.cells[i] = a.cells[i] \/ i = a.y * W + a.x
    BY <2>0, <2>2, <2>3, PutBounds
  <2> HIDE DEF b
  <2>5. b.y \in 0 .. H /\ b.x \in Int /\ b.x <= W /\ b.y # H /\ b.y < H
    BY <2>4, ScreenSizes DEF ScreenState
  <2>6. /\ d \in ScreenState /\ d.y \in 0 .. H - 1 /\ d.x < W
        /\ b.x >= 0 => d.x >= 0
        /\ \A i \in Memory \ ScreenCells :
             d.cells[i] = b.cells[i] \/ i = b.y * W + b.x
    BY <2>0, <2>4, <2>5, PutBounds
  <2> HIDE DEF d
  <2>7. s.x \in Int /\ d.x \in Int
    BY <2>6 DEF ScreenState
  <2>8. ASSUME NEW i \in Memory \ ScreenCells, d.cells[i] # s.cells[i]
        PROVE  (i < 0 /\ s.x < 0) \/ i = s.y * W + s.x
    <3>1. i \in Int /\ ~(0 <= i /\ i <= W * H - 1)
      BY ScreenSizes DEF Memory, ScreenCells
    <3>2. CASE i = a.y * W + a.x
      <4>1. i <= W * H - 1 /\ (a.x >= 0 => i >= 0)
        BY <3>2, <2>2, <2>3, CellBounds
      <4> QED
        BY <4>1, <3>1, <2>2, <2>3, <2>7, ScreenSizes
    <3>3. CASE i = b.y * W + b.x
      <4>1. i <= W * H - 1 /\ (b.x >= 0 => i >= 0)
        BY <3>3, <2>4, <2>5, CellBounds
      <4> QED
        BY <4>1, <3>1, <2>2, <2>3, <2>4, <2>5, <2>7, ScreenSizes
    <3> QED
      BY <3>2, <3>3, <2>2, <2>4, <2>6, <2>8
  <2>9. s.x >= 0 => d.x >= 0
    BY <2>2, <2>4, <2>6, <2>3, <2>5, <2>7
  <2> HIDE DEF r
  <2> QED
    BY <2>1, <2>6, <2>8, <2>9 DEF r
<1> QED
  BY <1>1, <1>2

-----------------------------------------------------------------------------
(* The roll of paper.                                                      *)

PaperOK(p) ==
  /\ p = [y |-> p.y, x |-> p.x, sheet |-> p.sheet]
  /\ p.x \in 0 .. W - 1 /\ p.y \in Nat
  /\ p.sheet = [q \in DOMAIN p.sheet |-> p.sheet[q]]
  /\ DOMAIN p.sheet \subseteq (0 .. p.y) \X (0 .. W - 1)

LEMMA NoPaperOK == PaperOK(NoPaper)
<1>1. NoPaper.x = 0 /\ NoPaper.y = 0 /\ NoPaper.sheet = [q \in {} |-> BLANK]
  BY DEF NoPaper
<1>2. DOMAIN NoPaper.sheet = {}
  BY <1>1
<1>3. NoPaper.sheet = [q \in DOMAIN NoPaper.sheet |-> NoPaper.sheet[q]]
  BY <1>1, <1>2
<1>4. NoPaper = [y |-> NoPaper.y, x |-> NoPaper.x, sheet |-> NoPaper.sheet]
  BY DEF NoPaper
<1> QED
  BY <1>1, <1>2, <1>3, <1>4, ScreenSizes DEF PaperOK

\* The paper's cursor moves as the screen's does.
LEMMA TypeForms ==
  ASSUME NEW p, PaperOK(p), NEW c \in Bytes, attrib \in Attribs,
         NEW s \in ScreenState, s.x = p.x
  PROVE  LET n == Type(p, c)
             m == Moved(s, c)
         IN /\ n.y = IF c = "nl" \/ m.x >= W THEN p.y + 1 ELSE p.y
            /\ n.x = IF m.x >= W THEN 0 ELSE m.x
            /\ ~Prints(c) => n.sheet = p.sheet
            /\ Prints(c) => n.sheet = [q \in DOMAIN p.sheet \cup {<<p.y, p.x>>} |->
                                        IF q = <<p.y, p.x>> THEN c ELSE p.sheet[q]]
            /\ PaperOK(n)
<1> DEFINE n == Type(p, c)
           m == Moved(s, c)
           next == CASE c = "bs" -> IF p.x > 0 THEN p.x - 1 ELSE 0
                     [] c = "tab" -> p.x + TabStop - (p.x % TabStop)
                     [] c \in {"cr", "nl"} -> 0
                     [] c \in Silent -> p.x
                     [] OTHER -> p.x + 1
           sheet == IF c \in Controls \cup Silent THEN p.sheet
                    ELSE [q \in DOMAIN p.sheet \cup {<<p.y, p.x>>} |->
                            IF q = <<p.y, p.x>> THEN c ELSE p.sheet[q]]
<1>0. p.x \in Int /\ 0 <= p.x /\ p.x < W /\ p.y \in Nat
  BY ScreenSizes DEF PaperOK
<1>a. s.x = p.x
  OBVIOUS
<1>1. n = [y |-> IF c = "nl" \/ next >= W THEN p.y + 1 ELSE p.y,
           x |-> IF next >= W THEN 0 ELSE next, sheet |-> sheet]
  BY DEF Type
<1>2. m.x \in Int /\ (s.x >= 0 => m.x >= 0)
  BY MovedBounds DEF ScreenState
<1>3. m.x = next
  <2>1. CASE c = "bs"
    <3>1. m.x = IF s.x # 0 THEN s.x - 1 ELSE s.x
      BY <2>1, MovedBounds
    <3>2. next = IF p.x > 0 THEN p.x - 1 ELSE 0
      BY <2>1 DEF Silent
    <3> QED
      BY <3>1, <3>2, <1>0, <1>a
  <2>2. CASE c = "tab"
    <3>1. m.x = (s.x \div TabStop + 1) * TabStop
      BY <2>2, MovedBounds
    <3>2. next = p.x + TabStop - (p.x % TabStop)
      BY <2>2 DEF Silent
    <3> QED
      BY <3>1, <3>2, <1>0, <1>a, TabFits
  <2>3. CASE c = "cr" \/ c = "nl"
    <3>1. m.x = 0
      BY <2>3, MovedBounds
    <3>2. next = 0
      BY <2>3 DEF Silent
    <3> QED
      BY <3>1, <3>2
  <2>4. CASE c \in Silent
    <3>1. m = s
      BY <2>4, MovedForms
    <3>2. next = p.x
      BY <2>4 DEF Silent
    <3> QED
      BY <3>1, <3>2
  <2>5. CASE Prints(c)
    <3>1. m.x = s.x + 1
      BY <2>5, MovedBounds
    <3>2. next = p.x + 1
      BY <2>5 DEF Silent, Prints, Controls
    <3> QED
      BY <3>1, <3>2, <1>a
  <2> QED
    BY <2>1, <2>2, <2>3, <2>4, <2>5 DEF Prints, Controls
<1>4. next \in Int /\ next >= 0
  BY <1>0, <1>2, <1>3
<1> HIDE DEF next, m
<1>5. /\ n.y = IF c = "nl" \/ next >= W THEN p.y + 1 ELSE p.y
      /\ n.x = IF next >= W THEN 0 ELSE next
      /\ n.sheet = sheet
      /\ n = [y |-> n.y, x |-> n.x, sheet |-> n.sheet]
  BY <1>1
<1> HIDE DEF n
<1>6. n.y \in Nat /\ n.y >= p.y /\ n.x \in 0 .. W - 1
  BY <1>0, <1>4, <1>5, ScreenSizes
<1>7. /\ sheet = [q \in DOMAIN sheet |-> sheet[q]]
      /\ DOMAIN sheet \subseteq (0 .. p.y) \X (0 .. W - 1)
  <2>1. <<p.y, p.x>> \in (0 .. p.y) \X (0 .. W - 1)
    BY <1>0, ScreenSizes
  <2>2. CASE c \in Controls \cup Silent
    BY <2>2 DEF PaperOK
  <2>3. CASE c \notin Controls \cup Silent
    <3>1. sheet = [q \in DOMAIN p.sheet \cup {<<p.y, p.x>>} |->
                            IF q = <<p.y, p.x>> THEN c ELSE p.sheet[q]]
      BY <2>3
    <3>2. DOMAIN sheet = DOMAIN p.sheet \cup {<<p.y, p.x>>}
      BY <3>1
    <3>3. sheet = [q \in DOMAIN sheet |-> sheet[q]]
      BY <3>1, <3>2
    <3>4. DOMAIN p.sheet \subseteq (0 .. p.y) \X (0 .. W - 1)
      BY DEF PaperOK
    <3> QED
      BY <3>2, <3>3, <3>4, <2>1
  <2> QED
    BY <2>2, <2>3
<1>8. (0 .. p.y) \X (0 .. W - 1) \subseteq (0 .. n.y) \X (0 .. W - 1)
  <2>1. 0 .. p.y \subseteq 0 .. n.y
    BY <1>0, <1>6
  <2> QED
    BY <2>1
<1>9. PaperOK(n)
  BY <1>5, <1>6, <1>7, <1>8 DEF PaperOK
<1> QED
  BY <1>3, <1>5, <1>9 DEF Prints, n, m

-----------------------------------------------------------------------------
(* Types.                                                                  *)

Pcs == {"idle", "back test", "back", "back store", "tab", "x store", "return",
        "newline", "down", "y store", "row", "column", "cell", "right", "edge",
        "scroll", "move", "14", "hi", "15", "lo"}
Puts == [pc : Pcs, c : Bytes, att : Attribs, at : Int, temp : Int]

ConTypes ==
  /\ cells \in [Memory -> Cell] /\ attrib \in Attribs
  /\ csr_x \in Int /\ csr_y \in 0 .. H
  /\ crtc \in [index : {14, 15}, hi : Int, lo : Int]
  /\ put \in Puts
  /\ greeting \in Seq(Bytes)
  /\ races \subseteq {"echo", "slip", "mixed"}
  /\ PaperOK(paper)

LEMMA ScreenTyped ==
  ASSUME ConTypes
  PROVE  Screen \in ScreenState /\ Screen.x = csr_x /\ Screen.y = csr_y /\ Screen.cells = cells
<1>1. csr_y \in Int
  BY ScreenSizes DEF ConTypes
<1> QED
  BY <1>1 DEF ConTypes, Screen, ScreenState

LEMMA PaperTyped ==
  ASSUME ConTypes, NEW p, PaperOK(p), NEW c \in Bytes
  PROVE  PaperOK(Type(p, c))
<1> DEFINE s == [cells |-> cells, x |-> p.x, y |-> 0]
<1>1. s \in ScreenState /\ s.x = p.x /\ attrib \in Attribs
  BY ScreenSizes DEF ConTypes, ScreenState, PaperOK
<1> HIDE DEF s
<1> QED
  BY <1>1, TypeForms

LEMMA EchoPaperTyped ==
  ASSUME ConTypes, NEW c \in Bytes
  PROVE  PaperOK(Each(Type, paper, Echo(c)))
<1>1. "bs" \in Bytes /\ BLANK \in Bytes
  BY DEF Bytes, Controls
<1>2. PaperOK(paper)
  BY DEF ConTypes
<1>3. CASE c = "bs"
  <2> DEFINE a == Type(paper, "bs")
             b == Type(a, BLANK)
             d == Type(b, "bs")
  <2>1. Echo(c) = <<"bs", BLANK, "bs">>
    BY <1>3 DEF Echo
  <2>2. Each(Type, paper, Echo(c)) = d
    BY <2>1 DEF Each
  <2>3. PaperOK(a)
    BY <1>1, <1>2, PaperTyped
  <2> HIDE DEF a
  <2>4. PaperOK(b)
    BY <1>1, <2>3, PaperTyped
  <2> HIDE DEF b
  <2>5. PaperOK(d)
    BY <1>1, <2>4, PaperTyped
  <2> QED
    BY <2>2, <2>5
<1>4. CASE c # "bs"
  <2>1. Each(Type, paper, Echo(c)) = Type(paper, c)
    <3>1. Echo(c) = <<c>>
      BY <1>4 DEF Echo
    <3> QED
      BY <3>1 DEF Each
  <2> QED
    BY <1>2, <2>1, PaperTyped
<1> QED
  BY <1>3, <1>4

LEMMA CrtcTyped ==
  ASSUME NEW x \in Int, NEW y \in Int
  PROVE  CrtcAt(x, y) \in [index : {14, 15}, hi : Int, lo : Int]
<1>1. y * W + x \in Int
  BY ScreenSizes
<1>2. (y * W + x) \div W \in Int /\ (y * W + x) % W \in Int
  <2> DEFINE at == y * W + x
  <2>1. at \in Int
    BY <1>1
  <2> HIDE DEF at
  <2>2. at \div W \in Int /\ at % W \in 0 .. W - 1
    BY <2>1, ScreenSizes, Divided
  <2>3. 0 .. W - 1 \subseteq Int
    OBVIOUS
  <2> QED
    BY <2>2, <2>3 DEF at
<1> QED
  BY <1>2 DEF CrtcAt

LEMMA ColorsTyped == DARK_GREY \in 0 .. LastColor /\ WHITE \in 0 .. LastColor /\ 0 \in 0 .. LastColor
<1>1. LastColor \in Nat \ {0}
  BY ScreenAssumption DEF ScreenAssumption
<1> QED
  BY <1>1 DEF DARK_GREY, WHITE

LEMMA NoPutTyped == NoPut \in Puts /\ NoPut.pc = "idle"
<1>1. <<0, 0>> \in Attribs
  BY ColorsTyped DEF Attribs
<1> QED
  BY <1>1 DEF NoPut, Puts, Pcs, Bytes

LEMMA ScreenTypesInit == ConInit => ConTypes
<1> SUFFICES ASSUME ConInit PROVE ConTypes
  OBVIOUS
<1>1. attrib \in Attribs
  BY ColorsTyped DEF ConInit, Attribs
<1>2. cells \in [Memory -> Cell]
  BY <1>1 DEF ConInit, Cell, Bytes
<1>3. csr_x \in Int /\ csr_y \in 0 .. H
  BY ScreenSizes DEF ConInit
<1>4. crtc \in [index : {14, 15}, hi : Int, lo : Int]
  BY CrtcTyped DEF ConInit
<1>5. put \in Puts
  BY NoPutTyped DEF ConInit
<1>6. greeting \in Seq(Bytes)
  <2>1. \A t \in Texts : t \in Seq(Printable \cup {" ", "bs", "tab", "cr", "nl"})
    BY ScreenAssumption DEF ScreenAssumption
  <2>2. Printable \cup {" ", "bs", "tab", "cr", "nl"} \subseteq Bytes
    BY DEF Bytes, BLANK, Controls
  <2>3. ASSUME NEW t \in Texts PROVE t \in Seq(Bytes)
    <3>1. t \in Seq(Printable \cup {" ", "bs", "tab", "cr", "nl"})
      BY <2>1
    <3> QED
      BY <2>2, <3>1, SeqMonotonic
  <2> QED
    BY <2>3 DEF ConInit
<1> QED
  BY <1>1, <1>2, <1>3, <1>4, <1>5, <1>6, NoPaperOK DEF ConTypes, ConInit

-----------------------------------------------------------------------------
(* Where the cursor and the registers of vga_putchar may be.  A row or a   *)
(* column is one too far only until the next test; only a slipped          *)
(* backspace makes a column negative.                                      *)

RowInv ==
  /\ csr_y = H => put.pc = "scroll"
  /\ put.pc = "y store" => put.temp \in 0 .. H
  /\ put.pc = "column" => \E y \in 0 .. H - 1 : put.at = y * W
ColumnInv ==
  /\ csr_x <= W /\ (csr_x = W => put.pc \in {"edge", "newline"})
  /\ put.pc = "back store" => put.temp < W
  /\ put.pc = "x store" => put.temp <= W
  /\ put.pc = "cell" => put.at <= W * H - 1
SlipInv ==
  /\ "slip" \in races => "echo" \in races
  /\ "slip" \notin races =>
       /\ csr_x >= 0 /\ (put.pc = "back" => csr_x > 0)
       /\ put.pc \in {"back store", "x store"} => put.temp >= 0
       /\ put.pc = "cell" => put.at >= 0
OutsideInv ==
  \A i \in Memory \ ScreenCells :
    cells[i].ch # "out" => /\ "echo" \in races
                           /\ i < 0 => "slip" \in races
                           /\ i <= W * (H + 1)
GreetInv == greeting # <<>> => put.pc = "idle"

Bounded == ConTypes /\ RowInv /\ ColumnInv /\ SlipInv /\ OutsideInv /\ GreetInv

LEMMA BoundedInit == ConInit => Bounded
<1> SUFFICES ASSUME ConInit PROVE Bounded
  OBVIOUS
<1>1. put.pc = "idle" /\ csr_x = 0 /\ csr_y = 0 /\ races = {}
  BY DEF ConInit, NoPut
<1>2. OutsideInv
  BY DEF ConInit, OutsideInv
<1> QED
  BY <1>1, <1>2, ScreenTypesInit, ScreenSizes DEF Bounded, RowInv, ColumnInv, SlipInv, GreetInv

LEMMA BoundedIsBounded == Bounded => CursorBounded
<1> SUFFICES ASSUME Bounded PROVE CursorBounded
  OBVIOUS
<1>1. csr_y \in 0 .. H /\ csr_x \in Int /\ csr_y \in Int
  BY ScreenSizes DEF Bounded, ConTypes
<1>2. put.pc = "idle" => csr_y < H /\ csr_x < W
  BY <1>1, ScreenSizes DEF Bounded, RowInv, ColumnInv
<1>3. csr_x < 0 => "slip" \in races
  <2>1. "slip" \notin races => csr_x >= 0
    BY DEF Bounded, SlipInv
  <2> QED
    BY <1>1, <2>1
<1>4. OutsideInv
  BY DEF Bounded
<1> QED
  BY <1>1, <1>2, <1>3, <1>4 DEF CursorBounded, OutsideInv

\* What the fields of put and the cursor are.
LEMMA PutFields ==
  ASSUME Bounded
  PROVE  /\ put = [pc |-> put.pc, c |-> put.c, att |-> put.att, at |-> put.at, temp |-> put.temp]
         /\ put.pc \in Pcs /\ put.c \in Bytes /\ put.att \in Attribs
         /\ put.at \in Int /\ put.temp \in Int
         /\ csr_x \in Int /\ csr_y \in Int /\ 0 <= csr_y /\ csr_y <= H
BY ScreenSizes DEF Bounded, ConTypes, Puts

\* Where the mainline holds nothing that it has read.
Steady(label) == label \notin {"back", "back store", "x store", "y store", "column", "cell"}

\* A step that only moves the mainline on.
LEMMA BoundedKept ==
  ASSUME Bounded, put' \in Puts, UNCHANGED <<cells, cursor, greeting, races, attrib>>,
         crtc' \in [index : {14, 15}, hi : Int, lo : Int], PaperOK(paper'),
         greeting # <<>> => put'.pc = "idle",
         csr_y < H, csr_x < W,
         Steady(put'.pc)
  PROVE  Bounded'
<1>1. ConTypes'
  BY ScreenSizes DEF Bounded, ConTypes, cursor
<1>2. csr_x' = csr_x /\ csr_y' = csr_y /\ csr_x \in Int /\ csr_y \in Int
  BY PutFields DEF cursor
<1>3. RowInv' /\ ColumnInv'
  <2>1. csr_x \in Int /\ csr_y \in Int
    BY PutFields
  <2>2. csr_y # H /\ csr_x # W /\ csr_x <= W
    BY <2>1, Dimensions
  <2> QED
    BY <1>2, <2>2 DEF RowInv, ColumnInv, Steady
<1>6. races' = races /\ SlipInv
  BY DEF Bounded
<1>7. SlipInv'
  BY <1>2, <1>6 DEF SlipInv, Steady
<1>4. OutsideInv'
  BY DEF Bounded, OutsideInv
<1>5. GreetInv'
  BY DEF Bounded, GreetInv
<1> QED
  BY <1>1, <1>3, <1>4, <1>5, <1>7 DEF Bounded

LEMMA Inside ==
  ASSUME Bounded
  PROVE  /\ put.pc # "scroll" => csr_y \in 0 .. H - 1 /\ csr_y < H
         /\ put.pc \notin {"edge", "newline"} => csr_x < W
         /\ csr_x <= W
<1>1. csr_x \in Int /\ csr_y \in Int /\ 0 <= csr_y /\ csr_y <= H
  BY PutFields
<1>2. csr_x <= W /\ (csr_x = W => put.pc \in {"edge", "newline"}) /\ (csr_y = H => put.pc = "scroll")
  BY DEF Bounded, RowInv, ColumnInv
<1> QED
  BY <1>1, <1>2, Dimensions

LEMMA OnScreen ==
  ASSUME Bounded, put.pc \notin {"edge", "newline", "scroll"}
  PROVE  /\ csr_x \in Int /\ csr_x # W /\ csr_x <= W /\ csr_x < W
         /\ csr_y \in 0 .. H - 1 /\ csr_y # H /\ csr_y < H
<1>1. csr_x \in Int /\ csr_y \in Int
  BY PutFields
<1>2. csr_x < W /\ csr_y \in 0 .. H - 1
  BY Inside
<1> QED
  BY <1>1, <1>2, Dimensions

LEMMA GoFields ==
  ASSUME Bounded, NEW p \in Pcs, Go(p)
  PROVE  /\ put' \in Puts /\ put'.pc = p /\ put'.c = put.c /\ put'.att = put.att
         /\ put'.at = put.at /\ put'.temp = put.temp
BY DEF Bounded, ConTypes, Puts, Go

LEMMA GoWithFields ==
  ASSUME Bounded, NEW p \in Pcs, NEW t \in Int, GoWith(p, t)
  PROVE  /\ put' \in Puts /\ put'.pc = p /\ put'.c = put.c /\ put'.att = put.att
         /\ put'.at = put.at /\ put'.temp = t
BY DEF Bounded, ConTypes, Puts, GoWith

LEMMA MoveKeeps ==
  ASSUME Bounded, UNCHANGED <<cells, greeting, races, attrib, crtc, paper>>,
         put' \in Puts, csr_x' \in Int, csr_y' \in 0 .. H,
         RowInv', ColumnInv', SlipInv', put.pc # "idle"
  PROVE  Bounded'
<1>1. ConTypes'
  BY DEF Bounded, ConTypes
<1>2. OutsideInv' /\ GreetInv'
  BY DEF Bounded, OutsideInv, GreetInv
<1> QED
  BY <1>1, <1>2 DEF Bounded

LEMMA BoundedCursor == Bounded /\ CursorStep /\ UNCHANGED greeting => Bounded'
<1> SUFFICES ASSUME Bounded, CursorStep, UNCHANGED greeting PROVE Bounded'
  OBVIOUS
<1>1. UNCHANGED <<cells, greeting, races, attrib, crtc, paper>>
  BY DEF CursorStep, History
<1>2. csr_x \in Int /\ csr_y \in Int /\ csr_y \in 0 .. H /\ put.temp \in Int /\ put.at \in Int
  BY PutFields, Dimensions
<1>3. csr_x = csr_x' /\ csr_y' = csr_y => csr_x' \in Int /\ csr_y' \in 0 .. H
  BY <1>2
<1>4. SlipInv /\ races' = races
  BY <1>1 DEF Bounded
<1>5. CASE BackTest
  <2>1. put.pc = "back test" /\ csr_x' = csr_x /\ csr_y' = csr_y
    BY <1>5 DEF BackTest, cursor
  <2>2. csr_y # H /\ csr_x # W /\ csr_x <= W
    BY <2>1, OnScreen
  <2>3. CASE csr_x # 0
    <3>1. Go("back")
      BY <1>5, <2>3 DEF BackTest
    <3>2. put' \in Puts /\ put'.pc = "back"
      BY <3>1, GoFields DEF Pcs
    <3>3. "slip" \notin races => csr_x > 0 /\ csr_x >= 0
      <4>1. "slip" \notin races => csr_x >= 0
        BY <1>4 DEF SlipInv
      <4> QED
        BY <4>1, <2>3, <1>2
    <3>4. RowInv' /\ ColumnInv' /\ SlipInv'
      BY <1>4, <2>1, <2>2, <3>2, <3>3 DEF RowInv, ColumnInv, SlipInv
    <3> QED
      BY <1>1, <1>3, <2>1, <3>2, <3>4, MoveKeeps
  <2>4. CASE csr_x = 0
    <3>1. Go("edge")
      BY <1>5, <2>4 DEF BackTest
    <3>2. put' \in Puts /\ put'.pc = "edge"
      BY <3>1, GoFields DEF Pcs
    <3>3. RowInv' /\ ColumnInv' /\ SlipInv'
      BY <1>4, <2>1, <2>2, <3>2 DEF RowInv, ColumnInv, SlipInv
    <3> QED
      BY <1>1, <1>3, <2>1, <3>2, <3>3, MoveKeeps
  <2> QED
    BY <2>3, <2>4
<1>6. CASE Back
  <2> DEFINE t == csr_x - 1
  <2>1. put.pc = "back" /\ csr_x' = csr_x /\ csr_y' = csr_y /\ GoWith("back store", t)
    BY <1>6 DEF Back, cursor
  <2>2. csr_y # H /\ csr_x # W /\ csr_x <= W /\ t \in Int /\ t < W
    <3>1. csr_y # H /\ csr_x # W /\ csr_x <= W
      BY <2>1, OnScreen
    <3> QED
      BY <1>2, <3>1, Dimensions
  <2>3. "slip" \notin races => csr_x >= 0 /\ t >= 0
    <3>1. "slip" \notin races => csr_x > 0
      BY <1>4, <2>1 DEF SlipInv
    <3> QED
      BY <1>2, <3>1
  <2> HIDE DEF t
  <2>4. put' \in Puts /\ put'.pc = "back store" /\ put'.temp = t
    BY <2>1, <2>2, GoWithFields DEF Pcs
  <2>5. RowInv' /\ ColumnInv' /\ SlipInv'
    BY <1>4, <2>1, <2>2, <2>3, <2>4 DEF RowInv, ColumnInv, SlipInv
  <2> QED
    BY <1>1, <1>3, <2>1, <2>4, <2>5, MoveKeeps
<1>7. CASE BackStore \/ XStore
  <2>1. /\ put.pc = "back store" \/ put.pc = "x store"
        /\ csr_x' = put.temp /\ csr_y' = csr_y /\ Go("edge")
    BY <1>7 DEF BackStore, XStore
  <2>2. csr_y # H /\ put.temp <= W
    <3>1. put.temp < W \/ put.temp <= W
      BY <2>1 DEF Bounded, ColumnInv
    <3>2. csr_y < H
      BY <2>1, Inside
    <3> QED
      BY <1>2, <3>1, <3>2, Dimensions
  <2>3. "slip" \notin races => put.temp >= 0
    BY <1>4, <2>1 DEF SlipInv
  <2>4. put' \in Puts /\ put'.pc = "edge"
    BY <2>1, GoFields DEF Pcs
  <2>5. RowInv' /\ ColumnInv' /\ SlipInv'
    BY <1>4, <2>1, <2>2, <2>3, <2>4 DEF RowInv, ColumnInv, SlipInv
  <2>6. csr_x' \in Int /\ csr_y' \in 0 .. H /\ put.pc # "idle"
    BY <1>2, <2>1
  <2> QED
    BY <1>1, <2>4, <2>5, <2>6, MoveKeeps
<1>8. CASE Tab
  <2> DEFINE t == (csr_x \div TabStop + 1) * TabStop
  <2>1. put.pc = "tab" /\ csr_x' = csr_x /\ csr_y' = csr_y /\ GoWith("x store", t)
    BY <1>8 DEF Tab, cursor
  <2>2. t \in Int /\ t > csr_x /\ (csr_x < W => t <= W)
    BY <1>2, TabFits
  <2> HIDE DEF t
  <2>3. csr_y # H /\ csr_x # W /\ csr_x <= W /\ t <= W
    BY <2>1, <2>2, OnScreen
  <2>4. "slip" \notin races => csr_x >= 0 /\ t >= 0
    <3>1. "slip" \notin races => csr_x >= 0
      BY <1>4 DEF SlipInv
    <3> QED
      BY <1>2, <2>2, <3>1
  <2>5. put' \in Puts /\ put'.pc = "x store" /\ put'.temp = t
    BY <2>1, <2>2, GoWithFields DEF Pcs
  <2>6. RowInv' /\ ColumnInv' /\ SlipInv'
    BY <1>4, <2>1, <2>3, <2>4, <2>5 DEF RowInv, ColumnInv, SlipInv
  <2> QED
    BY <1>1, <1>3, <2>1, <2>5, <2>6, MoveKeeps
<1>9. CASE Right
  <2> DEFINE t == csr_x + 1
  <2>1. put.pc = "right" /\ csr_x' = csr_x /\ csr_y' = csr_y /\ GoWith("x store", t)
    BY <1>9 DEF Right, cursor
  <2>2. csr_y # H /\ csr_x # W /\ csr_x <= W /\ t \in Int /\ t <= W
    <3>1. csr_y # H /\ csr_x # W /\ csr_x < W /\ csr_x <= W
      BY <2>1, OnScreen
    <3> QED
      BY <1>2, <3>1, Dimensions
  <2>3. "slip" \notin races => csr_x >= 0 /\ t >= 0
    <3>1. "slip" \notin races => csr_x >= 0
      BY <1>4 DEF SlipInv
    <3> QED
      BY <1>2, <3>1
  <2> HIDE DEF t
  <2>4. put' \in Puts /\ put'.pc = "x store" /\ put'.temp = t
    BY <2>1, <2>2, GoWithFields DEF Pcs
  <2>5. RowInv' /\ ColumnInv' /\ SlipInv'
    BY <1>4, <2>1, <2>2, <2>3, <2>4 DEF RowInv, ColumnInv, SlipInv
  <2> QED
    BY <1>1, <1>3, <2>1, <2>4, <2>5, MoveKeeps
<1>10. CASE CarriageReturn \/ Newline
  <2>1. /\ put.pc = "return" \/ put.pc = "newline"
        /\ csr_x' = 0 /\ csr_y' = csr_y /\ (Go("edge") \/ Go("down"))
    BY <1>10 DEF CarriageReturn, Newline
  <2>2. csr_y # H
    BY <1>2, <2>1, Inside, Dimensions
  <2>3. put' \in Puts /\ (put'.pc = "edge" \/ put'.pc = "down")
    BY <2>1, GoFields DEF Pcs
  <2>4. RowInv' /\ ColumnInv' /\ SlipInv'
    <3>1. csr_x' # W /\ csr_x' <= W /\ csr_x' >= 0
      BY <2>1, Dimensions
    <3> QED
      BY <1>4, <2>1, <2>2, <2>3, <3>1 DEF RowInv, ColumnInv, SlipInv
  <2>5. csr_x' \in Int /\ csr_y' \in 0 .. H /\ put.pc # "idle"
    BY <1>2, <2>1
  <2> QED
    BY <1>1, <2>3, <2>4, <2>5, MoveKeeps
<1>11. CASE Down
  <2> DEFINE t == csr_y + 1
  <2>1. put.pc = "down" /\ csr_x' = csr_x /\ csr_y' = csr_y /\ GoWith("y store", t)
    BY <1>11 DEF Down, cursor
  <2>2. csr_y # H /\ csr_x # W /\ csr_x <= W /\ t \in 0 .. H /\ t \in Int
    <3>1. csr_y # H /\ csr_x # W /\ csr_x <= W /\ csr_y \in 0 .. H - 1
      BY <2>1, OnScreen
    <3> QED
      BY <3>1, Dimensions
  <2> HIDE DEF t
  <2>3. put' \in Puts /\ put'.pc = "y store" /\ put'.temp = t
    BY <2>1, <2>2, GoWithFields DEF Pcs
  <2>4. RowInv' /\ ColumnInv' /\ SlipInv'
    BY <1>4, <2>1, <2>2, <2>3 DEF RowInv, ColumnInv, SlipInv
  <2> QED
    BY <1>1, <1>3, <2>1, <2>3, <2>4, MoveKeeps
<1>12. CASE YStore
  <2>1. put.pc = "y store" /\ csr_x' = csr_x /\ csr_y' = put.temp /\ Go("scroll")
    BY <1>12 DEF YStore
  <2>2. csr_x # W /\ csr_x <= W /\ put.temp \in 0 .. H
    <3>1. put.temp \in 0 .. H
      BY <2>1 DEF Bounded, RowInv
    <3> QED
      BY <2>1, <3>1, OnScreen
  <2>3. put' \in Puts /\ put'.pc = "scroll"
    BY <2>1, GoFields DEF Pcs
  <2>4. RowInv' /\ ColumnInv' /\ SlipInv'
    BY <1>4, <2>1, <2>2, <2>3 DEF RowInv, ColumnInv, SlipInv
  <2>5. csr_x' \in Int /\ csr_y' \in 0 .. H /\ put.pc # "idle"
    BY <1>2, <2>1, <2>2
  <2> QED
    BY <1>1, <2>3, <2>4, <2>5, MoveKeeps
<1>13. CASE Row
  <2>1. /\ put.pc = "row" /\ csr_x' = csr_x /\ csr_y' = csr_y
        /\ put' = [put EXCEPT !.pc = "column", !.at = csr_y * W]
    BY <1>13 DEF Row, cursor
  <2>2. csr_y # H /\ csr_x # W /\ csr_x <= W /\ csr_y \in 0 .. H - 1
    BY <2>1, OnScreen
  <2> DEFINE a == csr_y * W
  <2>3. a \in Int /\ a = csr_y * W
    BY <2>2, RowFits
  <2> HIDE DEF a
  <2>4. put' = [put EXCEPT !.pc = "column", !.at = a]
    BY <2>1 DEF a
  <2>5. put' \in Puts /\ put'.pc = "column" /\ put'.at = a
    BY <2>3, <2>4 DEF Bounded, ConTypes, Puts, Pcs
  <2>6. \E y \in 0 .. H - 1 : put'.at = y * W
    BY <2>2, <2>3, <2>5
  <2>7. RowInv' /\ ColumnInv' /\ SlipInv'
    BY <1>4, <2>1, <2>2, <2>5, <2>6 DEF RowInv, ColumnInv, SlipInv
  <2> QED
    BY <1>1, <1>3, <2>1, <2>5, <2>7, MoveKeeps
<1>14. CASE Column
  <2>1. /\ put.pc = "column" /\ csr_x' = csr_x /\ csr_y' = csr_y
        /\ put' = [put EXCEPT !.pc = "cell", !.at = put.at + csr_x]
    BY <1>14 DEF Column, cursor
  <2>2. csr_y # H /\ csr_x # W /\ csr_x <= W /\ csr_x < W
    BY <2>1, OnScreen
  <2>3. PICK y \in 0 .. H - 1 : put.at = y * W
    BY <2>1 DEF Bounded, RowInv
  <2> DEFINE a == put.at + csr_x
  <2>4. /\ put.at \in Nat /\ put.at <= W * H - W
    BY <2>3, RowFits
  <2>5. a \in Int /\ a <= W * H - 1 /\ (csr_x >= 0 => a >= 0)
    BY <1>2, <2>2, <2>4, ScreenSizes
  <2> HIDE DEF a
  <2>6. put' = [put EXCEPT !.pc = "cell", !.at = a]
    BY <2>1 DEF a
  <2>7. put' \in Puts /\ put'.pc = "cell" /\ put'.at = a
    BY <2>5, <2>6 DEF Bounded, ConTypes, Puts, Pcs
  <2>8. "slip" \notin races => csr_x >= 0 /\ a >= 0
    <3>1. "slip" \notin races => csr_x >= 0
      BY <1>4 DEF SlipInv
    <3> QED
      BY <2>5, <3>1
  <2>9. RowInv' /\ ColumnInv' /\ SlipInv'
    BY <1>4, <2>1, <2>2, <2>5, <2>7, <2>8 DEF RowInv, ColumnInv, SlipInv
  <2> QED
    BY <1>1, <1>3, <2>1, <2>7, <2>9, MoveKeeps
<1>15. CASE Edge
  <2>1. put.pc = "edge" /\ csr_x' = csr_x /\ csr_y' = csr_y
    BY <1>15 DEF Edge, cursor
  <2>2. csr_y # H /\ csr_x <= W
    BY <1>2, <2>1, Inside, Dimensions
  <2>3. CASE csr_x >= W
    <3>1. Go("newline")
      BY <1>15, <2>3 DEF Edge
    <3>2. put' \in Puts /\ put'.pc = "newline"
      BY <3>1, GoFields DEF Pcs
    <3>3. RowInv' /\ ColumnInv' /\ SlipInv'
      BY <1>4, <2>1, <2>2, <3>2 DEF RowInv, ColumnInv, SlipInv
    <3> QED
      BY <1>1, <1>3, <2>1, <3>2, <3>3, MoveKeeps
  <2>4. CASE ~(csr_x >= W)
    <3>1. Go("scroll")
      BY <1>15, <2>4 DEF Edge
    <3>2. put' \in Puts /\ put'.pc = "scroll"
      BY <3>1, GoFields DEF Pcs
    <3>3. csr_x # W
      BY <1>2, <2>4, Dimensions
    <3>4. RowInv' /\ ColumnInv' /\ SlipInv'
      BY <1>4, <2>1, <2>2, <3>2, <3>3 DEF RowInv, ColumnInv, SlipInv
    <3> QED
      BY <1>1, <1>3, <2>1, <3>2, <3>4, MoveKeeps
  <2> QED
    BY <2>3, <2>4
<1>16. CASE Move
  <2> DEFINE t == csr_y * W + csr_x
  <2>1. put.pc = "move" /\ csr_x' = csr_x /\ csr_y' = csr_y /\ GoWith("14", t)
    BY <1>16 DEF Move, cursor
  <2>2. t \in Int
    BY <1>2, Dimensions
  <2>3. csr_y # H /\ csr_x # W /\ csr_x <= W
    BY <2>1, OnScreen
  <2> HIDE DEF t
  <2>4. put' \in Puts /\ put'.pc = "14" /\ put'.temp = t
    BY <2>1, <2>2, GoWithFields DEF Pcs
  <2>5. RowInv' /\ ColumnInv' /\ SlipInv'
    BY <1>4, <2>1, <2>3, <2>4 DEF RowInv, ColumnInv, SlipInv
  <2> QED
    BY <1>1, <1>3, <2>1, <2>4, <2>5, MoveKeeps
<1> QED
  BY <1>5, <1>6, <1>7, <1>8, <1>9, <1>10, <1>11, <1>12, <1>13, <1>14, <1>15, <1>16 DEF CursorStep

LEMMA BoundedWrite == Bounded /\ Write /\ UNCHANGED greeting => Bounded'
<1> SUFFICES ASSUME Bounded, Write, UNCHANGED greeting PROVE Bounded'
  OBVIOUS
<1> DEFINE cell == [ch |-> put.c, at |-> put.att]
<1>1. /\ put.pc = "cell" /\ Go("right") /\ cells' = [cells EXCEPT ![put.at] = cell]
      /\ UNCHANGED <<attrib, csr_x, csr_y, crtc, paper, races, greeting>>
  BY DEF Write, cursor, History
<1>2. put' \in Puts /\ put'.pc = "right"
  BY <1>1, GoFields DEF Pcs
<1>3. cell \in Cell
  BY PutFields DEF Cell
<1> HIDE DEF cell
<1>4. cells' \in [Memory -> Cell]
  BY <1>1, <1>3 DEF Bounded, ConTypes
<1>5. ConTypes'
  BY <1>1, <1>2, <1>4 DEF Bounded, ConTypes
<1>6. csr_x # W /\ csr_x <= W /\ csr_y # H
  BY <1>1, OnScreen
<1>7. SlipInv /\ races' = races
  BY <1>1 DEF Bounded
<1>8. RowInv' /\ ColumnInv' /\ SlipInv' /\ GreetInv'
  BY <1>1, <1>2, <1>6, <1>7 DEF Bounded, RowInv, ColumnInv, SlipInv, GreetInv
<1>9. OutsideInv'
  <2> SUFFICES ASSUME NEW i \in Memory \ ScreenCells, cells'[i].ch # "out"
               PROVE  "echo" \in races /\ (i < 0 => "slip" \in races) /\ i <= W * (H + 1)
    BY <1>1 DEF OutsideInv
  <2>1. CASE i = put.at
    <3>1. put.at \in Int /\ put.at <= W * H - 1
      BY <1>1, PutFields DEF Bounded, ColumnInv
    <3>2. ~(0 <= i /\ i <= W * H - 1)
      BY <2>1, <3>1, ScreenSizes DEF ScreenCells
    <3>3. i < 0
      BY <2>1, <3>1, <3>2
    <3>4. "slip" \in races /\ "echo" \in races
      BY <1>1, <1>7, <2>1, <3>1, <3>3 DEF SlipInv
    <3> QED
      BY <2>1, <3>1, <3>4, ScreenSizes
  <2>2. CASE i # put.at
    <3>1. cells'[i] = cells[i]
      BY <1>1, <2>2 DEF Bounded, ConTypes
    <3> QED
      BY <3>1 DEF Bounded, OutsideInv
  <2> QED
    BY <2>1, <2>2
<1> QED
  BY <1>5, <1>8, <1>9 DEF Bounded

LEMMA BoundedScroll == Bounded /\ Scroll /\ UNCHANGED greeting => Bounded'
<1> SUFFICES ASSUME Bounded, Scroll, UNCHANGED greeting PROVE Bounded'
  OBVIOUS
<1> DEFINE r == scroll(Screen)
<1>1. /\ put.pc = "scroll" /\ Go("move") /\ Show(r)
      /\ UNCHANGED <<attrib, crtc, paper, races, greeting>>
  BY DEF Scroll, History
<1>2. put' \in Puts /\ put'.pc = "move"
  BY <1>1, GoFields DEF Pcs
<1>3. Screen \in ScreenState /\ Screen.x = csr_x /\ Screen.y = csr_y /\ Screen.cells = cells
  BY ScreenTyped DEF Bounded
<1>4. csr_x \in Int /\ csr_x # W /\ csr_x <= W /\ csr_y \in 0 .. H + 1 /\ csr_y \in Int
  <2>1. csr_x # W /\ csr_x <= W
    BY <1>1 DEF Bounded, ColumnInv
  <2> QED
    BY <2>1, PutFields, Dimensions
<1>5. attrib \in Attribs
  BY DEF Bounded, ConTypes
<1>6. /\ r \in ScreenState /\ r.x = csr_x
      /\ r.y = IF csr_y < H THEN csr_y ELSE H - 1
      /\ \A i \in Memory \ ScreenCells : r.cells[i] = cells[i]
  BY <1>3, <1>4, <1>5, ScrollForms
<1> HIDE DEF r
<1>7. r.cells \in [Memory -> Cell] /\ r.y \in 0 .. H /\ r.y # H
  BY <1>4, <1>6, Dimensions DEF ScreenState
<1>8. cells' = r.cells /\ csr_x' = csr_x /\ csr_y' = r.y
  BY <1>1, <1>6 DEF Show
<1>9. ConTypes'
  BY <1>1, <1>2, <1>4, <1>7, <1>8 DEF Bounded, ConTypes
<1>10. SlipInv /\ races' = races
  BY <1>1 DEF Bounded
<1>11. RowInv' /\ ColumnInv' /\ SlipInv' /\ GreetInv'
  BY <1>1, <1>2, <1>4, <1>7, <1>8, <1>10 DEF Bounded, RowInv, ColumnInv, SlipInv, GreetInv
<1>12. OutsideInv'
  BY <1>1, <1>6, <1>8 DEF Bounded, OutsideInv
<1> QED
  BY <1>9, <1>11, <1>12 DEF Bounded

LEMMA BoundedCrtc == Bounded /\ move_csr /\ UNCHANGED greeting => Bounded'
<1> SUFFICES ASSUME Bounded, move_csr, UNCHANGED greeting PROVE Bounded'
  OBVIOUS
<1>1. UNCHANGED <<cells, cursor, greeting, races, attrib>>
  BY DEF move_csr, History
<1>2. /\ crtc \in [index : {14, 15}, hi : Int, lo : Int] /\ PaperOK(paper) /\ put.temp \in Int
      /\ put.c \in Bytes
  BY PutFields DEF Bounded, ConTypes
<1>3. put.temp \div W \in Int /\ put.temp % W \in Int
  <2>1. put.temp \div W \in Int /\ put.temp % W \in 0 .. W - 1
    BY <1>2, Dimensions, Divided
  <2> QED
    BY <2>1
<1>4. ASSUME NEW a \in Pcs, NEW d \in {14, 15}, NEW n \in Pcs, Steady(n), a \notin {"idle", "edge", "newline", "scroll"},
             Select(a, d, n)
      PROVE  Bounded'
  <2>1. put.pc = a /\ Go(n) /\ crtc' = [crtc EXCEPT !.index = d] /\ paper' = paper
    BY <1>4 DEF Select
  <2>2. put' \in Puts /\ put'.pc = n
    BY <2>1, GoFields
  <2>3. crtc' \in [index : {14, 15}, hi : Int, lo : Int]
    BY <1>2, <2>1
  <2>4. csr_y < H /\ csr_x < W
    BY <1>4, <2>1, OnScreen
  <2>5. greeting = <<>>
    BY <1>4, <2>1 DEF Bounded, GreetInv
  <2> QED
    BY <1>1, <1>2, <1>4, <2>1, <2>2, <2>3, <2>4, <2>5, BoundedKept
<1>5. ASSUME NEW a \in Pcs, NEW b \in Int, NEW n \in Pcs, Steady(n), a \notin {"idle", "edge", "newline", "scroll"},
             PortData(a, b, n)
      PROVE  Bounded'
  <2>1. /\ put.pc = a /\ put' = (IF n = "idle" THEN NoPut ELSE [put EXCEPT !.pc = n])
        /\ paper' = (IF n = "idle" THEN Type(paper, put.c) ELSE paper)
        /\ crtc' = (IF crtc.index = 14 THEN [crtc EXCEPT !.hi = b] ELSE [crtc EXCEPT !.lo = b])
    BY <1>5 DEF PortData
  <2>2. NoPut \in Puts /\ NoPut.pc = "idle"
    BY NoPutTyped
  <2>3. put' \in Puts /\ put'.pc = n
    BY <2>1, <2>2 DEF Bounded, ConTypes, Puts
  <2>4. crtc' \in [index : {14, 15}, hi : Int, lo : Int]
    BY <1>2, <2>1
  <2>5. PaperOK(paper')
    BY <1>2, <2>1, PaperTyped DEF Bounded
  <2>6. csr_y < H /\ csr_x < W
    BY <1>5, <2>1, OnScreen
  <2>7. greeting = <<>>
    BY <1>5, <2>1 DEF Bounded, GreetInv
  <2> QED
    BY <1>1, <1>5, <2>3, <2>4, <2>5, <2>6, <2>7, BoundedKept
<1>6. \/ Select("14", 14, "hi") \/ PortData("hi", put.temp \div W, "15")
      \/ Select("15", 15, "lo") \/ PortData("lo", put.temp % W, "idle")
  BY DEF move_csr
<1> QED
  BY <1>3, <1>4, <1>5, <1>6 DEF Pcs, Steady

LEMMA BoundedBegin ==
  ASSUME Bounded, NEW c \in Bytes, BeginPut(c), greeting = <<>>, UNCHANGED greeting
  PROVE  Bounded'
<1> DEFINE p == CASE c = "bs" -> "back test" [] c = "tab" -> "tab"
                  [] c = "cr" -> "return" [] c = "nl" -> "newline"
                  [] c \in Silent -> "edge" [] OTHER -> "row"
<1>1. /\ put.pc = "idle" /\ put' = [NoPut EXCEPT !.c = c, !.att = attrib, !.pc = p]
      /\ UNCHANGED <<cells, cursor, greeting, races, attrib>> /\ crtc' = crtc /\ paper' = paper
  BY DEF BeginPut
<1>2. p \in {"back test", "tab", "return", "newline", "edge", "row"}
  BY DEF Silent
<1> HIDE DEF p
<1>3. put' \in Puts /\ put'.pc = p
  BY <1>1, <1>2, NoPutTyped DEF Bounded, ConTypes, Puts, Pcs
<1>4. Steady(put'.pc)
  BY <1>2, <1>3 DEF Steady
<1>5. csr_y < H /\ csr_x < W
  BY <1>1, OnScreen
<1>6. crtc' \in [index : {14, 15}, hi : Int, lo : Int] /\ PaperOK(paper')
  BY <1>1 DEF Bounded, ConTypes
<1> QED
  BY <1>1, <1>3, <1>4, <1>5, <1>6, BoundedKept

LEMMA BoundedColors ==
  ASSUME Bounded, NEW bg \in Colors, NEW fg \in Colors, SetColors(bg, fg), UNCHANGED greeting
  PROVE  Bounded'
<1>1. /\ attrib' = lua_vga_setfg(lua_vga_setbg(attrib, bg), fg)
      /\ UNCHANGED <<cells, csr_x, csr_y, crtc, put, paper, races, greeting>>
  BY DEF SetColors, cursor
<1>2. attrib \in Attribs
  BY DEF Bounded, ConTypes
<1>3. lua_vga_setbg(attrib, bg) \in Attribs
  BY <1>2 DEF lua_vga_setbg, vga_setbg, Attribs
<1>4. attrib' \in Attribs
  BY <1>1, <1>3 DEF lua_vga_setfg, vga_setfg, Attribs
<1>5. ConTypes'
  BY <1>1, <1>4 DEF Bounded, ConTypes
<1>6. RowInv' /\ ColumnInv' /\ SlipInv' /\ GreetInv' /\ OutsideInv'
  BY <1>1 DEF Bounded, RowInv, ColumnInv, SlipInv, GreetInv, OutsideInv
<1> QED
  BY <1>5, <1>6 DEF Bounded

LEMMA BoundedCls == Bounded /\ vga_cls /\ UNCHANGED greeting => Bounded'
<1> SUFFICES ASSUME Bounded, vga_cls, UNCHANGED greeting PROVE Bounded'
  OBVIOUS
<1>1. /\ put.pc = "idle" /\ csr_x' = 0 /\ csr_y' = 0 /\ crtc' = CrtcAt(0, 0)
      /\ cells' = [i \in Memory |-> IF i \in ScreenCells THEN [ch |-> BLANK, at |-> attrib]
                                ELSE cells[i]]
      /\ paper' = NoPaper /\ races' = races \ {"mixed"}
      /\ UNCHANGED <<attrib, put, greeting>>
  BY DEF vga_cls
<1>2. [ch |-> BLANK, at |-> attrib] \in Cell
  BY DEF Cell, Bytes, Bounded, ConTypes
<1>3. cells' \in [Memory -> Cell]
  BY <1>1, <1>2 DEF Bounded, ConTypes
<1>4. ConTypes'
  <2>1. CrtcAt(0, 0) \in [index : {14, 15}, hi : Int, lo : Int]
    BY CrtcTyped
  <2>2. 0 \in 0 .. H
    BY Dimensions
  <2> QED
    BY <1>1, <1>3, <2>1, <2>2, NoPaperOK DEF Bounded, ConTypes
<1>5. OutsideInv'
  BY <1>1 DEF Bounded, OutsideInv
<1>6. csr_x' # W /\ csr_x' <= W /\ csr_y' # H /\ csr_x' >= 0
  BY <1>1, Dimensions
<1>7. RowInv' /\ ColumnInv' /\ SlipInv' /\ GreetInv'
  BY <1>1, <1>6 DEF Bounded, RowInv, ColumnInv, SlipInv, GreetInv
<1> QED
  BY <1>4, <1>5, <1>7 DEF Bounded

LEMMA BoundedPrompt == Bounded /\ cli_prompt /\ UNCHANGED greeting => Bounded'
<1> SUFFICES ASSUME Bounded, cli_prompt, UNCHANGED greeting PROVE Bounded'
  OBVIOUS
<1>1. UNCHANGED <<cells, attrib, csr_x, csr_y, crtc, put, paper, races, greeting>>
  BY DEF cli_prompt, cursor
<1> QED
  BY <1>1 DEF Bounded, ConTypes, RowInv, ColumnInv, SlipInv, GreetInv, OutsideInv

\* Whole characters: of kernel_start, and of the keyboard.
LEMMA BoundedGreet == Bounded /\ Greet => Bounded'
<1> SUFFICES ASSUME Bounded, Greet PROVE Bounded'
  OBVIOUS
<1> DEFINE c == Head(greeting)
           r == vga_putchar(Screen, c)
<1>1. /\ greeting # <<>> /\ greeting' = Tail(greeting) /\ Show(r)
      /\ crtc' = CrtcAt(csr_x', csr_y') /\ paper' = Type(paper, c)
      /\ UNCHANGED <<attrib, put, races>>
  BY DEF Greet
<1>2. greeting \in Seq(Bytes) /\ PaperOK(paper) /\ attrib \in Attribs /\ put.pc = "idle"
  BY <1>1 DEF Bounded, ConTypes, GreetInv
<1>3. c \in Bytes /\ greeting' \in Seq(Bytes)
  BY <1>1, <1>2
<1> HIDE DEF c
<1>4. Screen \in ScreenState /\ Screen.x = csr_x /\ Screen.y = csr_y /\ Screen.cells = cells
  BY ScreenTyped DEF Bounded
<1>5. csr_x \in Int /\ csr_x < W /\ csr_x <= W /\ csr_y \in 0 .. H - 1 /\ csr_y < H /\ csr_y # H
  BY <1>2, OnScreen
<1>6. csr_y \in 0 .. H
  BY <1>5, Dimensions
<1>7. /\ r \in ScreenState /\ r.y \in 0 .. H - 1 /\ r.x < W
      /\ csr_x >= 0 => r.x >= 0
      /\ \A i \in Memory \ ScreenCells :
           r.cells[i] = cells[i] \/ i = csr_y * W + csr_x
  BY <1>2, <1>3, <1>4, <1>5, <1>6, PutBounds
<1> HIDE DEF r
<1>8. /\ r.cells \in [Memory -> Cell] /\ r.x \in Int /\ r.y \in 0 .. H /\ r.y \in Int
      /\ r.x # W /\ r.x <= W /\ r.y # H
  BY <1>7, Dimensions DEF ScreenState
<1>9. cells' = r.cells /\ csr_x' = r.x /\ csr_y' = r.y
  BY <1>1 DEF Show
<1>10. ConTypes'
  BY <1>1, <1>2, <1>3, <1>8, <1>9, CrtcTyped, PaperTyped DEF Bounded, ConTypes
<1>11. SlipInv /\ races' = races
  BY <1>1 DEF Bounded
<1>12. "slip" \notin races => r.x >= 0
  BY <1>7, <1>11 DEF SlipInv
<1>13. RowInv' /\ ColumnInv' /\ SlipInv' /\ GreetInv'
  BY <1>1, <1>2, <1>8, <1>9, <1>11, <1>12 DEF RowInv, ColumnInv, SlipInv, GreetInv
<1>14. OutsideInv'
  <2> SUFFICES ASSUME NEW i \in Memory \ ScreenCells, r.cells[i].ch # "out"
               PROVE  "echo" \in races /\ (i < 0 => "slip" \in races) /\ i <= W * (H + 1)
    BY <1>9, <1>11 DEF OutsideInv
  <2>1. CASE i = csr_y * W + csr_x
    <3>1. i <= W * H - 1 /\ (csr_x >= 0 => i >= 0) /\ i \in Int
      BY <2>1, <1>5, <1>6, CellBounds
    <3>2. ~(0 <= i /\ i <= W * H - 1)
      BY <3>1, ScreenSizes DEF ScreenCells
    <3>3. i < 0 /\ csr_x < 0
      BY <3>1, <3>2, <1>5
    <3>4. "slip" \in races /\ "echo" \in races
      <4>1. "slip" \notin races => csr_x >= 0
        BY <1>11 DEF SlipInv
      <4>2. "slip" \in races
        BY <4>1, <3>3, <1>5
      <4> QED
        BY <4>2, <1>11 DEF SlipInv
    <3> QED
      BY <3>1, <3>4, ScreenSizes
  <2>2. CASE i # csr_y * W + csr_x
    <3>1. r.cells[i] = cells[i]
      BY <1>7, <2>2
    <3> QED
      BY <3>1 DEF Bounded, OutsideInv
  <2> QED
    BY <2>1, <2>2
<1> QED
  BY <1>10, <1>13, <1>14 DEF Bounded

LEMMA BoundedKey ==
  ASSUME Bounded, NEW c \in Bytes, keyboard_interrupt(c), greeting = <<>>, UNCHANGED greeting
  PROVE  Bounded'
<1> DEFINE r == Each(vga_putchar, Screen, Echo(c))
<1>1. /\ Show(r) /\ crtc' = CrtcAt(csr_x', csr_y') /\ paper' = Each(Type, paper, Echo(c))
      /\ races' = races \cup (IF put.pc = "idle" THEN {} ELSE {"echo", "mixed"})
                        \cup (IF put.pc \in {"back", "back store"} THEN {"slip"} ELSE {})
      /\ UNCHANGED <<attrib, put, greeting>>
  BY DEF keyboard_interrupt
<1>2. attrib \in Attribs /\ PaperOK(paper')
  BY <1>1, EchoPaperTyped DEF Bounded, ConTypes
<1>3. Screen \in ScreenState /\ Screen.x = csr_x /\ Screen.y = csr_y /\ Screen.cells = cells
  BY ScreenTyped DEF Bounded
<1>4. csr_x \in Int /\ csr_y \in Int /\ csr_y \in 0 .. H /\ csr_x <= W /\ (csr_y = H => csr_x < W)
  <2>1. csr_y = H => put.pc = "scroll"
    BY DEF Bounded, RowInv
  <2> QED
    BY <2>1, PutFields, Inside, Dimensions
<1>5. /\ r \in ScreenState /\ r.y \in 0 .. H - 1 /\ r.x < W
      /\ csr_x >= 0 => r.x >= 0
      /\ \A i \in Memory \ ScreenCells :
           r.cells[i] # cells[i] =>
             \/ i < 0 /\ csr_x < 0
             \/ i = csr_y * W + csr_x
  BY <1>2, <1>3, <1>4, EchoBounds
<1> HIDE DEF r
<1>6. /\ r.cells \in [Memory -> Cell] /\ r.x \in Int /\ r.y \in 0 .. H /\ r.y \in Int
      /\ r.x # W /\ r.x <= W /\ r.y # H
  BY <1>5, Dimensions DEF ScreenState
<1>7. cells' = r.cells /\ csr_x' = r.x /\ csr_y' = r.y
  BY <1>1 DEF Show
<1>8. races' \subseteq {"echo", "slip", "mixed"}
  BY <1>1 DEF Bounded, ConTypes
<1>9. ConTypes'
  BY <1>1, <1>2, <1>6, <1>7, <1>8, CrtcTyped DEF Bounded, ConTypes
<1>10. SlipInv /\ races \subseteq races'
  BY <1>1 DEF Bounded
<1>11. /\ put.pc # "idle" => "echo" \in races'
       /\ put.pc \in {"back", "back store"} => "slip" \in races'
       /\ "slip" \in races' => "echo" \in races'
  BY <1>1, <1>10 DEF SlipInv
<1>12. "slip" \notin races' => r.x >= 0
  BY <1>5, <1>10 DEF SlipInv
<1>13. SlipInv'
  <2> SUFFICES ASSUME "slip" \notin races' PROVE
         /\ csr_x' >= 0 /\ (put.pc = "back" => csr_x' > 0)
         /\ put.pc \in {"back store", "x store"} => put.temp >= 0
         /\ put.pc = "cell" => put.at >= 0
    BY <1>1, <1>11 DEF SlipInv
  <2>1. put.pc \notin {"back", "back store"} /\ "slip" \notin races
    BY <1>10, <1>11
  <2> QED
    BY <2>1, <1>7, <1>10, <1>12 DEF SlipInv
<1>14. RowInv' /\ ColumnInv' /\ GreetInv'
  BY <1>1, <1>6, <1>7 DEF Bounded, RowInv, ColumnInv, GreetInv
<1>15. OutsideInv'
  <2> SUFFICES ASSUME NEW i \in Memory \ ScreenCells, r.cells[i].ch # "out"
               PROVE  "echo" \in races' /\ (i < 0 => "slip" \in races') /\ i <= W * (H + 1)
    BY <1>7 DEF OutsideInv
  <2>0. i \in Int /\ ~(0 <= i /\ i <= W * H - 1)
    BY ScreenSizes DEF ScreenCells, Memory
  <2>1. csr_x < 0 => "slip" \in races' /\ "echo" \in races'
    <3> SUFFICES ASSUME csr_x < 0 PROVE "slip" \in races
      BY <1>10, <1>11
    <3>1. "slip" \notin races => csr_x >= 0
      BY <1>10 DEF SlipInv
    <3> QED
      BY <3>1, <1>4
  <2>2. CASE i = csr_y * W + csr_x
    <3>1. /\ i <= W * (H + 1) /\ (csr_x >= 0 => i >= 0)
          /\ csr_y < H /\ csr_x < W => i <= W * H - 1
      BY <2>2, <1>4, CellBounds
    <3>2. i < 0 => csr_x < 0
      BY <3>1, <2>0, <1>4
    <3>3. CASE put.pc = "idle"
      <4>1. csr_y < H /\ csr_x < W
        BY <3>3, OnScreen
      <4>2. i < 0
        BY <4>1, <3>1, <2>0
      <4> QED
        BY <4>2, <3>1, <3>2, <2>1
    <3>4. CASE put.pc # "idle"
      BY <3>4, <3>1, <3>2, <1>11, <2>1
    <3> QED
      BY <3>3, <3>4
  <2>3. CASE i < 0 /\ csr_x < 0
    <3>1. W * (H + 1) >= 0
      BY ScreenSizes
    <3> QED
      BY <2>3, <2>0, <2>1, <3>1, ScreenSizes
  <2>4. CASE r.cells[i] = cells[i]
    <3>1. "echo" \in races /\ (i < 0 => "slip" \in races) /\ i <= W * (H + 1)
      BY <2>4 DEF Bounded, OutsideInv
    <3> QED
      BY <3>1, <1>10
  <2> QED
    BY <1>5, <2>2, <2>3, <2>4
<1> QED
  BY <1>9, <1>13, <1>14, <1>15 DEF Bounded

-----------------------------------------------------------------------------
(* temp_screen.                                                            *)

LEMMA Least ==
  ASSUME NEW T, T \subseteq Nat, T # {}
  PROVE  Min(T) \in T /\ \A n \in T : Min(T) <= n
<1> DEFINE R == OpToRel(<, Nat)
<1>1. R = {ss \in Nat \X Nat : ss[1] < ss[2]}
  BY DEF OpToRel
<1>2. IsWellFoundedOn(R, Nat)
  BY NatLessThanWellFounded
<1> HIDE DEF R
<1>3. PICK m \in T : \A n \in T : ~(<<n, m>> \in R)
  BY <1>2, WFMin
<1>4. \A n \in T : m <= n
  <2> SUFFICES ASSUME NEW n \in T PROVE m <= n
    OBVIOUS
  <2>1. m \in Nat /\ n \in Nat /\ ~(<<n, m>> \in R)
    BY <1>3
  <2>2. ~(n < m)
    BY <2>1, <1>1
  <2> QED
    BY <2>1, <2>2
<1> QED
  BY <1>3, <1>4 DEF Min

LEMMA OneMore ==
  ASSUME NEW S, NEW s \in Seq(S), NEW e \in S
  PROVE  LET t == s \o <<e>> IN
         /\ t \in Seq(S) /\ Len(t) = Len(s) + 1 /\ Len(t) \in Nat
         /\ \A i \in 1 .. Len(s) : t[i] = s[i]
         /\ t[Len(s) + 1] = e
<1> DEFINE one == <<e>>
           t == s \o one
<1>1. one \in Seq(S) /\ Len(one) = 1 /\ one[1] = e
  OBVIOUS
<1> HIDE DEF one
<1>2. Len(s) \in Nat
  BY LenProperties
<1>3. t \in Seq(S) /\ Len(t) = Len(s) + Len(one)
  BY <1>1, ConcatProperties
<1>4. \A i \in 1 .. Len(s) + Len(one) : t[i] = IF i <= Len(s) THEN s[i] ELSE one[i - Len(s)]
  BY <1>1, ConcatProperties
<1> HIDE DEF t
<1>5. \A i \in 1 .. Len(s) : i \in 1 .. Len(s) + Len(one) /\ i <= Len(s)
  BY <1>1, <1>2
<1>6. Len(s) + 1 \in 1 .. Len(s) + Len(one) /\ ~(Len(s) + 1 <= Len(s)) /\ Len(s) + 1 - Len(s) = 1
  BY <1>1, <1>2
<1>7. t[Len(s) + 1] = e
  BY <1>1, <1>4, <1>6
<1>8. \A i \in 1 .. Len(s) : t[i] = s[i]
  BY <1>4, <1>5
<1>9. Len(t) = Len(s) + 1 /\ Len(t) \in Nat
  BY <1>1, <1>2, <1>3
<1> QED
  BY <1>3, <1>7, <1>8, <1>9 DEF t, one

\* The string of lua_vga_getdata: the screen, and what the heap has behind it,
\* up to the first NUL.
LEMMA DataRead ==
  ASSUME Bounded, NEW junk \in Seq(Bytes)
  PROVE  LET d == lua_vga_getdata(junk) IN
         /\ Len(d.chars) \in Nat
         /\ \A i \in 1 .. Len(d.chars) : d.chars[i] \in Bytes \cup {"out"}
         /\ \A i \in 1 .. W * H : d.color[i] = cells[i - 1].at
         /\ \A i \in 1 .. W * H :
              i <= Len(d.chars) => /\ d.chars[i] = cells[i - 1].ch
                                   /\ \A j \in 1 .. i : cells[j - 1].ch # "nul"
         /\ \A i \in 1 .. W * H :
              (\A j \in 1 .. i : cells[j - 1].ch # "nul") => i <= Len(d.chars)
         /\ \A i \in Nat : i > W * H /\ i <= Len(d.chars) =>
              \A j \in 1 .. W * H : cells[j - 1].ch # "nul"
<1> DEFINE n == W * H
           Chars == Bytes \cup {"out"}
           shown == [i \in 1 .. n |-> cells[i - 1].ch]
           front == shown \o junk
           all == front \o <<"nul">>
           Nuls == {i \in 1 .. Len(all) : all[i] = "nul"}
           d == lua_vga_getdata(junk)
<1>1. n \in Nat
  BY ScreenSizes
<1>2. \A i \in 1 .. n : cells[i - 1] \in Cell
  <2> SUFFICES ASSUME NEW i \in 1 .. n PROVE cells[i - 1] \in Cell
    OBVIOUS
  <2>1. i - 1 \in Memory
    BY <1>1, ScreenSizes DEF Memory
  <2> QED
    BY <2>1 DEF Bounded, ConTypes
<1>3. shown \in Seq(Chars) /\ Len(shown) = n
  <2> HIDE DEF n
  <2>1. shown \in [1 .. n -> Chars]
    BY <1>2 DEF Cell
  <2> QED
    BY <1>1, <2>1, LenProperties
<1>4. junk \in Seq(Chars) /\ <<"nul">> \in Seq(Chars) /\ Len(<<"nul">>) = 1
  <2>1. "nul" \in Chars
    BY DEF Bytes, Silent
  <2>2. junk \in Seq(Chars)
    BY SeqMonotonic
  <2> QED
    BY <2>1, <2>2
<1> HIDE DEF shown
<1>5. /\ front \in Seq(Chars) /\ Len(front) \in Nat /\ Len(front) = n + Len(junk) /\ Len(junk) \in Nat
      /\ \A i \in 1 .. n : front[i] = shown[i]
  <2> HIDE DEF n, Chars
  <2>1. Len(junk) \in Nat
    BY LenProperties
  <2>2. /\ front \in Seq(Chars) /\ Len(front) = Len(shown) + Len(junk)
        /\ \A i \in 1 .. Len(shown) + Len(junk) :
             front[i] = IF i <= Len(shown) THEN shown[i] ELSE junk[i - Len(shown)]
    BY <1>3, <1>4, ConcatProperties
  <2> HIDE DEF front
  <2>3. \A i \in 1 .. n : i \in 1 .. n + Len(junk) /\ i <= n
    BY <1>1, <2>1
  <2>4. \A i \in 1 .. n : front[i] = shown[i]
    BY <1>3, <2>2, <2>3
  <2> QED
    BY <1>1, <1>3, <2>1, <2>2, <2>4
<1> HIDE DEF front
<1>6. /\ all \in Seq(Chars) /\ Len(all) = Len(front) + 1 /\ Len(all) \in Nat
      /\ \A i \in 1 .. Len(front) : all[i] = front[i]
      /\ all[Len(front) + 1] = "nul"
  <2> HIDE DEF Chars
  <2>2. all = front \o <<"nul">>
    OBVIOUS
  <2> HIDE DEF all
  <2>3. "nul" \in Chars
    BY DEF Chars, Bytes, Silent
  <2> QED
    BY <1>5, <2>2, <2>3, OneMore
<1> HIDE DEF all
<1>7. \A i \in 1 .. n : all[i] = cells[i - 1].ch
  <2>1. \A i \in 1 .. n : i \in 1 .. Len(front)
    BY <1>1, <1>5
  <2> QED
    BY <1>5, <1>6, <2>1 DEF shown
<1>8. Nuls \subseteq Nat /\ Nuls # {}
  <2>1. Len(front) + 1 \in Nuls
    BY <1>5, <1>6
  <2> QED
    BY <2>1
<1> DEFINE m == Min(Nuls)
<1>9. m \in Nuls /\ \A i \in Nuls : m <= i
  BY <1>8, Least
<1>10. d.chars = SubSeq(all, 1, m - 1) /\ d.color = [i \in 1 .. n |-> cells[i - 1].at]
  <2>1. SelectInSeq(all, LAMBDA c : c = "nul") = m
    BY <1>8 DEF SelectInSeq
  <2>2. d = [chars |-> SubSeq(all, 1, m - 1), color |-> [i \in 1 .. n |-> cells[i - 1].at]]
    BY <2>1 DEF lua_vga_getdata, all, front, shown
  <2> DEFINE cs == SubSeq(all, 1, m - 1)
             cols == [i \in 1 .. n |-> cells[i - 1].at]
  <2> HIDE DEF d, cs, cols
  <2>3. d = [chars |-> cs, color |-> cols]
    BY <2>2 DEF cs, cols
  <2>4. d.chars = cs /\ d.color = cols
    BY <2>3
  <2> QED
    BY <2>4 DEF cs, cols
<1>11. m \in 1 .. Len(all) /\ all[m] = "nul"
  BY <1>9
<1>12. \A i \in 1 .. m - 1 : all[i] # "nul"
  <2> SUFFICES ASSUME NEW i \in 1 .. m - 1, all[i] = "nul" PROVE FALSE
    OBVIOUS
  <2> HIDE DEF m
  <2>1. i \in Int /\ i < m /\ i \in 1 .. Len(all)
    BY <1>6, <1>11
  <2>2. i \in Nuls
    BY <2>1
  <2> QED
    BY <1>6, <1>9, <1>11, <2>1, <2>2
<1> HIDE DEF m, Nuls
<1>13. m - 1 \in Nat /\ m - 1 <= Len(all) /\ m \in Nat
  BY <1>6, <1>11
<1> DEFINE l == m - 1
<1>14. /\ Len(SubSeq(all, 1, l)) = l
       /\ \A i \in 1 .. l : SubSeq(all, 1, l)[i] = all[i]
  <2> HIDE DEF l, Chars
  <2>1. l \in Nat /\ l <= Len(all)
    BY <1>13 DEF l
  <2>2. 1 .. l \subseteq 1 .. Len(all)
    BY <1>6, <2>1
  <2> QED
    BY <1>6, <2>1, <2>2, SubSeqProperties
<1>15. Len(d.chars) = l /\ \A i \in 1 .. l : d.chars[i] = all[i]
  BY <1>10, <1>14
<1> HIDE DEF l, d
<1>16. l \in Nat /\ l <= Len(all) /\ \A i \in 1 .. l : all[i] # "nul" /\ i \in 1 .. Len(all)
  BY <1>6, <1>12, <1>13 DEF l
<1>17. \A i \in 1 .. Len(all) : all[i] \in Chars
  BY <1>6, ElementOfSeq
<1>18. ASSUME NEW i \in 1 .. n, \A j \in 1 .. i : cells[j - 1].ch # "nul"
       PROVE  i <= l
  <2> SUFFICES ASSUME i > l PROVE FALSE
    BY <1>1, <1>16
  <2>1. m \in 1 .. i /\ m \in 1 .. n
    BY <1>1, <1>13, <1>11, <1>18 DEF l
  <2>2. all[m] = cells[m - 1].ch
    BY <1>7, <2>1
  <2> QED
    BY <1>11, <1>18, <2>1, <2>2
<1> HIDE DEF n
<1>19. ASSUME NEW i \in Nat, i <= l, NEW j \in 1 .. n, j <= i
       PROVE  cells[j - 1].ch # "nul"
  <2>1. j \in 1 .. l
    BY <1>1, <1>16, <1>19
  <2> QED
    BY <1>7, <1>16, <2>1
<1>20. /\ Len(d.chars) \in Nat
       /\ \A i \in 1 .. Len(d.chars) : d.chars[i] \in Chars
  BY <1>15, <1>16, <1>17
<1>21. \A i \in 1 .. n : d.color[i] = cells[i - 1].at
  BY <1>10
<1>22. ASSUME NEW i \in 1 .. n, i <= Len(d.chars)
       PROVE  d.chars[i] = cells[i - 1].ch /\ \A j \in 1 .. i : cells[j - 1].ch # "nul"
  <2>1. i \in 1 .. l /\ i \in Nat /\ i <= l
    BY <1>1, <1>15, <1>16, <1>22
  <2>2. \A j \in 1 .. i : j \in 1 .. n /\ j <= i
    BY <1>1
  <2> QED
    BY <1>7, <1>15, <1>19, <2>1, <2>2
<1>23. ASSUME NEW i \in Nat, i > n, i <= Len(d.chars), NEW j \in 1 .. n
       PROVE  cells[j - 1].ch # "nul"
  <2>1. i <= l /\ j <= i
    BY <1>1, <1>15, <1>23
  <2> QED
    BY <1>19, <2>1
<1> QED
  BY <1>15, <1>18, <1>20, <1>21, <1>22, <1>23 DEF d, n

LEMMA RestoredBelow ==
  ASSUME NEW k \in ScreenCells
  PROVE  RestoreIndex(k) = k + W + 1 /\ RestoreIndex(k) \in Nat
<1> DEFINE q == k \div W
           r == k % W
<1>1. k \in Nat /\ q \in 0 .. H - 1 /\ r \in 0 .. W - 1 /\ k = q * W + r
  BY PlaceOf
<1>2. RestoreIndex(k) = (q + 1) * W + r + 1
  BY DEF RestoreIndex
<1> HIDE DEF q, r
<1>3. (q + 1) * W = q * W + W /\ q * W \in Int
  BY <1>1, ScreenSizes
<1> QED
  BY <1>1, <1>2, <1>3, ScreenSizes

\* What temp_screen puts into cell k.
LEMMA RestoredCell ==
  ASSUME Bounded, NEW junk \in Seq(Bytes), NEW k \in ScreenCells
  PROVE  LET r == Restored(lua_vga_getdata(junk), k) IN
         /\ r \in Cell
         /\ k + W \in ScreenCells =>
              r = [cells[k + W] EXCEPT
                     !.ch = IF \E j \in 0 .. k + W - 1 : cells[j].ch = "nul" THEN "nul" ELSE @]
         /\ k + W \notin ScreenCells =>
              /\ r.at = <<0, 0>>
              /\ (\E j \in ScreenCells : cells[j].ch = "nul") => r.ch = "nul"
<1> DEFINE d == lua_vga_getdata(junk)
           n == W * H
           i == RestoreIndex(k)
           l == Len(d.chars)
           r == Restored(d, k)
<1>1. /\ l \in Nat
      /\ \A m \in 1 .. l : d.chars[m] \in Bytes \cup {"out"}
      /\ \A m \in 1 .. n : d.color[m] = cells[m - 1].at
      /\ \A m \in 1 .. n :
           m <= l => /\ d.chars[m] = cells[m - 1].ch
                     /\ \A j \in 1 .. m : cells[j - 1].ch # "nul"
      /\ \A m \in 1 .. n : (\A j \in 1 .. m : cells[j - 1].ch # "nul") => m <= l
      /\ \A m \in Nat : m > n /\ m <= l => \A j \in 1 .. n : cells[j - 1].ch # "nul"
  BY DataRead
<1>2. i = k + W + 1 /\ i \in Nat /\ n \in Nat /\ k \in Nat /\ W \in Nat /\ W > 0 /\ k < n
  BY RestoredBelow, ScreenSizes DEF ScreenCells
<1>3. r = [ch |-> IF i <= l THEN d.chars[i] ELSE "nul",
           at |-> IF i <= n THEN d.color[i] ELSE <<0, 0>>]
  BY DEF Restored
<1> HIDE DEF d, i, l
<1>4. r.ch = (IF i <= l THEN d.chars[i] ELSE "nul") /\ r.at = (IF i <= n THEN d.color[i] ELSE <<0, 0>>)
  BY <1>3
<1>5. r = [ch |-> r.ch, at |-> r.at]
  BY <1>3
<1> HIDE DEF r, n
<1>6. r.ch \in Bytes \cup {"out"}
  <2>1. i <= l => i \in 1 .. l
    BY <1>1, <1>2
  <2>2. "nul" \in Bytes
    BY DEF Bytes, Silent
  <2> QED
    BY <1>1, <1>4, <2>1, <2>2
<1>7. ScreenCells = 0 .. n - 1
  BY DEF ScreenCells, n
<1>8. \A j \in ScreenCells : j \in Memory
  BY CellNames
<1>9. CASE k + W \in ScreenCells
  <2>1. i <= n /\ i \in 1 .. n /\ i - 1 = k + W
    BY <1>2, <1>7, <1>9
  <2>2. r.at = cells[k + W].at
    BY <1>1, <1>4, <2>1
  <2>3. cells[k + W] \in Cell
    BY <1>8, <1>9 DEF Bounded, ConTypes
  <2>4. r \in Cell
    BY <1>5, <1>6, <2>2, <2>3 DEF Cell
  <2>5. r.ch = IF \E j \in 0 .. k + W - 1 : cells[j].ch = "nul" THEN "nul" ELSE cells[k + W].ch
    <3>1. CASE i <= l
      <4>1. \A j \in 1 .. i : cells[j - 1].ch # "nul"
        BY <1>1, <2>1, <3>1
      <4>2. ASSUME NEW j \in 0 .. k + W - 1 PROVE cells[j].ch # "nul"
        <5>1. j + 1 \in 1 .. i /\ j + 1 - 1 = j
          BY <1>2
        <5> QED
          BY <4>1, <5>1
      <4>3. r.ch = cells[k + W].ch
        BY <1>1, <1>4, <2>1, <3>1
      <4> QED
        BY <4>2, <4>3
    <3>2. CASE ~(i <= l)
      <4>1. PICK j \in 1 .. i : cells[j - 1].ch = "nul"
        BY <1>1, <2>1, <3>2
      <4>2. j - 1 = k + W \/ j - 1 \in 0 .. k + W - 1
        BY <1>2
      <4>3. r.ch = "nul"
        BY <1>4, <3>2
      <4> QED
        BY <4>1, <4>2, <4>3
    <3> QED
      BY <3>1, <3>2
  <2>6. cells[k + W] = [ch |-> cells[k + W].ch, at |-> cells[k + W].at]
    BY <2>3 DEF Cell
  <2>7. r = [cells[k + W] EXCEPT
               !.ch = IF \E j \in 0 .. k + W - 1 : cells[j].ch = "nul" THEN "nul" ELSE @]
    BY <1>5, <2>2, <2>5, <2>6
  <2> QED
    BY <1>9, <2>4, <2>7 DEF r, d
<1>10. CASE k + W \notin ScreenCells
  <2>1. ~(i <= n) /\ i > n
    BY <1>2, <1>7, <1>10
  <2>2. r.at = <<0, 0>>
    BY <1>4, <2>1
  <2>3. r \in Cell
    BY <1>5, <1>6, <2>2, ColorsTyped DEF Cell, Attribs
  <2>4. ASSUME NEW j \in ScreenCells, cells[j].ch = "nul" PROVE r.ch = "nul"
    <3>1. j + 1 \in 1 .. n /\ j + 1 - 1 = j
      BY <1>2, <1>7
    <3>2. ~(i <= l)
      <4> SUFFICES ASSUME i <= l PROVE FALSE
        OBVIOUS
      <4>1. \A m \in 1 .. n : cells[m - 1].ch # "nul"
        BY <1>1, <1>2, <2>1
      <4> DEFINE m == j + 1
      <4>2. m \in 1 .. n /\ m - 1 = j
        BY <1>2, <1>7
      <4> HIDE DEF m
      <4> QED
        BY <2>4, <4>1, <4>2
    <3> QED
      BY <1>4, <3>2
  <2> QED
    BY <1>10, <2>2, <2>3, <2>4 DEF r, d
<1> QED
  BY <1>9, <1>10

\* What the heap may hold behind the buffer.
Junk == {<<>>, [i \in 1 .. 2 * W |-> CHOOSE c \in Printable : TRUE]}

LEMMA JunkTyped == \A junk \in Junk : junk \in Seq(Bytes)
<1>1. (CHOOSE c \in Printable : TRUE) \in Printable
  <2>1. Printable # {}
    BY ScreenAssumption DEF ScreenAssumption
  <2> QED
    BY <2>1
<1> DEFINE e == CHOOSE c \in Printable : TRUE
           n == 2 * W
<1>2. e \in Bytes /\ n \in Nat
  BY <1>1, ScreenSizes DEF Bytes
<1> HIDE DEF e, n
<1>3. [i \in 1 .. n |-> e] \in Seq(Bytes)
  BY <1>2
<1>4. <<>> \in Seq(Bytes)
  OBVIOUS
<1> QED
  BY <1>3, <1>4 DEF Junk, e, n

LEMMA BoundedTemp == Bounded /\ temp_screen /\ UNCHANGED greeting => Bounded'
<1> SUFFICES ASSUME Bounded, temp_screen, UNCHANGED greeting PROVE Bounded'
  OBVIOUS
<1>1. /\ put.pc = "idle" /\ attrib' = <<DARK_GREY, WHITE>> /\ races' = races \cup {"mixed"}
      /\ UNCHANGED <<csr_x, csr_y, crtc, put, paper, greeting>>
  BY DEF temp_screen, cursor
<1>2. PICK junk \in Junk :
        cells' = [i \in Memory |-> IF i \in ScreenCells
                                   THEN Restored(lua_vga_getdata(junk), i) ELSE cells[i]]
  BY DEF temp_screen, Junk
<1>3. junk \in Seq(Bytes)
  BY JunkTyped
<1>4. \A i \in ScreenCells : Restored(lua_vga_getdata(junk), i) \in Cell
  BY <1>3, RestoredCell
<1>5. cells' \in [Memory -> Cell]
  BY <1>2, <1>4 DEF Bounded, ConTypes
<1>6. attrib' \in Attribs
  BY <1>1, ColorsTyped DEF Attribs
<1>7. ConTypes'
  BY <1>1, <1>5, <1>6 DEF Bounded, ConTypes
<1>8. OutsideInv'
  BY <1>1, <1>2 DEF Bounded, OutsideInv
<1>9. RowInv' /\ ColumnInv' /\ SlipInv' /\ GreetInv'
  BY <1>1 DEF Bounded, RowInv, ColumnInv, SlipInv, GreetInv
<1> QED
  BY <1>7, <1>8, <1>9 DEF Bounded

LEMMA BoundedStep == Bounded /\ [ConNext]_conVars => Bounded'
<1> SUFFICES ASSUME Bounded, [ConNext]_conVars PROVE Bounded'
  OBVIOUS
<1>1. CASE UNCHANGED conVars
  BY <1>1 DEF conVars, Bounded, ConTypes, RowInv, ColumnInv, SlipInv, GreetInv, OutsideInv
<1>2. CASE Greet
  BY <1>2, BoundedGreet
<1>3. ASSUME greeting = <<>>, Session, UNCHANGED greeting PROVE Bounded'
  <2>1. \A c \in Bytes : BeginPut(c) => Bounded'
    BY <1>3, BoundedBegin
  <2>2. \A c \in Bytes : keyboard_interrupt(c) => Bounded'
    BY <1>3, BoundedKey
  <2>3. Printable \cup {BLANK, "bs", "tab", "nl", "nul"} \subseteq Bytes
    BY DEF Bytes, Controls, Silent
  <2>4. \A bg, fg \in Colors : SetColors(bg, fg) => Bounded'
    BY <1>3, BoundedColors
  <2> QED
    BY <1>3, <2>1, <2>2, <2>3, <2>4, BoundedCursor, BoundedWrite, BoundedScroll, BoundedCrtc,
       BoundedCls, BoundedTemp, BoundedPrompt DEF Session
<1> QED
  BY <1>1, <1>2, <1>3 DEF ConNext

-----------------------------------------------------------------------------
(* What temp_screen drew is what its next run will find, one row higher.   *)

LEMMA RestoredInit == ConInit => RestoredOneRowUp
BY DEF ConInit, RestoredOneRowUp

LEMMA RestoredByTemp == Bounded /\ temp_screen => RestoredOneRowUp'
<1> SUFFICES ASSUME Bounded, temp_screen PROVE RestoredOneRowUp'
  OBVIOUS
<1> DEFINE b1 == [i \in ScreenCells |-> cells[i]]
           b2 == [i \in ScreenCells |-> cells'[i]]
<1>1. before' = <<b1, b2>>
  BY DEF temp_screen
<1>2. PICK junk \in Junk :
        cells' = [i \in Memory |-> IF i \in ScreenCells
                                   THEN Restored(lua_vga_getdata(junk), i) ELSE cells[i]]
  BY DEF temp_screen, Junk
<1>3. junk \in Seq(Bytes)
  BY JunkTyped
<1>4. \A i \in ScreenCells : b2[i] = Restored(lua_vga_getdata(junk), i) /\ b1[i] = cells[i]
  BY <1>2, CellNames
<1>5. before'[1] = b1 /\ before'[2] = b2
  BY <1>1
<1> HIDE DEF b1, b2
<1>6. ASSUME NEW k \in ScreenCells
      PROVE  /\ k + W \in ScreenCells =>
                  b2[k] = [b1[k + W] EXCEPT
                    !.ch = IF \E j \in 0 .. k + W - 1 : b1[j].ch = "nul" THEN "nul" ELSE @]
             /\ k + W \notin ScreenCells =>
                  /\ b2[k].at = <<0, 0>>
                  /\ (\E j \in ScreenCells : b1[j].ch = "nul") => b2[k].ch = "nul"
  <2> DEFINE r == Restored(lua_vga_getdata(junk), k)
  <2>1. /\ k + W \in ScreenCells =>
             r = [cells[k + W] EXCEPT
                    !.ch = IF \E j \in 0 .. k + W - 1 : cells[j].ch = "nul" THEN "nul" ELSE @]
        /\ k + W \notin ScreenCells =>
             /\ r.at = <<0, 0>>
             /\ (\E j \in ScreenCells : cells[j].ch = "nul") => r.ch = "nul"
    BY <1>3, RestoredCell
  <2>2. b2[k] = r
    BY <1>4
  <2> HIDE DEF r
  <2>3. CASE k + W \in ScreenCells
    <3>1. b1[k + W] = cells[k + W]
      BY <1>4, <2>3
    <3>2. \A j \in 0 .. k + W - 1 : j \in ScreenCells
      BY <2>3, ScreenSizes DEF ScreenCells
    <3>3. (\E j \in 0 .. k + W - 1 : b1[j].ch = "nul") <=> (\E j \in 0 .. k + W - 1 : cells[j].ch = "nul")
      BY <1>4, <3>2
    <3> QED
      BY <2>1, <2>2, <2>3, <3>1, <3>3
  <2>4. CASE k + W \notin ScreenCells
    BY <1>4, <2>1, <2>2, <2>4
  <2> QED
    BY <2>3, <2>4
<1> QED
  BY <1>5, <1>6 DEF RestoredOneRowUp

LEMMA RestoredStep == Bounded /\ RestoredOneRowUp /\ [ConNext]_conVars => RestoredOneRowUp'
<1> SUFFICES ASSUME Bounded, RestoredOneRowUp, [ConNext]_conVars PROVE RestoredOneRowUp'
  OBVIOUS
<1>1. CASE temp_screen
  BY <1>1, RestoredByTemp
<1>2. CASE before' = before
  BY <1>2 DEF RestoredOneRowUp
<1>3. temp_screen \/ before' = before
  BY DEF ConNext, conVars, Greet, Session, BeginPut, CursorStep, Write, Scroll, move_csr, History,
         keyboard_interrupt, SetColors, vga_cls, cli_prompt
<1> QED
  BY <1>1, <1>2, <1>3

-----------------------------------------------------------------------------
(* What is left to do of vga_putchar, and the screen it will leave.        *)

ScrolledBy(s, a) ==
  LET temp == s.y - H + 1 IN
  IF s.y < H THEN s
  ELSE [s EXCEPT !.y = H - 1,
         !.cells = [i \in Memory |->
            IF i \in 0 .. W * (H - temp) - 1 THEN s.cells[i + temp * W]
            ELSE IF i \in W * (H - temp) .. W * (H - temp) + W - 1
            THEN [ch |-> BLANK, at |-> a] ELSE s.cells[i]]]

\* How the screen s changes until the test for the edge of the row, for the
\* registers q of vga_putchar, and what becomes of it then in color a.
BeforeEdge(q, s) ==
  LET cell == [ch |-> q.c, at |-> q.att] IN
  CASE q.pc = "back test" -> [s EXCEPT !.x = IF s.x # 0 THEN s.x - 1 ELSE s.x]
    [] q.pc = "back" -> [s EXCEPT !.x = s.x - 1]
    [] q.pc = "tab" -> [s EXCEPT !.x = (s.x \div TabStop + 1) * TabStop]
    [] q.pc \in {"back store", "x store"} -> [s EXCEPT !.x = q.temp]
    [] q.pc = "return" -> [s EXCEPT !.x = 0]
    [] q.pc = "row" -> [s EXCEPT !.cells[s.y * W + s.x] = cell, !.x = s.x + 1]
    [] q.pc = "column" -> [s EXCEPT !.cells[q.at + s.x] = cell, !.x = s.x + 1]
    [] q.pc = "cell" -> [s EXCEPT !.cells[q.at] = cell, !.x = s.x + 1]
    [] q.pc = "right" -> [s EXCEPT !.x = s.x + 1]
    [] OTHER -> s
Finished(q, s, a) ==
  CASE q.pc = "newline" -> ScrolledBy([s EXCEPT !.x = 0, !.y = s.y + 1], a)
    [] q.pc = "down" -> ScrolledBy([s EXCEPT !.y = s.y + 1], a)
    [] q.pc = "y store" -> ScrolledBy([s EXCEPT !.y = q.temp], a)
    [] q.pc = "scroll" -> ScrolledBy(s, a)
    [] q.pc \in {"idle", "move", "14", "hi", "15", "lo"} -> s
    [] OTHER -> ScrolledBy(Wrapped(BeforeEdge(q, s)), a)

\* The cells and the cursor of s show the last rows of p.
Shows(s, p) ==
  /\ \A i \in ScreenCells : s.cells[i].ch = OnPaper(p, TopRow(p) + i \div W, i % W)
  /\ s.x = p.x /\ s.y = p.y - TopRow(p)

\* As long as nothing is mixed, the screen shows the paper, or will once
\* vga_putchar is done with its character; so does the controller.
ColorInv == put.pc # "idle" => put.att = attrib
ShownInv ==
  "mixed" \notin races =>
    IF put.pc = "idle" THEN Shows(Screen, paper)
    ELSE Shows(Finished(put, Screen, attrib), Type(paper, put.c))
CrtcInv ==
  "mixed" \notin races =>
    /\ put.pc = "idle" => crtc.hi = csr_y /\ crtc.lo = csr_x
    /\ put.pc \in {"14", "hi", "15", "lo"} => put.temp = csr_y * W + csr_x
    /\ put.pc = "hi" => crtc.index = 14
    /\ put.pc \in {"15", "lo"} => crtc.hi = csr_y
    /\ put.pc = "lo" => crtc.index = 15
Shown == ColorInv /\ ShownInv /\ CrtcInv

\* Typing a character on the paper moves what the screen shows as vga_putchar
\* moves the screen: rows that leave it at the top are still on the paper.
LEMMA ShowsPut ==
  ASSUME NEW s \in ScreenState, NEW p, PaperOK(p), Shows(s, p), NEW c \in Bytes, attrib \in Attribs
  PROVE  Shows(vga_putchar(s, c), Type(p, c))
<1> DEFINE t == TopRow(p)
           m == Moved(s, c)
           w == Wrapped(m)
           r == scroll(w)
           n == Type(p, c)
<1>1. /\ s.cells \in [Memory -> Cell] /\ s.x \in Int /\ s.y \in Int
      /\ s.x = p.x /\ p.x \in 0 .. W - 1 /\ p.y \in Nat
      /\ \A q \in DOMAIN p.sheet : q \in (0 .. p.y) \X (0 .. W - 1)
  BY DEF ScreenState, Shows, PaperOK
<1>2. /\ t \in Nat /\ s.y = p.y - t /\ s.y \in 0 .. H - 1 /\ s.y < H
      /\ t = IF p.y < H THEN 0 ELSE p.y - H + 1
  BY <1>1, Dimensions DEF TopRow, Shows
<1>3. \A i \in ScreenCells : s.cells[i].ch = OnPaper(p, t + i \div W, i % W)
  BY DEF Shows
<1>4. s.x < W /\ s.x >= 0
  BY <1>1, Dimensions
<1>5. /\ m \in ScreenState /\ m.x \in Int /\ m.y \in Int
      /\ m.y = IF c = "nl" THEN s.y + 1 ELSE s.y
      /\ c = "nl" => m.x = 0
      /\ m.x <= W /\ m.x >= 0
      /\ ~Prints(c) => m.cells = s.cells
      /\ Prints(c) => m.cells = [s.cells EXCEPT ![s.y * W + s.x] = [ch |-> c, at |-> attrib]]
  BY <1>4, MovedBounds DEF ScreenState
<1>6. /\ n.y = IF c = "nl" \/ m.x >= W THEN p.y + 1 ELSE p.y
      /\ n.x = IF m.x >= W THEN 0 ELSE m.x
      /\ ~Prints(c) => n.sheet = p.sheet
      /\ Prints(c) => n.sheet = [q \in DOMAIN p.sheet \cup {<<p.y, p.x>>} |->
                                  IF q = <<p.y, p.x>> THEN c ELSE p.sheet[q]]
  BY <1>1, TypeForms
<1> HIDE DEF t, m, n
<1>7. /\ w \in ScreenState /\ w.cells = m.cells
      /\ m.x < W => w = m
      /\ m.x >= W => w.x = 0 /\ w.y = m.y + 1
  BY <1>5, WrappedForms
<1>8. /\ w.x = n.x /\ w.y \in Int /\ n.y \in Nat
      /\ \/ w.y = s.y /\ n.y = p.y
         \/ w.y = s.y + 1 /\ n.y = p.y + 1
  <2>1. CASE m.x < W
    BY <2>1, <1>1, <1>5, <1>6, <1>7, Dimensions
  <2>2. CASE ~(m.x < W)
    <3>1. m.x >= W /\ c # "nl"
      BY <2>2, <1>5, Dimensions
    <3> QED
      BY <3>1, <1>1, <1>5, <1>6, <1>7, Dimensions
  <2> QED
    BY <2>1, <2>2
<1> HIDE DEF w
\* The rows of the paper are as before but for the character.
<1>9. ASSUME NEW i \in ScreenCells
      PROVE  w.cells[i].ch = OnPaper(n, t + i \div W, i % W)
  <2> DEFINE y == i \div W
             x == i % W
  <2>1. /\ y \in 0 .. H - 1 /\ x \in 0 .. W - 1 /\ i = y * W + x /\ i \in Memory
    BY PlaceOf, CellNames
  <2>2. s.cells[i].ch = OnPaper(p, t + y, x)
    BY <1>3
  <2>3. CASE ~Prints(c)
    BY <2>2, <2>3, <1>5, <1>6, <1>7 DEF OnPaper
  <2>4. CASE Prints(c)
    <3>1. n.sheet = [q \in DOMAIN p.sheet \cup {<<p.y, p.x>>} |->
                                  IF q = <<p.y, p.x>> THEN c ELSE p.sheet[q]]
      BY <2>4, <1>6
    <3>2. w.cells[i] = IF i = s.y * W + s.x THEN [ch |-> c, at |-> attrib] ELSE s.cells[i]
      BY <2>1, <2>4, <1>1, <1>5, <1>7
    <3>3. i = s.y * W + s.x <=> y = s.y /\ x = s.x
      <4>1. s.x \in 0 .. W - 1
        BY <1>1
      <4>2. (s.y * W + s.x) \div W = s.y /\ (s.y * W + s.x) % W = s.x
        BY <4>1, <1>2, CellOf
      <4> QED
        BY <2>1, <4>2
    <3> HIDE DEF y, x
    <3>4. y = s.y /\ x = s.x <=> <<t + y, x>> = <<p.y, p.x>>
      BY <1>1, <1>2, <2>1
    <3>5. <<t + y, x>> \in DOMAIN n.sheet <=> <<t + y, x>> \in DOMAIN p.sheet \/ (y = s.y /\ x = s.x)
      BY <3>1, <3>4
    <3>6. CASE y = s.y /\ x = s.x
      <4>1. w.cells[i].ch = c
        BY <3>2, <3>3, <3>6
      <4>2. OnPaper(n, t + y, x) = c
        BY <3>1, <3>4, <3>5, <3>6 DEF OnPaper
      <4> QED
        BY <4>1, <4>2 DEF y, x
    <3>7. CASE ~(y = s.y /\ x = s.x)
      <4>1. w.cells[i].ch = OnPaper(p, t + y, x)
        BY <2>2, <3>2, <3>3, <3>7
      <4>2. OnPaper(n, t + y, x) = OnPaper(p, t + y, x)
        BY <3>1, <3>4, <3>5, <3>7 DEF OnPaper
      <4> QED
        BY <4>1, <4>2 DEF y, x
    <3> QED
      BY <3>6, <3>7
  <2> QED
    BY <2>3, <2>4
<1>10. \A q \in DOMAIN n.sheet : q \in (0 .. p.y) \X (0 .. W - 1)
  <2>1. <<p.y, p.x>> \in (0 .. p.y) \X (0 .. W - 1)
    BY <1>1
  <2>2. CASE Prints(c)
    <3>1. DOMAIN n.sheet = DOMAIN p.sheet \cup {<<p.y, p.x>>}
      BY <2>2, <1>6
    <3> QED
      BY <3>1, <2>1, <1>1
  <2>3. CASE ~Prints(c)
    BY <2>3, <1>1, <1>6
  <2> QED
    BY <2>2, <2>3
<1>11. w.y \in 0 .. H + 1 /\ (w.y = H \/ w.y < H)
  BY <1>2, <1>8, Dimensions
<1>12. /\ r.x = w.x
       /\ r.y = IF w.y < H THEN w.y ELSE H - 1
       /\ w.y < H => r = w
       /\ w.y = H => \A i \in ScreenCells :
            r.cells[i] = IF i < W * (H - 1) THEN w.cells[i + W]
                         ELSE [ch |-> BLANK, at |-> attrib]
  BY <1>7, <1>11, ScrollForms
<1>13. vga_putchar(s, c) = r
  BY DEF vga_putchar, w, m
<1> HIDE DEF r
<1>14. CASE w.y < H
  <2>1. TopRow(n) = t /\ w.y = n.y - t
    BY <1>1, <1>2, <1>8, <1>14, Dimensions DEF TopRow
  <2> QED
    BY <2>1, <1>8, <1>9, <1>12, <1>13, <1>14 DEF Shows, n
<1>15. CASE w.y = H
  <2>1. TopRow(n) = t + 1 /\ H - 1 = n.y - (t + 1) /\ t + H > p.y
    BY <1>1, <1>2, <1>8, <1>15, Dimensions DEF TopRow
  <2>2. r.x = n.x /\ r.y = n.y - TopRow(n)
    BY <2>1, <1>8, <1>12, <1>15, Dimensions
  <2>3. ASSUME NEW i \in ScreenCells
        PROVE  r.cells[i].ch = OnPaper(n, TopRow(n) + i \div W, i % W)
    <3> DEFINE y == i \div W
               x == i % W
    <3>1. y \in 0 .. H - 1 /\ x \in 0 .. W - 1 /\ i = y * W + x /\ i \in Nat
      BY PlaceOf
    <3> HIDE DEF y, x
    <3>2. CASE y < H - 1
      <4> DEFINE below == y + 1
      <4>1. below \in 0 .. H - 1 /\ TopRow(n) + y = t + below
        BY <3>1, <3>2, <2>1, <1>2, Dimensions
      <4>2. y * W \in Nat /\ below * W = y * W + W /\ below * W <= W * H - W
        <5>1. below * W <= W * H - W
          BY <4>1, RowFits
        <5> QED
          BY <3>1, <5>1, ScreenSizes
      <4> HIDE DEF below
      <4>3. i + W = below * W + x
        BY <3>1, <4>2, ScreenSizes
      <4>4. i + W \in ScreenCells /\ (i + W) \div W = below /\ (i + W) % W = x
        BY <3>1, <4>1, <4>3, CellOf
      <4>5. i < W * (H - 1)
        BY <3>1, <4>2, ScreenSizes
      <4>6. r.cells[i] = w.cells[i + W]
        BY <4>5, <1>12, <1>15
      <4>7. w.cells[i + W].ch = OnPaper(n, t + below, x)
        BY <4>4, <1>9
      <4> QED
        BY <4>1, <4>6, <4>7 DEF y, x
    <3>3. CASE ~(y < H - 1)
      <4>1. y = H - 1
        BY <3>1, <3>3, Dimensions
      <4>2. i >= W * (H - 1) /\ ~(i < W * (H - 1))
        <5>1. y * W = W * (H - 1)
          BY <4>1, ScreenSizes
        <5> QED
          BY <5>1, <3>1, ScreenSizes
      <4>3. r.cells[i].ch = BLANK
        BY <4>2, <1>12, <1>15
      <4>4. TopRow(n) + y > p.y /\ TopRow(n) + y \in Int
        BY <4>1, <2>1, <1>1, <1>2, Dimensions
      <4>5. <<TopRow(n) + y, x>> \notin DOMAIN n.sheet
        BY <1>1, <1>10, <4>4
      <4> QED
        BY <4>3, <4>5 DEF OnPaper, y, x
    <3> QED
      BY <3>2, <3>3
  <2> QED
    BY <2>2, <2>3, <1>13 DEF Shows, n
<1> QED
  BY <1>11, <1>14, <1>15

\* The same for the characters of an echo.
LEMMA ShowsEcho ==
  ASSUME NEW s \in ScreenState, NEW p, PaperOK(p), Shows(s, p), NEW c \in Bytes, attrib \in Attribs
  PROVE  Shows(Each(vga_putchar, s, Echo(c)), Each(Type, p, Echo(c)))
<1>1. ASSUME NEW z \in ScreenState, NEW o, PaperOK(o), Shows(z, o), NEW d \in Bytes
      PROVE  /\ vga_putchar(z, d) \in ScreenState /\ PaperOK(Type(o, d))
             /\ Shows(vga_putchar(z, d), Type(o, d))
  <2>1. z.x = o.x /\ o.x \in 0 .. W - 1 /\ o.y \in Nat /\ z.y = o.y - TopRow(o)
    BY <1>1 DEF Shows, PaperOK
  <2>2. z.y \in 0 .. H /\ z.x <= W /\ z.y # H /\ z.x < W
    BY <2>1, Dimensions DEF TopRow
  <2>3. vga_putchar(z, d) \in ScreenState
    BY <2>2, PutBounds
  <2>4. PaperOK(Type(o, d))
    BY <1>1, <2>1, TypeForms
  <2> QED
    BY <1>1, <2>3, <2>4, ShowsPut
<1>2. "bs" \in Bytes /\ BLANK \in Bytes
  BY DEF Bytes, Controls
<1>3. CASE c = "bs"
  <2> DEFINE z1 == vga_putchar(s, "bs")
             z2 == vga_putchar(z1, BLANK)
             z3 == vga_putchar(z2, "bs")
             o1 == Type(p, "bs")
             o2 == Type(o1, BLANK)
             o3 == Type(o2, "bs")
  <2>1. Echo(c) = <<"bs", BLANK, "bs">>
    BY <1>3 DEF Echo
  <2>2. Each(vga_putchar, s, Echo(c)) = z3 /\ Each(Type, p, Echo(c)) = o3
    BY <2>1 DEF Each
  <2>3. z1 \in ScreenState /\ PaperOK(o1) /\ Shows(z1, o1)
    BY <1>1, <1>2
  <2> HIDE DEF z1, o1
  <2>4. z2 \in ScreenState /\ PaperOK(o2) /\ Shows(z2, o2)
    BY <1>1, <1>2, <2>3
  <2> HIDE DEF z2, o2
  <2>5. Shows(z3, o3)
    BY <1>1, <1>2, <2>4
  <2> QED
    BY <2>2, <2>5
<1>4. CASE c # "bs"
  <2>1. Each(vga_putchar, s, Echo(c)) = vga_putchar(s, c) /\ Each(Type, p, Echo(c)) = Type(p, c)
    <3>1. Echo(c) = <<c>>
      BY <1>4 DEF Echo
    <3> QED
      BY <3>1 DEF Each
  <2> QED
    BY <1>1, <2>1
<1> QED
  BY <1>3, <1>4

\* vga_putchar, from its first step on.
LEMMA FinishedFirst ==
  ASSUME NEW s \in ScreenState, NEW c \in Bytes, attrib \in Attribs, NEW q,
         q.c = c, q.att = attrib,
         q.pc = CASE c = "bs" -> "back test" [] c = "tab" -> "tab"
                  [] c = "cr" -> "return" [] c = "nl" -> "newline"
                  [] c \in Silent -> "edge" [] OTHER -> "row"
  PROVE  Finished(q, s, attrib) = vga_putchar(s, c)
<1> DEFINE m == Moved(s, c)
<1>1. vga_putchar(s, c) = ScrolledBy(Wrapped(m), attrib)
  BY DEF vga_putchar, scroll, ScrolledBy
<1>2. CASE c = "bs"
  <2>1. m = [s EXCEPT !.x = IF s.x # 0 THEN s.x - 1 ELSE s.x]
    BY <1>2, MovedForms
  <2>2. q.pc = "back test"
    BY <1>2 DEF Silent
  <2>3. BeforeEdge(q, s) = m
    BY <2>1, <2>2 DEF BeforeEdge
  <2> QED
    BY <1>1, <2>2, <2>3 DEF Finished
<1>3. CASE c = "tab"
  <2>1. m = [s EXCEPT !.x = (s.x \div TabStop + 1) * TabStop]
    BY <1>3, MovedForms
  <2>2. q.pc = "tab"
    BY <1>3 DEF Silent
  <2>3. BeforeEdge(q, s) = m
    BY <2>1, <2>2 DEF BeforeEdge
  <2> QED
    BY <1>1, <2>2, <2>3 DEF Finished
<1>4. CASE c = "cr"
  <2>1. m = [s EXCEPT !.x = 0]
    BY <1>4, MovedForms
  <2>2. q.pc = "return"
    BY <1>4 DEF Silent
  <2>3. BeforeEdge(q, s) = m
    BY <2>1, <2>2 DEF BeforeEdge
  <2> QED
    BY <1>1, <2>2, <2>3 DEF Finished
<1>5. CASE c = "nl"
  <2>1. m = [s EXCEPT !.x = 0, !.y = s.y + 1]
    BY <1>5, MovedForms
  <2>2. m.x = 0 /\ m \in ScreenState
    BY <1>5, MovedBounds
  <2>3. Wrapped(m) = m
    BY <2>2, WrappedForms, Dimensions
  <2>4. q.pc = "newline"
    BY <1>5 DEF Silent
  <2> QED
    BY <1>1, <2>1, <2>3, <2>4 DEF Finished
<1>6. CASE c \in Silent
  <2>1. m = s
    BY <1>6, MovedForms
  <2>2. q.pc = "edge"
    BY <1>6 DEF Silent
  <2>3. BeforeEdge(q, s) = m
    BY <2>1, <2>2 DEF BeforeEdge
  <2> QED
    BY <1>1, <2>2, <2>3 DEF Finished
<1>7. CASE Prints(c)
  <2>1. m = [s EXCEPT !.cells[s.y * W + s.x] = [ch |-> c, at |-> attrib], !.x = s.x + 1]
    BY <1>7, MovedForms
  <2>2. q.pc = "row"
    BY <1>7 DEF Prints, Controls
  <2>3. BeforeEdge(q, s) = m
    BY <2>1, <2>2 DEF BeforeEdge
  <2> QED
    BY <1>1, <2>2, <2>3 DEF Finished
<1> QED
  BY <1>2, <1>3, <1>4, <1>5, <1>6, <1>7 DEF Prints, Controls

\* Each step of the mainline leaves less to do, and the same in the end.
LEMMA FinishedCursor ==
  ASSUME Bounded, CursorStep
  PROVE  Finished(put', Screen', attrib) = Finished(put, Screen, attrib)
<1> DEFINE s == Screen
           z == [cells |-> cells', x |-> csr_x', y |-> csr_y']
<1>1. cells' = cells
  BY DEF CursorStep
<1>2. s = [cells |-> cells, x |-> csr_x, y |-> csr_y] /\ Screen' = z
  BY DEF Screen
<1>3. put = [pc |-> put.pc, c |-> put.c, att |-> put.att, at |-> put.at, temp |-> put.temp]
  BY PutFields
<1>4. s.x = csr_x /\ s.y = csr_y /\ s.cells = cells
  BY <1>2
<1> HIDE DEF s
<1>5. CASE BackTest
  <2>1. put.pc = "back test" /\ z = s
    BY <1>1, <1>2, <1>5 DEF BackTest, cursor
  <2>2. CASE csr_x # 0
    <3>1. put'.pc = "back"
      BY <1>3, <1>5, <2>2 DEF BackTest, Go
    <3>2. BeforeEdge(put', s) = [s EXCEPT !.x = s.x - 1]
      BY <3>1 DEF BeforeEdge
    <3>3. BeforeEdge(put, s) = [s EXCEPT !.x = s.x - 1]
      BY <1>4, <2>1, <2>2 DEF BeforeEdge
    <3> QED
      BY <1>2, <2>1, <3>1, <3>2, <3>3 DEF Finished, s
  <2>3. CASE csr_x = 0
    <3>1. put'.pc = "edge"
      BY <1>3, <1>5, <2>3 DEF BackTest, Go
    <3>2. BeforeEdge(put', s) = s
      BY <3>1 DEF BeforeEdge
    <3>3. BeforeEdge(put, s) = s
      BY <1>2, <1>4, <2>1, <2>3 DEF BeforeEdge
    <3> QED
      BY <1>2, <2>1, <3>1, <3>2, <3>3 DEF Finished, s
  <2> QED
    BY <2>2, <2>3
<1>6. CASE Back \/ Tab \/ Right
  <2>1. put.pc \in {"back", "tab", "right"} /\ z = s
    BY <1>1, <1>2, <1>6 DEF Back, Tab, Right, cursor
  <2>2. PICK t : /\ put'.pc \in {"back store", "x store"} /\ put'.temp = t
                 /\ BeforeEdge(put, s) = [s EXCEPT !.x = t]
    <3>1. CASE Back
      <4>1. put.pc = "back" /\ put'.pc = "back store" /\ put'.temp = s.x - 1
        BY <1>3, <1>4, <3>1 DEF Back, GoWith
      <4> QED
        BY <4>1 DEF BeforeEdge
    <3>2. CASE Tab
      <4>1. put.pc = "tab" /\ put'.pc = "x store" /\ put'.temp = (s.x \div TabStop + 1) * TabStop
        BY <1>3, <1>4, <3>2 DEF Tab, GoWith
      <4>2. BeforeEdge(put, s) = [s EXCEPT !.x = (s.x \div TabStop + 1) * TabStop]
        BY <4>1 DEF BeforeEdge
      <4> QED
        BY <4>1, <4>2
    <3>3. CASE Right
      <4>1. put.pc = "right" /\ put'.pc = "x store" /\ put'.temp = s.x + 1
        BY <1>3, <1>4, <3>3 DEF Right, GoWith
      <4> QED
        BY <4>1 DEF BeforeEdge
    <3> QED
      BY <1>6, <3>1, <3>2, <3>3
  <2>3. BeforeEdge(put', s) = BeforeEdge(put, s)
    BY <2>2 DEF BeforeEdge
  <2> QED
    BY <1>2, <2>1, <2>2, <2>3 DEF Finished, s
<1>7. CASE BackStore \/ XStore
  <2>1. /\ put.pc \in {"back store", "x store"} /\ put'.pc = "edge"
        /\ csr_x' = put.temp /\ csr_y' = csr_y
    BY <1>3, <1>7 DEF BackStore, XStore, Go
  <2>2. z = [s EXCEPT !.x = put.temp]
    <3>1. z = [cells |-> cells, x |-> put.temp, y |-> csr_y]
      BY <1>1, <2>1
    <3> HIDE DEF z
    <3> QED
      BY <1>2, <3>1
  <2>3. BeforeEdge(put, s) = z
    BY <2>1, <2>2 DEF BeforeEdge
  <2>4. BeforeEdge(put', z) = z
    BY <2>1 DEF BeforeEdge
  <2> QED
    BY <1>2, <2>1, <2>3, <2>4 DEF Finished, s
<1>8. CASE CarriageReturn
  <2>1. put.pc = "return" /\ put'.pc = "edge" /\ csr_x' = 0 /\ csr_y' = csr_y
    BY <1>3, <1>8 DEF CarriageReturn, Go
  <2>2. z = [s EXCEPT !.x = 0]
    <3>1. z = [cells |-> cells, x |-> 0, y |-> csr_y]
      BY <1>1, <2>1
    <3> HIDE DEF z
    <3> QED
      BY <1>2, <3>1
  <2>3. BeforeEdge(put, s) = z
    BY <2>1, <2>2 DEF BeforeEdge
  <2>4. BeforeEdge(put', z) = z
    BY <2>1 DEF BeforeEdge
  <2> QED
    BY <1>2, <2>1, <2>3, <2>4 DEF Finished, s
<1>9. CASE Newline
  <2>1. put.pc = "newline" /\ put'.pc = "down" /\ csr_x' = 0 /\ csr_y' = csr_y
    BY <1>3, <1>9 DEF Newline, Go
  <2> DEFINE down == csr_y + 1
  <2>2. [z EXCEPT !.y = down] = [s EXCEPT !.x = 0, !.y = down] /\ z.y = csr_y
    <3> HIDE DEF down
    <3>1. z = [cells |-> cells, x |-> 0, y |-> csr_y]
      BY <1>1, <2>1
    <3> HIDE DEF z
    <3>2. [z EXCEPT !.y = down] = [cells |-> cells, x |-> 0, y |-> down]
      BY <3>1
    <3>3. [s EXCEPT !.x = 0, !.y = down] = [cells |-> cells, x |-> 0, y |-> down]
      <4> DEFINE m == [s EXCEPT !.x = 0, !.y = down]
      <4>1. m = [s EXCEPT !.x = 0, !.y = down]
        OBVIOUS
      <4> HIDE DEF m
      <4>2. m = [cells |-> cells, x |-> 0, y |-> down]
        BY <1>2, <4>1
      <4> QED
        BY <4>1, <4>2
    <3>4. z.y = csr_y
      BY <3>1
    <3> QED
      BY <3>2, <3>3, <3>4
  <2> HIDE DEF z
  <2>3. Finished(put', z, attrib) = ScrolledBy([z EXCEPT !.y = down], attrib)
    BY <2>1, <2>2 DEF Finished
  <2>4. Finished(put, s, attrib) = ScrolledBy([s EXCEPT !.x = 0, !.y = down], attrib)
    BY <1>4, <2>1 DEF Finished
  <2> QED
    BY <1>2, <2>2, <2>3, <2>4 DEF s
<1>10. CASE Down
  <2>1. put.pc = "down" /\ put'.pc = "y store" /\ put'.temp = s.y + 1 /\ z = s
    BY <1>1, <1>2, <1>3, <1>4, <1>10 DEF Down, GoWith, cursor
  <2> QED
    BY <1>2, <2>1 DEF Finished, s
<1>11. CASE YStore
  <2>1. put.pc = "y store" /\ put'.pc = "scroll" /\ csr_x' = csr_x /\ csr_y' = put.temp
    BY <1>3, <1>11 DEF YStore, Go
  <2>2. z = [s EXCEPT !.y = put.temp]
    <3>1. z = [cells |-> cells, x |-> csr_x, y |-> put.temp]
      BY <1>1, <2>1
    <3> HIDE DEF z
    <3> QED
      BY <1>2, <3>1
  <2> QED
    BY <1>2, <2>1, <2>2 DEF Finished, s
<1>12. CASE Row
  <2>1. /\ put.pc = "row" /\ put'.pc = "column" /\ put'.at = s.y * W /\ z = s
        /\ put'.c = put.c /\ put'.att = put.att
    BY <1>1, <1>2, <1>3, <1>4, <1>12 DEF Row, cursor
  <2>2. BeforeEdge(put', s) = BeforeEdge(put, s)
    BY <2>1 DEF BeforeEdge
  <2> QED
    BY <1>2, <2>1, <2>2 DEF Finished, s
<1>13. CASE Column
  <2>1. /\ put.pc = "column" /\ put'.pc = "cell" /\ put'.at = put.at + s.x /\ z = s
        /\ put'.c = put.c /\ put'.att = put.att
    BY <1>1, <1>2, <1>3, <1>4, <1>13 DEF Column, cursor
  <2>2. BeforeEdge(put', s) = BeforeEdge(put, s)
    BY <2>1 DEF BeforeEdge
  <2> QED
    BY <1>2, <2>1, <2>2 DEF Finished, s
<1>14. CASE Edge
  <2>1. put.pc = "edge" /\ z = s
    BY <1>1, <1>2, <1>14 DEF Edge, cursor
  <2>2. BeforeEdge(put, s) = s
    BY <2>1 DEF BeforeEdge
  <2>3. Finished(put, s, attrib) = ScrolledBy(Wrapped(s), attrib)
    BY <2>1, <2>2 DEF Finished
  <2>4. CASE csr_x >= W
    <3>1. put'.pc = "newline"
      BY <1>3, <1>14, <2>4 DEF Edge, Go
    <3>2. Wrapped(s) = [s EXCEPT !.x = 0, !.y = s.y + 1]
      BY <1>4, <2>4 DEF Wrapped
    <3> QED
      BY <1>2, <2>1, <2>3, <3>1, <3>2 DEF Finished, s
  <2>5. CASE ~(csr_x >= W)
    <3>1. put'.pc = "scroll"
      BY <1>3, <1>14, <2>5 DEF Edge, Go
    <3>2. Wrapped(s) = s
      BY <1>4, <2>5 DEF Wrapped
    <3> QED
      BY <1>2, <2>1, <2>3, <3>1, <3>2 DEF Finished, s
  <2> QED
    BY <2>4, <2>5
<1>15. CASE Move
  <2>1. put.pc = "move" /\ put'.pc = "14" /\ z = s
    BY <1>1, <1>2, <1>3, <1>15 DEF Move, GoWith, cursor
  <2> QED
    BY <1>2, <2>1 DEF Finished, s
<1> QED
  BY <1>5, <1>6, <1>7, <1>8, <1>9, <1>10, <1>11, <1>12, <1>13, <1>14, <1>15 DEF CursorStep

LEMMA FinishedWrite ==
  ASSUME Bounded, Write
  PROVE  Finished(put', Screen', attrib) = Finished(put, Screen, attrib)
<1> DEFINE s == Screen
           z == [cells |-> cells', x |-> csr_x', y |-> csr_y']
           cell == [ch |-> put.c, at |-> put.att]
<1>1. /\ put.pc = "cell" /\ put'.pc = "right" /\ csr_x' = csr_x /\ csr_y' = csr_y
      /\ cells' = [cells EXCEPT ![put.at] = cell]
  BY PutFields DEF Write, Go, cursor
<1>2. s = [cells |-> cells, x |-> csr_x, y |-> csr_y] /\ Screen' = z
  BY DEF Screen
<1> HIDE DEF cell
<1> DEFINE right == csr_x + 1
<1>3. s.x + 1 = right /\ z.x + 1 = right
  BY <1>1, <1>2
<1> HIDE DEF right
<1>4. [z EXCEPT !.x = right] = [s EXCEPT !.cells[put.at] = cell, !.x = right]
  <2>1. z = [cells |-> [cells EXCEPT ![put.at] = cell], x |-> csr_x, y |-> csr_y]
    BY <1>1
  <2> HIDE DEF z
  <2>2. [z EXCEPT !.x = right] =
          [cells |-> [cells EXCEPT ![put.at] = cell], x |-> right, y |-> csr_y]
    BY <2>1
  <2>3. [s EXCEPT !.cells[put.at] = cell, !.x = right] =
          [cells |-> [cells EXCEPT ![put.at] = cell], x |-> right, y |-> csr_y]
    <3>0. s.cells = cells
      BY <1>2
    <3>1. s = [cells |-> cells, x |-> csr_x, y |-> csr_y]
      BY <1>2
    <3> HIDE DEF s
    <3>2. [s EXCEPT !.cells[put.at] = cell, !.x = right] =
            [s EXCEPT !.cells = [cells EXCEPT ![put.at] = cell], !.x = right]
      BY <3>0
    <3> DEFINE new == [cells EXCEPT ![put.at] = cell]
    <3> HIDE DEF new
    <3>3. [s EXCEPT !.cells = new, !.x = right] = [cells |-> new, x |-> right, y |-> csr_y]
      <4> DEFINE m == [s EXCEPT !.cells = new, !.x = right]
      <4>1. m = [s EXCEPT !.cells = new, !.x = right]
        OBVIOUS
      <4> HIDE DEF m
      <4>2. m = [cells |-> new, x |-> right, y |-> csr_y]
        BY <3>1, <4>1
      <4> QED
        BY <4>1, <4>2
    <3> QED
      BY <3>2, <3>3 DEF new
  <2> QED
    BY <2>2, <2>3
<1> HIDE DEF s, z
<1>5. BeforeEdge(put', z) = [z EXCEPT !.x = right]
  BY <1>1, <1>3 DEF BeforeEdge
<1>6. BeforeEdge(put, s) = [s EXCEPT !.cells[put.at] = cell, !.x = right]
  BY <1>1, <1>3 DEF BeforeEdge, cell
<1> QED
  BY <1>1, <1>2, <1>4, <1>5, <1>6 DEF Finished, s

LEMMA FinishedScroll ==
  ASSUME Bounded, Scroll
  PROVE  Finished(put', Screen', attrib) = Finished(put, Screen, attrib)
<1> DEFINE r == scroll(Screen)
<1>1. put.pc = "scroll" /\ put'.pc = "move" /\ Show(r)
  BY PutFields DEF Scroll, Go
<1>2. Screen \in ScreenState /\ Screen.y = csr_y
  BY ScreenTyped DEF Bounded
<1>3. csr_y \in 0 .. H + 1 /\ attrib \in Attribs
  BY PutFields, Dimensions DEF Bounded, ConTypes
<1>4. r \in ScreenState
  BY <1>2, <1>3, ScrollForms
<1>5. r = ScrolledBy(Screen, attrib)
  BY DEF scroll, ScrolledBy
<1> HIDE DEF r
<1>6. r = [cells |-> r.cells, x |-> r.x, y |-> r.y]
  BY <1>4 DEF ScreenState
<1>7. Screen' = r
  BY <1>1, <1>6 DEF Screen, Show
<1> QED
  BY <1>1, <1>5, <1>7 DEF Finished

LEMMA BlankShows ==
  ASSUME NEW s, s.x = 0, s.y = 0, \A i \in ScreenCells : s.cells[i].ch = BLANK
  PROVE  Shows(s, NoPaper)
<1>1. NoPaper.x = 0 /\ NoPaper.y = 0 /\ DOMAIN NoPaper.sheet = {}
  BY DEF NoPaper
<1>2. TopRow(NoPaper) = 0
  BY <1>1, Dimensions DEF TopRow
<1>3. \A y, x : OnPaper(NoPaper, y, x) = BLANK
  BY <1>1 DEF OnPaper
<1> QED
  BY <1>1, <1>2, <1>3 DEF Shows

LEMMA CrtcShows ==
  ASSUME NEW y \in 0 .. H - 1, NEW x \in 0 .. W - 1
  PROVE  CrtcAt(x, y).hi = y /\ CrtcAt(x, y).lo = x
<1>1. (y * W + x) \div W = y /\ (y * W + x) % W = x
  BY CellOf
<1> DEFINE hi == (y * W + x) \div W
           lo == (y * W + x) % W
<1>2. CrtcAt(x, y) = [index |-> 15, hi |-> hi, lo |-> lo]
  BY DEF CrtcAt
<1>3. hi = y /\ lo = x
  BY <1>1
<1> HIDE DEF hi, lo
<1> QED
  BY <1>2, <1>3

\* A screen that shows the paper has its cursor on it.
LEMMA ShowsCursor ==
  ASSUME NEW s, NEW p, PaperOK(p), Shows(s, p)
  PROVE  s.x \in 0 .. W - 1 /\ s.y \in 0 .. H - 1
BY Dimensions DEF PaperOK, Shows, TopRow

LEMMA ScreenBlank ==
  ASSUME NEW s, s.x = 0, s.y = 0, \A i \in ScreenCells : s.cells[i].ch = BLANK,
         Screen' = s, paper' = NoPaper, put'.pc = "idle", crtc' = CrtcAt(0, 0),
         csr_x' = 0, csr_y' = 0
  PROVE  Shown'
<1>1. Shows(s, NoPaper)
  BY BlankShows
<1>2. CrtcAt(0, 0).hi = 0 /\ CrtcAt(0, 0).lo = 0
  BY CrtcShows, Dimensions
<1> QED
  BY <1>1, <1>2 DEF Shown, ColorInv, ShownInv, CrtcInv

LEMMA ShownInit == ConInit => Shown
<1> SUFFICES ASSUME ConInit PROVE Shown
  OBVIOUS
<1>1. put.pc = "idle" /\ csr_x = 0 /\ csr_y = 0 /\ crtc = CrtcAt(0, 0) /\ paper = NoPaper
  BY NoPutTyped DEF ConInit
<1>2. \A i \in ScreenCells : cells[i].ch = BLANK
  BY CellNames DEF ConInit
<1>3. Screen.x = 0 /\ Screen.y = 0 /\ Screen.cells = cells
  BY <1>1 DEF Screen
<1>4. Shows(Screen, NoPaper)
  BY <1>2, <1>3, BlankShows
<1>5. CrtcAt(0, 0).hi = 0 /\ CrtcAt(0, 0).lo = 0
  BY CrtcShows, Dimensions
<1> QED
  BY <1>1, <1>4, <1>5 DEF Shown, ColorInv, ShownInv, CrtcInv

\* Between the first and the last step of vga_putchar.
LEMMA ShownOn ==
  ASSUME Shown, UNCHANGED <<attrib, paper, races>>,
         put.pc # "idle", put'.pc # "idle", put'.c = put.c, put'.att = put.att,
         Finished(put', Screen', attrib) = Finished(put, Screen, attrib),
         CrtcInv'
  PROVE  Shown'
<1>1. ColorInv'
  BY DEF Shown, ColorInv
<1>2. ShownInv'
  BY DEF Shown, ShownInv
<1> QED
  BY <1>1, <1>2 DEF Shown

LEMMA CursorPcs ==
  ASSUME Bounded, CursorStep
  PROVE  /\ put.pc # "idle" /\ put'.pc \notin {"idle", "hi", "15", "lo"}
         /\ put'.c = put.c /\ put'.att = put.att
         /\ put'.pc = "14" =>
              put'.temp = csr_y * W + csr_x /\ csr_x' = csr_x /\ csr_y' = csr_y
<1>1. put = [pc |-> put.pc, c |-> put.c, att |-> put.att, at |-> put.at, temp |-> put.temp]
  BY PutFields
<1>2. CASE Move
  BY <1>1, <1>2 DEF Move, GoWith, cursor
<1>3. CASE BackTest \/ Back \/ BackStore \/ Tab \/ XStore
  BY <1>1, <1>3 DEF BackTest, Back, BackStore, Tab, XStore, Go, GoWith
<1>4. CASE CarriageReturn \/ Newline \/ Down \/ YStore
  BY <1>1, <1>4 DEF CarriageReturn, Newline, Down, YStore, Go, GoWith
<1>5. CASE Row \/ Column \/ Right \/ Edge
  BY <1>1, <1>5 DEF Row, Column, Right, Edge, Go, GoWith
<1> QED
  BY <1>2, <1>3, <1>4, <1>5 DEF CursorStep

LEMMA ShownCursor == Bounded /\ Shown /\ CursorStep => Shown'
<1> SUFFICES ASSUME Bounded, Shown, CursorStep PROVE Shown'
  OBVIOUS
<1>1. UNCHANGED <<attrib, paper, races>>
  BY DEF CursorStep, History
<1>2. CrtcInv'
  BY CursorPcs DEF CrtcInv
<1> QED
  BY <1>1, <1>2, CursorPcs, FinishedCursor, ShownOn

LEMMA ShownWrite == Bounded /\ Shown /\ (Write \/ Scroll) => Shown'
<1> SUFFICES ASSUME Bounded, Shown, Write \/ Scroll PROVE Shown'
  OBVIOUS
<1>1. UNCHANGED <<attrib, paper, races>>
  BY DEF Write, Scroll, History
<1>2. put.pc # "idle" /\ put'.pc \in {"right", "move"} /\ put'.c = put.c /\ put'.att = put.att
  BY PutFields DEF Write, Scroll, Go
<1>3. CrtcInv'
  BY <1>2 DEF CrtcInv
<1> QED
  BY <1>1, <1>2, <1>3, FinishedWrite, FinishedScroll, ShownOn

LEMMA ShownCrtc == Bounded /\ Shown /\ move_csr => Shown'
<1> SUFFICES ASSUME Bounded, Shown, move_csr PROVE Shown'
  OBVIOUS
<1>1. UNCHANGED <<cells, attrib, csr_x, csr_y, races>>
  BY DEF move_csr, cursor, History
<1>2. Screen' = Screen
  BY <1>1 DEF Screen
<1>3. /\ put = [pc |-> put.pc, c |-> put.c, att |-> put.att, at |-> put.at, temp |-> put.temp]
      /\ put.c \in Bytes /\ PaperOK(paper)
      /\ crtc = [index |-> crtc.index, hi |-> crtc.hi, lo |-> crtc.lo]
      /\ Screen.x = csr_x /\ Screen.y = csr_y
  BY PutFields, ScreenTyped DEF Bounded, ConTypes
<1>4. ASSUME put.pc \in {"14", "hi", "15", "lo"}, put'.pc \in {"14", "hi", "15", "lo"},
             paper' = paper, put'.c = put.c, put'.att = put.att, CrtcInv'
      PROVE  Shown'
  <2>1. Finished(put', Screen', attrib) = Finished(put, Screen, attrib)
    BY <1>2, <1>4 DEF Finished
  <2> QED
    BY <1>1, <1>4, <2>1, ShownOn
<1>5. ASSUME put.pc \in {"14", "hi", "15", "lo"}, "mixed" \notin races
      PROVE  /\ Shows(Screen, Type(paper, put.c))
             /\ put.temp \div W = csr_y /\ put.temp % W = csr_x
  <2>1. Shows(Finished(put, Screen, attrib), Type(paper, put.c)) /\ put.temp = csr_y * W + csr_x
    BY <1>5 DEF Shown, ShownInv, CrtcInv
  <2>2. Finished(put, Screen, attrib) = Screen
    BY <1>5 DEF Finished
  <2>3. PaperOK(Type(paper, put.c))
    BY <1>3, PaperTyped DEF Bounded
  <2>4. csr_x \in 0 .. W - 1 /\ csr_y \in 0 .. H - 1
    BY <1>3, <2>1, <2>2, <2>3, ShowsCursor
  <2> QED
    BY <2>1, <2>2, <2>4, CellOf
<1>6. CASE Select("14", 14, "hi")
  <2>1. /\ put.pc = "14" /\ put'.pc = "hi" /\ put'.c = put.c /\ put'.att = put.att
        /\ put'.temp = put.temp /\ paper' = paper /\ crtc'.index = 14
    BY <1>3, <1>6 DEF Select, Go
  <2>2. CrtcInv'
    BY <1>1, <2>1 DEF Shown, CrtcInv
  <2> QED
    BY <1>4, <2>1, <2>2
<1>7. CASE PortData("hi", put.temp \div W, "15")
  <2>1. /\ put.pc = "hi" /\ put'.pc = "15" /\ put'.c = put.c /\ put'.att = put.att
        /\ put'.temp = put.temp /\ paper' = paper
        /\ crtc.index = 14 => crtc'.hi = put.temp \div W
    BY <1>3, <1>7 DEF PortData
  <2>2. CrtcInv'
    BY <1>1, <1>5, <2>1 DEF Shown, CrtcInv
  <2> QED
    BY <1>4, <2>1, <2>2
<1>8. CASE Select("15", 15, "lo")
  <2>1. /\ put.pc = "15" /\ put'.pc = "lo" /\ put'.c = put.c /\ put'.att = put.att
        /\ put'.temp = put.temp /\ paper' = paper /\ crtc'.index = 15 /\ crtc'.hi = crtc.hi
    BY <1>3, <1>8 DEF Select, Go
  <2>2. CrtcInv'
    BY <1>1, <2>1 DEF Shown, CrtcInv
  <2> QED
    BY <1>4, <2>1, <2>2
<1>9. CASE PortData("lo", put.temp % W, "idle")
  <2>1. /\ put.pc = "lo" /\ put'.pc = "idle" /\ paper' = Type(paper, put.c)
        /\ crtc.index = 15 => crtc'.lo = put.temp % W /\ crtc'.hi = crtc.hi
    BY <1>3, <1>9, NoPutTyped DEF PortData
  <2>2. CrtcInv'
    BY <1>1, <1>5, <2>1 DEF Shown, CrtcInv
  <2>3. ShownInv'
    BY <1>1, <1>2, <1>5, <2>1 DEF ShownInv
  <2>4. ColorInv'
    BY <2>1 DEF ColorInv
  <2> QED
    BY <2>2, <2>3, <2>4 DEF Shown
<1> QED
  BY <1>6, <1>7, <1>8, <1>9 DEF move_csr

LEMMA ShownBegin ==
  ASSUME Bounded, Shown, NEW c \in Bytes, BeginPut(c)
  PROVE  Shown'
<1> DEFINE q == CASE c = "bs" -> "back test" [] c = "tab" -> "tab"
                  [] c = "cr" -> "return" [] c = "nl" -> "newline"
                  [] c \in Silent -> "edge" [] OTHER -> "row"
<1>1. /\ put.pc = "idle" /\ put' = [NoPut EXCEPT !.c = c, !.att = attrib, !.pc = q]
      /\ UNCHANGED <<cells, attrib, csr_x, csr_y, crtc, paper, races>>
  BY DEF BeginPut, cursor
<1>2. q \in {"back test", "tab", "return", "newline", "edge", "row"}
  BY DEF Silent
<1>3. put'.pc = q /\ put'.c = c /\ put'.att = attrib
  BY <1>1 DEF NoPut
<1>4. Screen' = Screen
  BY <1>1 DEF Screen
<1>5. Screen \in ScreenState /\ attrib \in Attribs /\ PaperOK(paper)
  BY ScreenTyped DEF Bounded, ConTypes
<1>6. Finished(put', Screen, attrib) = vga_putchar(Screen, c)
  BY <1>3, <1>5, FinishedFirst
<1>7. "mixed" \notin races => Shows(vga_putchar(Screen, c), Type(paper, c))
  BY <1>1, <1>5, ShowsPut DEF Shown, ShownInv
<1> HIDE DEF q
<1>8. ShownInv'
  BY <1>1, <1>2, <1>3, <1>4, <1>6, <1>7 DEF ShownInv
<1>9. ColorInv' /\ CrtcInv'
  BY <1>1, <1>2, <1>3 DEF ColorInv, CrtcInv
<1> QED
  BY <1>8, <1>9 DEF Shown

\* A whole character, or a whole echo, while no other is on its way.
LEMMA ShownWhole ==
  ASSUME NEW r \in ScreenState, Show(r), NEW p, PaperOK(p), paper' = p, Shows(r, p),
         crtc' = CrtcAt(csr_x', csr_y'), put'.pc = "idle"
  PROVE  Shown'
<1>1. r = [cells |-> r.cells, x |-> r.x, y |-> r.y]
  BY DEF ScreenState
<1>2. Screen' = r /\ csr_x' = r.x /\ csr_y' = r.y
  BY <1>1 DEF Show, Screen
<1>3. r.x \in 0 .. W - 1 /\ r.y \in 0 .. H - 1
  BY ShowsCursor
<1>4. CrtcAt(r.x, r.y).hi = r.y /\ CrtcAt(r.x, r.y).lo = r.x
  BY <1>3, CrtcShows
<1> QED
  BY <1>2, <1>4 DEF Shown, ColorInv, ShownInv, CrtcInv

\* What is mixed stays so, and says nothing.
LEMMA ShownMixed ==
  ASSUME "mixed" \in races', ColorInv'
  PROVE  Shown'
BY DEF Shown, ShownInv, CrtcInv

LEMMA ShownGreet == Bounded /\ Shown /\ Greet => Shown'
<1> SUFFICES ASSUME Bounded, Shown, Greet PROVE Shown'
  OBVIOUS
<1> DEFINE c == Head(greeting)
           r == vga_putchar(Screen, c)
<1>1. /\ greeting # <<>> /\ Show(r) /\ crtc' = CrtcAt(csr_x', csr_y')
      /\ paper' = Type(paper, c) /\ put' = put /\ races' = races
  BY DEF Greet
<1>2. put.pc = "idle" /\ greeting \in Seq(Bytes) /\ PaperOK(paper) /\ attrib \in Attribs
  BY <1>1 DEF Bounded, GreetInv, ConTypes
<1>3. c \in Bytes
  BY <1>1, <1>2
<1> HIDE DEF c
<1>4. Screen \in ScreenState /\ Screen.x = csr_x /\ Screen.y = csr_y
  BY ScreenTyped DEF Bounded
<1>5. CASE "mixed" \in races
  BY <1>1, <1>2, <1>5, ShownMixed DEF ColorInv
<1>6. CASE "mixed" \notin races
  <2>1. Shows(Screen, paper)
    BY <1>2, <1>6 DEF Shown, ShownInv
  <2>2. Shows(r, Type(paper, c))
    BY <1>2, <1>3, <1>4, <2>1, ShowsPut
  <2>3. PaperOK(Type(paper, c))
    BY <1>2, <1>3, PaperTyped DEF Bounded
  <2>4. csr_y \in 0 .. H /\ csr_x <= W /\ (csr_y = H => csr_x < W)
    BY <1>2, OnScreen, PutFields, Dimensions
  <2>5. r \in ScreenState
    BY <1>2, <1>3, <1>4, <2>4, PutBounds
  <2> HIDE DEF r
  <2> QED
    BY <1>1, <1>2, <2>2, <2>3, <2>5, ShownWhole
<1> QED
  BY <1>5, <1>6

LEMMA ShownKey ==
  ASSUME Bounded, Shown, NEW c \in Bytes, keyboard_interrupt(c)
  PROVE  Shown'
<1> DEFINE r == Each(vga_putchar, Screen, Echo(c))
           p == Each(Type, paper, Echo(c))
<1>1. /\ Show(r) /\ crtc' = CrtcAt(csr_x', csr_y') /\ paper' = p
      /\ races' = races \cup (IF put.pc = "idle" THEN {} ELSE {"echo", "mixed"})
                        \cup (IF put.pc \in {"back", "back store"} THEN {"slip"} ELSE {})
      /\ attrib' = attrib /\ put' = put
  BY DEF keyboard_interrupt
<1>2. ColorInv'
  BY <1>1 DEF Shown, ColorInv
<1>3. CASE "mixed" \in races'
  BY <1>2, <1>3, ShownMixed
<1>4. CASE "mixed" \notin races'
  <2>1. put.pc = "idle" /\ "mixed" \notin races
    BY <1>1, <1>4
  <2>2. Shows(Screen, paper)
    BY <2>1 DEF Shown, ShownInv
  <2>3. Screen \in ScreenState /\ Screen.x = csr_x /\ Screen.y = csr_y /\ PaperOK(paper) /\ attrib \in Attribs
    BY ScreenTyped DEF Bounded, ConTypes
  <2>4. Shows(r, p)
    BY <2>2, <2>3, ShowsEcho
  <2>5. PaperOK(p)
    BY EchoPaperTyped DEF Bounded
  <2>6. csr_y \in 0 .. H /\ csr_x <= W /\ (csr_y = H => csr_x < W)
    BY <2>1, OnScreen, PutFields, Dimensions
  <2>7. r \in ScreenState
    BY <2>3, <2>6, EchoBounds
  <2> HIDE DEF r, p
  <2> QED
    BY <1>1, <2>1, <2>4, <2>5, <2>7, ShownWhole
<1> QED
  BY <1>3, <1>4

LEMMA ShownCls == Bounded /\ vga_cls => Shown'
<1> SUFFICES ASSUME Bounded, vga_cls PROVE Shown'
  OBVIOUS
<1> DEFINE new == [i \in Memory |-> IF i \in ScreenCells THEN [ch |-> BLANK, at |-> attrib]
                                    ELSE cells[i]]
<1>1. /\ put'.pc = "idle" /\ csr_x' = 0 /\ csr_y' = 0 /\ crtc' = CrtcAt(0, 0)
      /\ cells' = new /\ paper' = NoPaper
  BY DEF vga_cls
<1>2. \A i \in ScreenCells : new[i].ch = BLANK
  BY CellNames
<1> HIDE DEF new
<1> DEFINE s == [cells |-> new, x |-> 0, y |-> 0]
<1>3. s.x = 0 /\ s.y = 0 /\ s.cells = new /\ Screen' = s
  BY <1>1 DEF Screen
<1> HIDE DEF s
<1> QED
  BY <1>1, <1>2, <1>3, ScreenBlank

\* No character is on its way, and what is shown stays or is mixed.
LEMMA ShownOther ==
  ASSUME Bounded, Shown,
         \/ \E bg, fg \in Colors : SetColors(bg, fg)
         \/ temp_screen \/ cli_prompt \/ UNCHANGED conVars
  PROVE  Shown'
<1>1. CASE \E bg, fg \in Colors : SetColors(bg, fg)
  <2>1. put.pc = "idle" /\ UNCHANGED <<cells, csr_x, csr_y, crtc, put, paper, races>>
    BY <1>1 DEF SetColors, cursor
  <2>2. Screen' = Screen
    BY <2>1 DEF Screen
  <2> QED
    BY <2>1, <2>2 DEF Shown, ColorInv, ShownInv, CrtcInv
<1>2. CASE temp_screen
  BY <1>2, ShownMixed DEF temp_screen, ColorInv
<1>3. CASE cli_prompt \/ UNCHANGED conVars
  <2>1. UNCHANGED <<cells, attrib, csr_x, csr_y, crtc, put, paper, races>>
    BY <1>3 DEF cli_prompt, cursor, conVars
  <2>2. Screen' = Screen
    BY <2>1 DEF Screen
  <2> QED
    BY <2>1, <2>2 DEF Shown, ColorInv, ShownInv, CrtcInv
<1> QED
  BY <1>1, <1>2, <1>3

LEMMA ShownStep == Bounded /\ Shown /\ [ConNext]_conVars => Shown'
<1> SUFFICES ASSUME Bounded, Shown, [ConNext]_conVars PROVE Shown'
  OBVIOUS
<1>1. CASE Greet \/ UNCHANGED conVars
  BY <1>1, ShownGreet, ShownOther
<1>2. CASE Session
  <2>1. Printable \cup {BLANK, "bs", "tab", "nl", "nul"} \subseteq Bytes
    BY DEF Bytes, Controls, Silent
  <2> QED
    BY <1>2, <2>1, ShownBegin, ShownKey, ShownCursor, ShownWrite, ShownCrtc, ShownCls, ShownOther
       DEF Session
<1> QED
  BY <1>1, <1>2 DEF ConNext

LEMMA ShownIsShown == Bounded /\ Shown => ShowsText
<1> SUFFICES ASSUME Bounded, Shown, put.pc = "idle", "mixed" \notin races
             PROVE  /\ Shows(Screen, paper) /\ crtc.hi = csr_y /\ crtc.lo = csr_x
                    /\ Screen.x = csr_x /\ Screen.y = csr_y /\ Screen.cells = cells
  BY DEF ShowsText, Shows
<1> QED
  BY ScreenTyped DEF Bounded, Shown, ShownInv, CrtcInv

-----------------------------------------------------------------------------

\* However long a program prints, and whenever keys are echoed into it: the
\* cursor and what is written stay in bounds but for the slips that the
\* property names, the screen and its cursor show the last rows of all that
\* was written since the screen was cleared, as long as no echo came inside a
\* character and no drawing was restored, and temp_screen puts back what was
\* one row further down.
THEOREM ScreenIsTrue == ConSpec => []ScreenTrue
<1> DEFINE Inv == Bounded /\ Shown /\ RestoredOneRowUp
<1>1. ConInit => Inv
  BY BoundedInit, ShownInit, RestoredInit
<1>2. Inv /\ [ConNext]_conVars => Inv'
  BY BoundedStep, ShownStep, RestoredStep
<1>3. Inv => ScreenTrue
  BY BoundedIsBounded, ShownIsShown DEF ScreenTrue
<1> QED
  BY <1>1, <1>2, <1>3, PTL DEF ConSpec

-----------------------------------------------------------------------------
(* Numbers and repetitions.                                                *)

\* What the first member of a family has, and each passes on, the last has.
LEMMA PassedOn ==
  ASSUME NEW k \in Nat, NEW m, NEW T,
         m[0] \in T[0], \A i \in 1 .. k : m[i - 1] \in T[i - 1] => m[i] \in T[i]
  PROVE  \A i \in 0 .. k : m[i] \in T[i]
<1> DEFINE Bad == {i \in 0 .. k : m[i] \notin T[i]}
<1> SUFFICES ASSUME Bad # {} PROVE FALSE
  OBVIOUS
<1>1. Bad \subseteq Nat
  OBVIOUS
<1>2. Min(Bad) \in Bad /\ \A i \in Bad : Min(Bad) <= i
  <2> HIDE DEF Bad
  <2> QED
    BY <1>1, Least
<1>3. PICK i : i = Min(Bad)
  OBVIOUS
<1>4. i \in 0 .. k /\ m[i] \notin T[i] /\ \A j \in Bad : i <= j
  BY <1>2, <1>3
<1> HIDE DEF Bad
<1>5. i # 0
  BY <1>4
<1>6. i \in 1 .. k /\ i - 1 \in 0 .. k /\ ~(i <= i - 1)
  BY <1>4, <1>5
<1>7. m[i - 1] \in T[i - 1]
  BY <1>4, <1>6 DEF Bad
<1> QED
  BY <1>4, <1>6, <1>7

\* A repetition whose steps stay within a family of sets exists: Step[i] is
\* the i-th step.
StepsWithin(k, T, Step) == \A i \in 1 .. k : \A x \in T[i - 1] : Step[i][x] \in T[i]
Repeats(k, T, Step, s, m) ==
  /\ m = [i \in 0 .. k |-> IF i = 0 THEN s ELSE Step[i][m[i - 1]]]
  /\ \A i \in 0 .. k : m[i] \in T[i]
LEMMA Repeated ==
  ASSUME NEW k \in Nat, NEW T, NEW Step, NEW s, s \in T[0], StepsWithin(k, T, Step)
  PROVE  \E m : Repeats(k, T, Step, s, m)
<1> DEFINE Upto(m, j) == m = [i \in 0 .. j |-> IF i = 0 THEN s ELSE Step[i][m[i - 1]]]
           Bad == {j \in 0 .. k : ~\E m : Upto(m, j)}
<1>1. \A j \in 0 .. k : \E m : Upto(m, j)
  <2> SUFFICES ASSUME Bad # {} PROVE FALSE
    OBVIOUS
  <2>1. Bad \subseteq Nat
    OBVIOUS
  <2>2. Min(Bad) \in Bad /\ \A i \in Bad : Min(Bad) <= i
    <3> HIDE DEF Bad
    <3> QED
      BY <2>1, Least
  <2>3. PICK j : j = Min(Bad)
    OBVIOUS
  <2>4. j \in 0 .. k /\ (~\E m : Upto(m, j)) /\ \A i \in Bad : j <= i
    BY <2>2, <2>3
  <2>5. j # 0
    <3>1. Upto([i \in {0} |-> s], 0)
      BY SMT
    <3> QED
      BY <3>1, <2>4
  <2>6. j \in 1 .. k /\ j - 1 \in 0 .. k /\ ~(j <= j - 1)
    BY <2>4, <2>5
  <2>7. PICK m : Upto(m, j - 1)
    BY <2>4, <2>6
  <2> DEFINE w == [i \in 0 .. j |-> IF i = j THEN Step[j][m[j - 1]] ELSE m[i]]
  <2>8. \A i \in 0 .. j : w[i] = IF i = 0 THEN s ELSE Step[i][w[i - 1]]
    <3> SUFFICES ASSUME NEW i \in 0 .. j PROVE w[i] = IF i = 0 THEN s ELSE Step[i][w[i - 1]]
      OBVIOUS
    <3>1. CASE i = 0
      BY <3>1, <2>6, <2>7
    <3>2. CASE i # 0 /\ i # j
      <4>1. i \in 0 .. j - 1 /\ i - 1 \in 0 .. j /\ i - 1 # j /\ i # j
        BY <3>2, <2>6
      <4>2. w[i] = m[i] /\ w[i - 1] = m[i - 1]
        BY <4>1
      <4>3. m[i] = Step[i][m[i - 1]]
        BY <2>7, <4>1, <3>2
      <4> QED
        BY <4>2, <4>3, <3>2
    <3>3. CASE i = j
      <4>1. j - 1 \in 0 .. j /\ j - 1 # j /\ j \in 0 .. j
        BY <2>6
      <4>2. w[j - 1] = m[j - 1] /\ w[j] = Step[j][m[j - 1]]
        BY <4>1
      <4> QED
        BY <3>3, <4>2, <2>5
    <3> QED
      BY <3>1, <3>2, <3>3
  <2>9. Upto(w, j)
    BY <2>8
  <2> QED
    BY <2>9, <2>4
<1>2. PICK m : Upto(m, k)
  <2>1. k \in 0 .. k
    OBVIOUS
  <2> HIDE DEF Upto
  <2> QED
    BY <1>1, <2>1
<1>3. m[0] = s /\ \A i \in 1 .. k : m[i] = Step[i][m[i - 1]]
  BY <1>2
<1>4. \A i \in 1 .. k : m[i - 1] \in T[i - 1] => m[i] \in T[i]
  BY <1>3 DEF StepsWithin
<1>5. \A i \in 0 .. k : m[i] \in T[i]
  <2> HIDE DEF Upto
  <2> QED
    BY <1>3, <1>4, PassedOn
<1> QED
  BY <1>2, <1>5 DEF Repeats

-----------------------------------------------------------------------------
(* The command line: lines that are typed and edited.                      *)

Letters == Printable \cup {BLANK}
Typing == Letters \cup {"bs"}

LEMMA LetterKinds ==
  /\ BLANK \in Letters /\ "bs" \notin Letters /\ "nul" \notin Typing
  /\ Letters \subseteq Bytes /\ Typing \subseteq Bytes
  /\ \A c \in Letters : Prints(c)
  /\ \A c \in Typing : IsSpace(c) <=> c = BLANK
BY ScreenAssumption DEF Letters, Typing, Bytes, BLANK, Prints, Controls, Silent, IsSpace

\* h[n] is the text that the first n characters of s leave: a backspace takes
\* the last letter back, and there is one.
Edits(h, s) ==
  /\ h \in [0 .. Len(s) -> Seq(Letters)] /\ h[0] = <<>>
  /\ \A n \in 1 .. Len(s) :
       \/ s[n] = "bs" /\ \E c \in Letters : h[n - 1] = Append(h[n], c)
       \/ s[n] \in Letters /\ h[n] = Append(h[n - 1], s[n])
Leaves(s, t) == \E h : Edits(h, s) /\ h[Len(s)] = t

\* Taking the last letter back undoes adding one.
LEMMA LastLetter ==
  ASSUME NEW a \in Seq(Letters), NEW b \in Seq(Letters), NEW c, NEW d, c \in Letters, d \in Letters,
         Append(a, c) = Append(b, d)
  PROVE  a = b /\ c = d
<1>1. /\ Len(Append(a, c)) = Len(a) + 1 /\ Len(Append(b, d)) = Len(b) + 1
      /\ Len(a) \in Nat /\ Len(b) \in Nat
  BY AppendProperties, LenProperties
<1>2. Len(a) = Len(b)
  BY <1>1
<1>3. /\ \A i \in 1 .. Len(a) : Append(a, c)[i] = a[i]
      /\ \A i \in 1 .. Len(b) : Append(b, d)[i] = b[i]
      /\ Append(a, c)[Len(a) + 1] = c /\ Append(b, d)[Len(b) + 1] = d
  BY AppendProperties
<1>4. \A i \in 1 .. Len(a) : a[i] = b[i]
  BY <1>2, <1>3
<1> QED
  BY <1>2, <1>3, <1>4, SeqEqual

LEMMA NotAppended ==
  ASSUME NEW a \in Seq(Letters), NEW c \in Letters
  PROVE  Append(a, c) # <<>>
BY AppendProperties, LenProperties

\* The first pair of the line is a letter and the backspace that takes it back:
\* without them the line leaves the same text.
LEMMA CutOnce ==
  ASSUME NEW s \in Seq(Typing), NEW t, Leaves(s, t), Pairs(s) # {}
  PROVE  LET v == Cut(s, Min(Pairs(s))) IN
         v \in Seq(Typing) /\ Len(v) = Len(s) - 2 /\ Leaves(v, t)
<1>1. Len(s) \in Nat
  BY LenProperties
<1>2. Pairs(s) \subseteq Nat
  BY DEF Pairs
<1>3. PICK i : i = Min(Pairs(s))
  OBVIOUS
<1>4. i \in Pairs(s) /\ \A j \in Pairs(s) : i <= j
  BY <1>2, <1>3, Least
<1>5. i \in 1 .. Len(s) - 1 /\ s[i + 1] = "bs" /\ i \in Nat /\ i + 1 \in 1 .. Len(s)
  BY <1>1, <1>4 DEF Pairs
<1>6. PICK h : Edits(h, s) /\ h[Len(s)] = t
  BY DEF Leaves
<1>7. /\ h[0] = <<>> /\ \A n \in 0 .. Len(s) : h[n] \in Seq(Letters)
      /\ \A n \in 1 .. Len(s) :
           \/ s[n] = "bs" /\ \E c \in Letters : h[n - 1] = Append(h[n], c)
           \/ s[n] \in Letters /\ h[n] = Append(h[n - 1], s[n])
  BY <1>6 DEF Edits
<1>8. s[i] # "bs"
  <2> SUFFICES ASSUME s[i] = "bs" PROVE FALSE
    OBVIOUS
  <2>1. i \in 1 .. Len(s) /\ i \in 0 .. Len(s) /\ "bs" \notin Letters
    BY <1>1, <1>5, LetterKinds
  <2>2. PICK c \in Letters : h[i - 1] = Append(h[i], c)
    BY <1>7, <2>1
  <2>3. i # 1
    BY <1>7, <2>1, <2>2, NotAppended
  <2>4. i - 1 \in Pairs(s)
    <3>1. i - 1 \in 1 .. Len(s) - 1 /\ i - 1 + 1 = i
      BY <1>1, <1>5, <2>3
    <3> QED
      BY <3>1 DEF Pairs
  <2> QED
    BY <1>4, <1>5, <2>4
<1>9. h[i + 1] = h[i - 1]
  <2>1. i \in 1 .. Len(s) /\ i - 1 \in 0 .. Len(s) /\ i + 1 \in 0 .. Len(s) /\ i + 1 - 1 = i
    BY <1>1, <1>5
  <2>2. s[i] \in Letters /\ h[i] = Append(h[i - 1], s[i])
    BY <1>7, <1>8, <2>1
  <2>3. PICK c \in Letters : h[i] = Append(h[i + 1], c)
    BY <1>5, <1>7, <2>1, LetterKinds
  <2>4. h[i - 1] \in Seq(Letters) /\ h[i + 1] \in Seq(Letters)
    BY <1>7, <2>1
  <2>5. PICK e : e = s[i]
    OBVIOUS
  <2>6. Append(h[i - 1], e) = Append(h[i + 1], c) /\ e \in Letters
    BY <2>2, <2>3, <2>5
  <2>7. \A a, b \in Seq(Letters) : \A x, y \in Letters : Append(a, x) = Append(b, y) => a = b
    BY LastLetter
  <2> QED
    BY <2>4, <2>6, <2>7
<1> DEFINE v == Cut(s, i)
           k == Len(s) - 2
<1>10. v \in Seq(Typing) /\ Len(v) = k /\ k \in Nat
       /\ \A n \in 1 .. k : v[n] = IF n < i THEN s[n] ELSE s[n + 2]
  <2> DEFINE a == SubSeq(s, 1, i - 1)
             b == SubSeq(s, i + 2, Len(s))
  <2>1. a \in Seq(Typing) /\ Len(a) = i - 1 /\ \A n \in 1 .. i - 1 : a[n] = s[n]
    <3>1. i - 1 \in Int /\ i - 1 >= 0 /\ 1 .. i - 1 \subseteq 1 .. Len(s)
      BY <1>1, <1>5
    <3> QED
      BY <1>1, <1>5, <3>1, SubSeqProperties
  <2>2. b \in Seq(Typing) /\ Len(b) = Len(s) - i - 1 /\ \A n \in 1 .. Len(s) - i - 1 : b[n] = s[i + 1 + n]
    <3>1. i + 2 <= Len(s) + 1 /\ i + 2 .. Len(s) \subseteq 1 .. Len(s) /\ i + 2 \in Int
          /\ Len(s) - (i + 2) + 1 = Len(s) - i - 1
      BY <1>1, <1>5
    <3> DEFINE m == i + 2
    <3>2. m \in Int /\ m <= Len(s) + 1 /\ Len(s) - m + 1 = Len(s) - i - 1
          /\ m .. Len(s) \subseteq 1 .. Len(s) /\ m \in Nat
      BY <1>5, <3>1
    <3>3. \A n \in 1 .. Len(s) - i - 1 : m + n - 1 = i + 1 + n
      BY <1>1, <1>5
    <3> HIDE DEF m
    <3>4. /\ SubSeq(s, m, Len(s)) \in Seq(Typing)
          /\ Len(SubSeq(s, m, Len(s))) = Len(s) - m + 1
          /\ \A n \in 1 .. Len(s) - m + 1 : SubSeq(s, m, Len(s))[n] = s[m + n - 1]
      BY <1>1, <3>2, SubSeqProperties
    <3>5. b = SubSeq(s, m, Len(s))
      BY DEF m
    <3> QED
      BY <3>2, <3>3, <3>4, <3>5
  <2>3. v = a \o b
    BY DEF Cut
  <2> HIDE DEF a, b, v
  <2>4. v \in Seq(Typing) /\ Len(v) = Len(a) + Len(b)
        /\ \A n \in 1 .. Len(a) + Len(b) : v[n] = IF n <= Len(a) THEN a[n] ELSE b[n - Len(a)]
    BY <2>1, <2>2, <2>3, ConcatProperties
  <2>5. Len(v) = k /\ k \in Nat
    BY <1>1, <1>5, <2>1, <2>2, <2>4
  <2>6. ASSUME NEW n \in 1 .. k PROVE v[n] = IF n < i THEN s[n] ELSE s[n + 2]
    <3>1. n \in 1 .. Len(a) + Len(b)
      BY <2>4, <2>5
    <3>2. CASE n < i
      <4>1. n <= Len(a) /\ n \in 1 .. i - 1
        BY <1>5, <2>1, <3>2
      <4> QED
        BY <2>1, <2>4, <3>1, <3>2, <4>1
    <3>3. CASE ~(n < i)
      <4>1. ~(n <= Len(a)) /\ n - Len(a) \in 1 .. Len(s) - i - 1 /\ i + 1 + (n - Len(a)) = n + 2
        BY <1>1, <1>5, <2>1, <3>3
      <4> QED
        BY <2>2, <2>4, <3>1, <3>3, <4>1
    <3> QED
      BY <3>2, <3>3
  <2> QED
    BY <2>4, <2>5, <2>6
<1> DEFINE g == [n \in 0 .. k |-> IF n < i THEN h[n] ELSE h[n + 2]]
<1> HIDE DEF v
<1>11. \A n \in 0 .. k : n \in 0 .. Len(s) /\ n + 2 \in 0 .. Len(s) /\ n \in Int
  BY <1>1
<1>12. g \in [0 .. k -> Seq(Letters)] /\ g[0] = <<>>
  <2>1. 0 \in 0 .. k /\ 0 < i
    BY <1>5, <1>10
  <2>2. g[0] = h[0]
    BY <2>1
  <2> QED
    BY <1>7, <1>11, <2>2
<1>13. ASSUME NEW n \in 1 .. k
       PROVE  \/ v[n] = "bs" /\ \E c \in Letters : g[n - 1] = Append(g[n], c)
              \/ v[n] \in Letters /\ g[n] = Append(g[n - 1], v[n])
  <2>0. n \in 0 .. k /\ n - 1 \in 0 .. k /\ n \in 1 .. Len(s) /\ n + 2 \in 1 .. Len(s) /\ n + 2 - 1 = n + 1
        /\ n - 1 + 2 = n + 1
    BY <1>1, <1>10
  <2>4. \/ s[n + 2] = "bs" /\ \E c \in Letters : h[n + 1] = Append(h[n + 2], c)
        \/ s[n + 2] \in Letters /\ h[n + 2] = Append(h[n + 1], s[n + 2])
    <3>1. \/ s[n + 2] = "bs" /\ \E c \in Letters : h[n + 2 - 1] = Append(h[n + 2], c)
          \/ s[n + 2] \in Letters /\ h[n + 2] = Append(h[n + 2 - 1], s[n + 2])
      BY <1>7, <2>0
    <3> QED
      BY <2>0, <3>1
  <2>1. CASE n < i
    <3>1. n - 1 < i /\ v[n] = s[n] /\ g[n] = h[n] /\ g[n - 1] = h[n - 1]
      BY <1>5, <1>10, <2>0, <2>1
    <3> QED
      BY <1>7, <2>0, <3>1
  <2>2. CASE n = i
    <3>1. n - 1 < i /\ ~(n < i) /\ v[n] = s[n + 2] /\ g[n] = h[n + 2] /\ g[n - 1] = h[n - 1]
      BY <1>5, <1>10, <2>0, <2>2
    <3>2. g[n - 1] = h[n + 1]
      BY <1>9, <2>2, <3>1
    <3> QED
      BY ONLY <2>4, <3>1, <3>2
  <2>3. CASE n > i
    <3>1. ~(n - 1 < i) /\ ~(n < i)
      BY <1>5, <2>0, <2>3
    <3>2. v[n] = s[n + 2] /\ g[n] = h[n + 2] /\ g[n - 1] = h[n + 1]
      BY <1>10, <2>0, <3>1
    <3> QED
      BY ONLY <2>4, <3>2
  <2>5. n < i \/ n = i \/ n > i
    BY <1>5, <1>10
  <2> QED
    BY <2>1, <2>2, <2>3, <2>5
<1>14. g[k] = t
  <2>1. k \in 0 .. k /\ k + 2 = Len(s)
    BY <1>1, <1>10
  <2>2. CASE k < i
    <3>1. k = i - 1 /\ i + 1 = Len(s)
      BY <1>1, <1>5, <2>2
    <3> QED
      BY <1>6, <1>9, <2>1, <2>2, <3>1
  <2>3. CASE ~(k < i)
    BY <1>6, <2>1, <2>3
  <2> QED
    BY <2>2, <2>3
<1> HIDE DEF g
<1>15. Leaves(v, t)
  BY <1>10, <1>12, <1>13, <1>14 DEF Leaves, Edits
<1> QED
  BY <1>3, <1>10, <1>15 DEF v

\* Without pairs there is no backspace, and the line is the text.
LEMMA NothingToCut ==
  ASSUME NEW s \in Seq(Typing), NEW t, Leaves(s, t), Pairs(s) = {}
  PROVE  s = t
<1>1. Len(s) \in Nat /\ 0 \in 0 .. Len(s) /\ Len(s) \in 0 .. Len(s)
  BY LenProperties
<1>2. PICK h : Edits(h, s) /\ h[Len(s)] = t
  BY DEF Leaves
<1>3. /\ h[0] = <<>> /\ \A n \in 0 .. Len(s) : h[n] \in Seq(Letters)
      /\ \A n \in 1 .. Len(s) :
           \/ s[n] = "bs" /\ \E c \in Letters : h[n - 1] = Append(h[n], c)
           \/ s[n] \in Letters /\ h[n] = Append(h[n - 1], s[n])
  BY <1>2 DEF Edits
<1>4. ASSUME NEW n \in 1 .. Len(s) PROVE s[n] \in Letters /\ h[n] = Append(h[n - 1], s[n])
  <2> SUFFICES ASSUME s[n] = "bs", NEW c \in Letters, h[n - 1] = Append(h[n], c) PROVE FALSE
    BY <1>3
  <2>1. n \in 0 .. Len(s)
    BY <1>1
  <2>2. n # 1
    BY <1>3, <2>1, NotAppended
  <2>3. n - 1 \in 1 .. Len(s) - 1 /\ n - 1 + 1 = n
    BY <1>1, <2>2
  <2> QED
    BY <2>3 DEF Pairs
<1> DEFINE Upto == [n \in 0 .. Len(s) |->
             {u \in Seq(Letters) : Len(u) = n /\ \A i \in 1 .. n : u[i] = s[i]}]
<1>5. h[0] \in Upto[0]
  BY <1>1, <1>3
<1>6. ASSUME NEW n \in 1 .. Len(s), h[n - 1] \in Upto[n - 1] PROVE h[n] \in Upto[n]
  <2>1. n - 1 \in 0 .. Len(s) /\ n \in 0 .. Len(s)
    BY <1>1
  <2>2. PICK u : u = h[n - 1]
    OBVIOUS
  <2>3. u \in Seq(Letters) /\ Len(u) = n - 1 /\ \A i \in 1 .. n - 1 : u[i] = s[i]
    BY <1>6, <2>1, <2>2
  <2>4. /\ Append(u, s[n]) \in Seq(Letters) /\ Len(Append(u, s[n])) = Len(u) + 1
        /\ \A i \in 1 .. Len(u) : Append(u, s[n])[i] = u[i]
        /\ Append(u, s[n])[Len(u) + 1] = s[n]
    BY <1>4, <2>3, AppendProperties
  <2>5. h[n] = Append(u, s[n])
    BY <1>4, <2>2
  <2>6. \A i \in 1 .. n : i \in 1 .. n - 1 \/ i = n
    OBVIOUS
  <2>7. Len(h[n]) = n /\ \A i \in 1 .. n : h[n][i] = s[i]
    BY <2>3, <2>4, <2>5, <2>6
  <2> QED
    BY <1>3, <2>1, <2>7
<1>7. \A n \in 0 .. Len(s) : h[n] \in Upto[n]
  <2> HIDE DEF Upto
  <2> QED
    BY <1>1, <1>5, <1>6, PassedOn
<1>8. t \in Seq(Letters) /\ Len(t) = Len(s) /\ \A i \in 1 .. Len(s) : t[i] = s[i]
  BY <1>1, <1>2, <1>7
<1> QED
  BY <1>8, SeqEqual

\* A line that can be edited at all is what the screen would show of it once
\* removebackspace has cut its pairs.
LEMMA Removed ==
  ASSUME NEW s \in Seq(Typing), NEW t, Leaves(s, t)
  PROVE  removebackspace(s) = t
<1> DEFINE k == Len(s)
           Same == {v \in Seq(Typing) : Leaves(v, t)}
           Shorter(v) == IF Pairs(v) = {} THEN v ELSE Cut(v, Min(Pairs(v)))
           T == [n \in 0 .. k |-> {v \in Same : Pairs(v) = {} \/ Len(v) = k - 2 * n}]
           Step == [n \in 1 .. k |-> [v \in Same |-> Shorter(v)]]
           Left(m) == m = [n \in 0 .. k |->
             IF n = 0 THEN s
             ELSE LET u == m[n - 1] IN IF Pairs(u) = {} THEN u ELSE Cut(u, Min(Pairs(u)))]
<1>1. k \in Nat /\ 0 \in 0 .. k /\ k \in 0 .. k
  BY LenProperties
<1>2. s \in T[0]
  BY <1>1
<1>3. ASSUME NEW n \in 1 .. k, NEW v \in T[n - 1] PROVE v \in Same /\ Shorter(v) \in T[n]
  <2>1. n - 1 \in 0 .. k /\ n \in 0 .. k
    BY <1>1
  <2>2. v \in Same /\ (Pairs(v) = {} \/ Len(v) = k - 2 * (n - 1))
    BY <2>1
  <2>3. CASE Pairs(v) = {}
    BY <2>1, <2>2, <2>3
  <2>4. CASE Pairs(v) # {}
    <3>1. PICK w : w = Cut(v, Min(Pairs(v)))
      OBVIOUS
    <3>2. w \in Seq(Typing) /\ Len(w) = Len(v) - 2 /\ Leaves(w, t)
      BY <2>2, <2>4, <3>1, CutOnce
    <3>3. Len(w) = k - 2 * n
      <4>1. PICK l : l = Len(v)
        OBVIOUS
      <4>2. Len(w) = l - 2 /\ l = k - 2 * (n - 1)
        BY <2>2, <2>4, <3>2, <4>1
      <4> HIDE DEF k
      <4> QED
        BY <1>1, <4>2
    <3>4. Shorter(v) = w
      BY <2>4, <3>1
    <3> QED
      BY <2>1, <2>2, <3>2, <3>3, <3>4
  <2> QED
    BY <2>3, <2>4
<1>4. StepsWithin(k, T, Step)
  <2> HIDE DEF k, T, Shorter, Same
  <2>1. \A n \in 1 .. k : \A v \in T[n - 1] : Step[n][v] = Shorter(v)
    BY <1>3
  <2> HIDE DEF Step
  <2> QED
    BY <1>3, <2>1 DEF StepsWithin
<1>5. \E m : Left(m)
  <2>1. PICK m : Repeats(k, T, Step, s, m)
    <3> HIDE DEF k, T, Step
    <3> QED
      BY <1>1, <1>2, <1>4, Repeated
  <2>2. /\ m = [n \in 0 .. k |-> IF n = 0 THEN s ELSE Step[n][m[n - 1]]]
        /\ \A n \in 0 .. k : m[n] \in T[n]
    BY <2>1 DEF Repeats
  <2>3. \A n \in 0 .. k : n # 0 => n \in 1 .. k /\ n - 1 \in 0 .. k
    BY <1>1
  <2>4. \A n \in 0 .. k : n # 0 => Step[n][m[n - 1]] = Shorter(m[n - 1])
    <3> HIDE DEF k, T, Shorter, Same
    <3> QED
      BY <1>3, <2>2, <2>3
  <2>5. \A n \in 0 .. k : m[n] = IF n = 0 THEN s ELSE Shorter(m[n - 1])
    <3> HIDE DEF k, T, Shorter, Step
    <3> QED
      BY <2>2, <2>4
  <2>6. m = [n \in 0 .. k |-> m[n]]
    BY <2>2
  <2> QED
    BY <2>5, <2>6
<1> DEFINE left == CHOOSE m : Left(m)
<1>6. Left(left)
  BY <1>5
<1>7. removebackspace(s) = left[k]
  BY DEF removebackspace
<1> HIDE DEF left
<1>8. left[0] = s /\ \A n \in 1 .. k : left[n] = Shorter(left[n - 1])
  <2>1. \A n \in 1 .. k : n \in 0 .. k /\ n # 0
    BY <1>1
  <2> QED
    BY <1>1, <1>6, <2>1
<1>9. \A n \in 0 .. k : left[n] \in T[n]
  <2> HIDE DEF T, Shorter, k
  <2>1. \A n \in 1 .. k : left[n - 1] \in T[n - 1] => left[n] \in T[n]
    BY <1>3, <1>8
  <2> QED
    BY <1>1, <1>2, <1>8, <2>1, PassedOn
<1>10. left[k] \in Same /\ (Pairs(left[k]) = {} \/ Len(left[k]) = k - 2 * k)
  BY <1>1, <1>9
<1>11. Pairs(left[k]) = {}
  <2> SUFFICES ASSUME Len(left[k]) = k - 2 * k PROVE Pairs(left[k]) = {}
    BY <1>10
  <2>1. Len(left[k]) \in Nat
    BY <1>10, LenProperties
  <2>2. Len(left[k]) = 0
    <3>1. PICK l : l = Len(left[k])
      OBVIOUS
    <3>2. l \in Nat /\ l = k - 2 * k
      BY <2>1, <3>1
    <3> HIDE DEF k
    <3> QED
      BY <1>1, <3>1, <3>2
  <2> QED
    BY <2>2 DEF Pairs
<1> QED
  BY <1>7, <1>10, <1>11, NothingToCut

LEMMA Greatest ==
  ASSUME NEW n \in Nat, NEW K, K \subseteq 1 .. n, K # {}
  PROVE  Max(K) \in K /\ \A i \in K : i <= Max(K)
<1> DEFINE Far == {n - i : i \in K}
<1>1. Far \subseteq Nat /\ Far # {}
  <2>1. \A i \in K : n - i \in Nat
    OBVIOUS
  <2> QED
    BY <2>1
<1>2. Min(Far) \in Far /\ \A d \in Far : Min(Far) <= d
  <2> HIDE DEF Far
  <2> QED
    BY <1>1, Least
<1>3. PICK m \in K : n - m = Min(Far)
  BY <1>2
<1>4. ASSUME NEW i \in K PROVE i <= m
  <2>1. n - m <= n - i /\ i \in 1 .. n /\ m \in 1 .. n
    BY <1>2, <1>3
  <2> QED
    BY <2>1
<1>5. K \in SUBSET Int
  OBVIOUS
<1>6. Max(K) = m
  BY <1>4, <1>5, LargestOf
<1> QED
  BY <1>4, <1>6

\* Lines that agree as far as they are cut.
LEMMA SameSlice ==
  ASSUME NEW S, NEW a \in Seq(S), NEW b \in Seq(S), Len(a) <= Len(b),
         \A i \in 1 .. Len(a) : b[i] = a[i],
         NEW m \in 1 .. Len(a), NEW n \in 1 .. Len(a)
  PROVE  SubSeq(a, m, n) = SubSeq(b, m, n)
<1>1. Len(a) \in Nat /\ Len(b) \in Nat /\ m \in Int /\ n \in Int
  BY LenProperties
<1>2. \A i \in m .. n : i \in 1 .. Len(a) /\ i \in 1 .. Len(b)
  BY <1>1
<1>3. \A i \in m .. n : a[i] \in S /\ b[i] = a[i]
  BY <1>2, ElementOfSeq
<1>4. /\ SubSeq(a, m, n) \in Seq(S) /\ Len(SubSeq(a, m, n)) = IF m <= n THEN n - m + 1 ELSE 0
      /\ \A i \in 1 .. n - m + 1 : SubSeq(a, m, n)[i] = a[m + i - 1]
  BY <1>1, <1>3, SubSeqProperties
<1>5. /\ SubSeq(b, m, n) \in Seq(S) /\ Len(SubSeq(b, m, n)) = IF m <= n THEN n - m + 1 ELSE 0
      /\ \A i \in 1 .. n - m + 1 : SubSeq(b, m, n)[i] = b[m + i - 1]
  <2>1. \A i \in m .. n : b[i] \in S
    BY <1>3
  <2> QED
    BY <1>1, <2>1, SubSeqProperties
<1>6. \A i \in 1 .. n - m + 1 : m + i - 1 \in m .. n
  BY <1>1
<1>7. \A i \in 1 .. Len(SubSeq(a, m, n)) : i \in 1 .. n - m + 1
  BY <1>1, <1>4
<1>8. \A i \in 1 .. Len(SubSeq(a, m, n)) : SubSeq(a, m, n)[i] = SubSeq(b, m, n)[i]
  BY <1>3, <1>4, <1>5, <1>6, <1>7
<1>9. Len(SubSeq(a, m, n)) = Len(SubSeq(b, m, n))
  BY <1>4, <1>5
<1> QED
  BY <1>4, <1>5, <1>8, <1>9, SeqEqual

\* trim does not see blanks at the end.
LEMMA TrimSame ==
  ASSUME NEW S, NEW a \in Seq(S), NEW b \in Seq(S), Len(a) <= Len(b),
         \A i \in 1 .. Len(a) : b[i] = a[i],
         \A i \in 1 .. Len(b) : i > Len(a) => b[i] = BLANK
  PROVE  lua_trim(a) = lua_trim(b)
<1> DEFINE Kept(s) == {i \in DOMAIN s : ~IsSpace(s[i])}
<1>1. /\ Len(a) \in Nat /\ Len(b) \in Nat
      /\ DOMAIN a = 1 .. Len(a) /\ DOMAIN b = 1 .. Len(b)
  BY LenProperties
<1>2. IsSpace(BLANK)
  BY DEF IsSpace
<1>3. Kept(a) = Kept(b)
  <2>1. \A i \in 1 .. Len(b) : i \in 1 .. Len(a) \/ i > Len(a)
    BY <1>1
  <2>2. \A i \in 1 .. Len(a) : i \in 1 .. Len(b)
    BY <1>1
  <2> QED
    BY <1>1, <1>2, <2>1, <2>2
<1>4. PICK K : K = Kept(a)
  OBVIOUS
<1>5. /\ lua_trim(a) = IF K = {} THEN <<>> ELSE SubSeq(a, Min(K), Max(K))
      /\ lua_trim(b) = IF K = {} THEN <<>> ELSE SubSeq(b, Min(K), Max(K))
  BY <1>3, <1>4 DEF lua_trim
<1>6. CASE K = {}
  BY <1>5, <1>6
<1>7. CASE K # {}
  <2>1. K \subseteq 1 .. Len(a)
    BY <1>1, <1>4
  <2>2. Min(K) \in K
    <3>1. K \subseteq Nat
      BY <1>1, <2>1
    <3> QED
      BY <1>7, <3>1, Least
  <2>3. Max(K) \in K
    BY <1>1, <1>7, <2>1, Greatest
  <2>4. PICK m, n : m = Min(K) /\ n = Max(K)
    OBVIOUS
  <2>5. m \in 1 .. Len(a) /\ n \in 1 .. Len(a)
    BY <2>1, <2>2, <2>3, <2>4
  <2>6. SubSeq(a, m, n) = SubSeq(b, m, n)
    BY <1>1, <2>5, SameSlice
  <2> QED
    BY <1>5, <1>7, <2>4, <2>6
<1> QED
  BY <1>6, <1>7

\* trim keeps a line that does not begin with a blank up to its last character
\* that is none.
LEMMA TrimLine ==
  ASSUME NEW s \in Seq(Typing), s # <<>>, s[1] # BLANK
  PROVE  \E m \in 1 .. Len(s) : /\ lua_trim(s) = SubSeq(s, 1, m)
                                /\ \A i \in m + 1 .. Len(s) : s[i] = BLANK
<1> DEFINE Kept == {i \in DOMAIN s : ~IsSpace(s[i])}
<1>1. Len(s) \in Nat /\ DOMAIN s = 1 .. Len(s) /\ Len(s) # 0 /\ \A i \in 1 .. Len(s) : s[i] \in Typing
  BY LenProperties, EmptySeq, ElementOfSeq
<1>2. 1 \in Kept
  BY <1>1, LetterKinds
<1>3. Kept \subseteq 1 .. Len(s)
  BY <1>1
<1>4. lua_trim(s) = SubSeq(s, Min(Kept), Max(Kept))
  BY <1>2 DEF lua_trim
<1>5. \A i \in 1 .. Len(s) : i \notin Kept => s[i] = BLANK
  BY <1>1, LetterKinds
<1> HIDE DEF Kept
<1>6. Min(Kept) = 1
  <2>1. Kept \in SUBSET Int /\ 1 \in Kept /\ \A x \in Kept : 1 <= x
    BY <1>1, <1>2, <1>3
  <2> QED
    BY <2>1, SmallestOf
<1>7. Max(Kept) \in Kept /\ \A i \in Kept : i <= Max(Kept)
  BY <1>1, <1>2, <1>3, Greatest
<1>8. PICK m : m = Max(Kept)
  OBVIOUS
<1>9. m \in 1 .. Len(s) /\ \A i \in Kept : i <= m
  BY <1>3, <1>7, <1>8
<1>10. \A i \in m + 1 .. Len(s) : i \in 1 .. Len(s) /\ i \notin Kept
  <2> SUFFICES ASSUME NEW i \in m + 1 .. Len(s) PROVE i \in 1 .. Len(s) /\ ~(i <= m)
    BY <1>9
  <2> QED
    BY <1>1, <1>9
<1> QED
  BY <1>4, <1>5, <1>6, <1>8, <1>9, <1>10

\* io.read takes the whole of a line without a NUL.
LEMMA LineIsRead ==
  ASSUME NEW s \in Seq(Typing)
  PROVE  CLine(s) = s
<1> DEFINE all == s \o <<"nul">>
           Nuls == {i \in 1 .. Len(all) : all[i] = "nul"}
<1>1. /\ Len(s) \in Nat /\ all \in Seq(Bytes) /\ Len(all) = Len(s) + 1
      /\ \A i \in 1 .. Len(s) : all[i] = s[i] /\ s[i] # "nul"
      /\ all[Len(s) + 1] = "nul"
  <2>1. s \in Seq(Bytes) /\ "nul" \in Bytes
    BY LetterKinds, SeqMonotonic DEF Bytes, Silent
  <2>2. all \in Seq(Bytes) /\ Len(all) = Len(s) + 1
        /\ \A i \in 1 .. Len(s) : all[i] = s[i]
        /\ all[Len(s) + 1] = "nul"
    BY <2>1, OneMore
  <2>3. \A i \in 1 .. Len(s) : s[i] # "nul"
    BY ElementOfSeq, LetterKinds
  <2> QED
    BY <2>2, <2>3, LenProperties
<1> HIDE DEF all
<1>2. Nuls = {Len(s) + 1}
  <2>1. \A i \in 1 .. Len(s) + 1 : i \in 1 .. Len(s) \/ i = Len(s) + 1
    BY <1>1
  <2>2. Len(s) + 1 \in 1 .. Len(s) + 1
    BY <1>1
  <2> QED
    BY <1>1, <2>1, <2>2
<1>3. Min(Nuls) = Len(s) + 1
  <2>1. Len(s) + 1 \in Nuls /\ Nuls \in SUBSET Int /\ \A x \in Nuls : Len(s) + 1 <= x
    BY <1>1, <1>2
  <2> HIDE DEF Nuls
  <2> QED
    BY <2>1, SmallestOf
<1> DEFINE m == Min(Nuls)
<1>4. SelectInSeq(all, LAMBDA c : c = "nul") = m
  BY <1>2 DEF SelectInSeq
<1>5. CLine(s) = SubSeq(s, 1, m - 1)
  BY <1>4 DEF CLine, all
<1> HIDE DEF m, Nuls
<1> QED
  <2>1. m = Len(s) + 1
    BY <1>3 DEF m
  <2>2. m - 1 = Len(s)
    BY <1>1, <2>1
  <2> QED
    BY <1>5, <2>2, SubSeqFull

\* Blanks at the end of a line are blanks at the end of the text that it leaves.
LEMMA EndOfLine ==
  ASSUME NEW s \in Seq(Typing), NEW t, Leaves(s, t), NEW m \in 1 .. Len(s),
         \A i \in m + 1 .. Len(s) : s[i] = BLANK
  PROVE  \E u \in Seq(Letters) :
           /\ Leaves(SubSeq(s, 1, m), u) /\ t \in Seq(Letters) /\ Len(u) <= Len(t)
           /\ \A i \in 1 .. Len(u) : t[i] = u[i]
           /\ \A i \in 1 .. Len(t) : i > Len(u) => t[i] = BLANK
<1>1. Len(s) \in Nat /\ m \in Nat /\ m <= Len(s) /\ Len(s) \in 0 .. Len(s) /\ m \in 0 .. Len(s)
  BY LenProperties
<1>2. PICK h : Edits(h, s) /\ h[Len(s)] = t
  BY DEF Leaves
<1>3. /\ h[0] = <<>> /\ \A n \in 0 .. Len(s) : h[n] \in Seq(Letters)
      /\ \A n \in 1 .. Len(s) :
           \/ s[n] = "bs" /\ \E c \in Letters : h[n - 1] = Append(h[n], c)
           \/ s[n] \in Letters /\ h[n] = Append(h[n - 1], s[n])
  BY <1>2 DEF Edits
<1> DEFINE v == SubSeq(s, 1, m)
           g == [n \in 0 .. m |-> h[n]]
<1>4. Len(v) = m /\ \A n \in 1 .. m : v[n] = s[n]
  <2>1. \A i \in 1 .. m : s[i] \in Typing /\ 1 + i - 1 = i
    <3>1. \A i \in 1 .. m : i \in 1 .. Len(s)
      BY <1>1
    <3> QED
      BY <1>1, <3>1, ElementOfSeq
  <2>2. m - 1 + 1 = m /\ 1 <= m
    BY <1>1
  <2>3. Len(v) = m /\ \A i \in 1 .. m : v[i] = s[1 + i - 1]
    BY <1>1, <2>1, <2>2, SubSeqProperties
  <2> QED
    BY <2>1, <2>3
<1> HIDE DEF v
<1>5. Leaves(v, h[m])
  <2>1. \A n \in 1 .. m : n \in 1 .. Len(s) /\ n \in 0 .. m /\ n - 1 \in 0 .. m
    BY <1>1
  <2>2. \A n \in 0 .. m : n \in 0 .. Len(s)
    BY <1>1
  <2>3. 0 \in 0 .. m /\ m \in 0 .. m
    BY <1>1
  <2>4. \A n \in 0 .. m : g[n] = h[n]
    OBVIOUS
  <2>5. g \in [0 .. m -> Seq(Letters)]
    BY <1>3, <2>2
  <2> HIDE DEF g
  <2>6. \A n \in 1 .. m : v[n] = s[n] /\ g[n] = h[n] /\ g[n - 1] = h[n - 1]
    BY <1>4, <2>1, <2>4
  <2>7. \A n \in 1 .. m :
          \/ v[n] = "bs" /\ \E c \in Letters : g[n - 1] = Append(g[n], c)
          \/ v[n] \in Letters /\ g[n] = Append(g[n - 1], v[n])
    BY <1>3, <2>1, <2>6
  <2>8. Edits(g, v)
    BY <1>3, <1>4, <2>3, <2>4, <2>5, <2>7 DEF Edits
  <2> QED
    BY <1>4, <2>3, <2>4, <2>8 DEF Leaves
<1> DEFINE u == h[m]
           k == Len(s) - m
           With == [j \in 0 .. k |->
             {w \in Seq(Letters) : /\ Len(w) = Len(u) + j
                                   /\ \A i \in 1 .. Len(u) : w[i] = u[i]
                                   /\ \A i \in 1 .. Len(w) : i > Len(u) => w[i] = BLANK}]
           tail == [j \in 0 .. k |-> h[m + j]]
<1>6. k \in Nat /\ 0 \in 0 .. k /\ k \in 0 .. k /\ u \in Seq(Letters) /\ Len(u) \in Nat /\ m + 0 = m
  BY <1>1, <1>3, LenProperties
<1>7. tail[0] \in With[0]
  <2>1. tail[0] = u
    BY <1>6
  <2> HIDE DEF tail, u
  <2>2. \A i \in 1 .. Len(u) : ~(i > Len(u))
    BY <1>6
  <2> QED
    BY <1>6, <2>1, <2>2
<1>8. ASSUME NEW j \in 1 .. k, tail[j - 1] \in With[j - 1] PROVE tail[j] \in With[j]
  <2>1. /\ j - 1 \in 0 .. k /\ j \in 0 .. k /\ m + j \in m + 1 .. Len(s) /\ m + j \in 1 .. Len(s)
        /\ m + (j - 1) = m + j - 1 /\ m + j \in 0 .. Len(s) /\ j \in Nat
    BY <1>1
  <2>2. PICK w : w = h[m + j - 1]
    OBVIOUS
  <2>3. tail[j - 1] = w /\ tail[j] = h[m + j]
    BY <2>1, <2>2
  <2>4. s[m + j] = BLANK /\ BLANK # "bs" /\ BLANK \in Letters
    BY <2>1, LetterKinds
  <2>5. h[m + j] = Append(w, BLANK)
    BY <1>3, <2>1, <2>2, <2>4
  <2> HIDE DEF u, tail, k
  <2>6. /\ w \in Seq(Letters) /\ Len(w) = Len(u) + (j - 1)
        /\ \A i \in 1 .. Len(u) : w[i] = u[i]
        /\ \A i \in 1 .. Len(w) : i > Len(u) => w[i] = BLANK
    BY <1>8, <2>1, <2>3
  <2>7. PICK x : x = Append(w, BLANK)
    OBVIOUS
  <2>8. /\ x \in Seq(Letters) /\ Len(x) = Len(w) + 1
        /\ \A i \in 1 .. Len(w) : x[i] = w[i]
        /\ x[Len(w) + 1] = BLANK
    BY <2>4, <2>6, <2>7, AppendProperties
  <2>9. Len(x) = Len(u) + j /\ Len(w) \in Nat
    BY <1>6, <2>1, <2>6, <2>8
  <2>10. \A i \in 1 .. Len(u) : i \in 1 .. Len(w)
    BY <1>6, <2>1, <2>6
  <2>11. \A i \in 1 .. Len(x) : i \in 1 .. Len(w) \/ i = Len(w) + 1
    BY <2>8, <2>9
  <2>12. x \in With[j]
    BY <2>1, <2>6, <2>8, <2>9, <2>10, <2>11
  <2> QED
    BY <2>3, <2>5, <2>7, <2>12
<1>9. \A j \in 0 .. k : tail[j] \in With[j]
  <2> HIDE DEF tail, With, k
  <2> QED
    BY <1>6, <1>7, <1>8, PassedOn
<1>10. t \in With[k]
  <2>1. m + k = Len(s)
    BY <1>1
  <2> QED
    BY <1>2, <1>6, <1>9, <2>1
<1> HIDE DEF u, k
<1>11. /\ t \in Seq(Letters) /\ Len(t) = Len(u) + k
       /\ \A i \in 1 .. Len(u) : t[i] = u[i]
       /\ \A i \in 1 .. Len(t) : i > Len(u) => t[i] = BLANK
  BY <1>6, <1>10
<1>12. Len(u) <= Len(t)
  BY <1>6, <1>11
<1> QED
  BY <1>5, <1>6, <1>11, <1>12 DEF v, u

\* The command of a line that leaves the text t is what trim makes of a row
\* that shows t and blanks.
LEMMA CommandSeen ==
  ASSUME NEW s \in Seq(Typing), s # <<>> => s[1] # BLANK, NEW t, Leaves(s, t),
         NEW row \in Seq(Letters), Len(t) <= Len(row),
         \A i \in 1 .. Len(row) : row[i] = IF i <= Len(t) THEN t[i] ELSE BLANK
  PROVE  lua_trim(Command(s)) = lua_trim(row)
<1>1. CLine(s) = s
  BY LineIsRead
<1>2. \E u \in Seq(Letters) :
        /\ Leaves(lua_trim(s), u) /\ lua_trim(s) \in Seq(Typing)
        /\ t \in Seq(Letters) /\ Len(u) <= Len(t)
        /\ \A i \in 1 .. Len(u) : t[i] = u[i]
        /\ \A i \in 1 .. Len(t) : i > Len(u) => t[i] = BLANK
  <2>1. CASE s = <<>>
    <3>1. PICK h : Edits(h, s) /\ h[Len(s)] = t
      BY DEF Leaves
    <3>2. t = <<>>
      BY <2>1, <3>1 DEF Edits
    <3>3. lua_trim(s) = <<>>
      BY <2>1 DEF lua_trim
    <3>4. Leaves(lua_trim(s), <<>>) /\ lua_trim(s) \in Seq(Typing)
      BY <2>1, <3>2, <3>3
    <3>5. t \in Seq(Letters) /\ Len(t) = 0
      BY <3>2
    <3>6. \A i \in 1 .. Len(t) : FALSE
      BY <3>5
    <3>7. Leaves(lua_trim(s), t) /\ Len(t) <= Len(t)
      BY <3>2, <3>4, <3>5
    <3> QED
      BY <3>4, <3>5, <3>6, <3>7
  <2>2. CASE s # <<>>
    <3>1. PICK m \in 1 .. Len(s) : /\ lua_trim(s) = SubSeq(s, 1, m)
                                  /\ \A i \in m + 1 .. Len(s) : s[i] = BLANK
      BY <2>2, TrimLine
    <3>2. SubSeq(s, 1, m) \in Seq(Typing)
      <4>1. \A i \in 1 .. m : i \in 1 .. Len(s)
        BY LenProperties
      <4>2. \A i \in 1 .. m : s[i] \in Typing
        BY <4>1, ElementOfSeq
      <4> QED
        BY <4>2, SubSeqProperties
    <3>3. PICK u \in Seq(Letters) :
            /\ Leaves(SubSeq(s, 1, m), u) /\ t \in Seq(Letters) /\ Len(u) <= Len(t)
            /\ \A i \in 1 .. Len(u) : t[i] = u[i]
            /\ \A i \in 1 .. Len(t) : i > Len(u) => t[i] = BLANK
      BY <3>1, EndOfLine
    <3>4. Leaves(lua_trim(s), u) /\ lua_trim(s) \in Seq(Typing)
      BY <3>1, <3>2, <3>3
    <3> QED
      BY <3>3, <3>4
  <2> QED
    BY <2>1, <2>2
<1>3. PICK u \in Seq(Letters) :
        /\ Leaves(lua_trim(s), u) /\ lua_trim(s) \in Seq(Typing)
        /\ t \in Seq(Letters) /\ Len(u) <= Len(t)
        /\ \A i \in 1 .. Len(u) : t[i] = u[i]
        /\ \A i \in 1 .. Len(t) : i > Len(u) => t[i] = BLANK
  BY <1>2
<1>4. Command(s) = u
  BY <1>1, <1>3, Removed DEF Command
<1>5. Len(u) \in Nat /\ Len(t) \in Nat /\ Len(row) \in Nat /\ Len(u) <= Len(row)
  <2>1. Len(u) \in Nat /\ Len(t) \in Nat /\ Len(row) \in Nat
    BY <1>3, LenProperties
  <2> QED
    BY <1>3, <2>1
<1>6. \A i \in 1 .. Len(u) : row[i] = u[i]
  <2>1. \A i \in 1 .. Len(u) : i \in 1 .. Len(row) /\ i <= Len(t)
    BY <1>3, <1>5
  <2> QED
    BY <1>3, <2>1
<1>7. \A i \in 1 .. Len(row) : i > Len(u) => row[i] = BLANK
  <2>1. \A i \in 1 .. Len(row) : i <= Len(t) => i \in 1 .. Len(t)
    BY <1>5
  <2> QED
    BY <1>3, <2>1
<1> QED
  BY <1>4, <1>5, <1>6, <1>7, TrimSame

-----------------------------------------------------------------------------
(* A key, on the line and on the screen.                                   *)

\* A letter is added to the text, a backspace takes its last letter back.
LEMMA LineGoesOn ==
  ASSUME NEW s \in Seq(Typing), NEW t, Leaves(s, t), NEW c, NEW w \in Seq(Letters),
         \/ c \in Letters /\ w = Append(t, c)
         \/ c = "bs" /\ \E d \in Letters : t = Append(w, d)
  PROVE  Leaves(Append(s, c), w) /\ Append(s, c) \in Seq(Typing)
<1>1. Len(s) \in Nat /\ Len(s) \in 0 .. Len(s)
  BY LenProperties
<1>2. PICK h : Edits(h, s) /\ h[Len(s)] = t
  BY DEF Leaves
<1>3. /\ h[0] = <<>> /\ \A n \in 0 .. Len(s) : h[n] \in Seq(Letters)
      /\ \A n \in 1 .. Len(s) :
           \/ s[n] = "bs" /\ \E d \in Letters : h[n - 1] = Append(h[n], d)
           \/ s[n] \in Letters /\ h[n] = Append(h[n - 1], s[n])
  BY <1>2 DEF Edits
<1>4. PICK v : v = Append(s, c)
  OBVIOUS
<1>5. /\ v \in Seq(Typing) /\ Len(v) = Len(s) + 1
      /\ \A n \in 1 .. Len(s) : v[n] = s[n]
      /\ v[Len(s) + 1] = c
  <2>1. c \in Typing
    BY DEF Typing
  <2> QED
    BY <1>4, <2>1, AppendProperties
<1> DEFINE k == Len(s) + 1
           g == [n \in 0 .. k |-> IF n = k THEN w ELSE h[n]]
<1>6. \A n \in 0 .. k : n = k \/ n \in 0 .. Len(s)
  BY <1>1
<1>7. g \in [0 .. k -> Seq(Letters)]
  BY <1>3, <1>6
<1>8. g[k] = w /\ \A n \in 0 .. Len(s) : g[n] = h[n]
  <2>1. k \in 0 .. k /\ \A n \in 0 .. Len(s) : n \in 0 .. k /\ n # k
    BY <1>1
  <2> QED
    BY <2>1
<1>9. 0 \in 0 .. Len(s) /\ k - 1 = Len(s)
  BY <1>1
<1> HIDE DEF g
<1>10. ASSUME NEW n \in 1 .. k
       PROVE  \/ v[n] = "bs" /\ \E d \in Letters : g[n - 1] = Append(g[n], d)
              \/ v[n] \in Letters /\ g[n] = Append(g[n - 1], v[n])
  <2>1. CASE n = k
    <3>1. v[n] = c /\ g[n] = w /\ g[n - 1] = t
      BY <1>1, <1>2, <1>5, <1>8, <1>9, <2>1
    <3> QED
      BY <3>1
  <2>2. CASE n # k
    <3>1. n \in 1 .. Len(s) /\ n \in 0 .. Len(s) /\ n - 1 \in 0 .. Len(s)
      BY <1>1, <2>2
    <3>2. v[n] = s[n] /\ g[n] = h[n] /\ g[n - 1] = h[n - 1]
      BY <1>5, <1>8, <3>1
    <3> QED
      BY <1>3, <3>1, <3>2
  <2> QED
    BY <2>1, <2>2
<1>11. Edits(g, v)
  BY <1>3, <1>5, <1>7, <1>8, <1>9, <1>10 DEF Edits
<1> QED
  BY <1>4, <1>5, <1>8, <1>11 DEF Leaves

\* The letters less the backspaces, as a line goes on.
LEMMA DepthGoesOn ==
  ASSUME NEW s \in Seq(Bytes), NEW c \in Bytes
  PROVE  /\ \A n \in 0 .. Len(s) : Depth(Append(s, c), n) = Depth(s, n)
         /\ Depth(s, Len(s)) \in Int
         /\ Depth(Append(s, c), Len(s) + 1) =
              IF c = "bs" THEN Depth(s, Len(s)) - 1 ELSE Depth(s, Len(s)) + 1
<1> DEFINE v == Append(s, c)
           k == Len(s)
           Typed(u, n) == {i \in 1 .. n : u[i] # "bs"}
           Undone(u, n) == {i \in 1 .. n : u[i] = "bs"}
<1>1. /\ k \in Nat /\ Len(v) = k + 1
      /\ \A i \in 1 .. k : v[i] = s[i]
      /\ v[k + 1] = c
  BY LenProperties, AppendProperties
<1> HIDE DEF v
<1>2. ASSUME NEW n \in 0 .. k PROVE Typed(v, n) = Typed(s, n) /\ Undone(v, n) = Undone(s, n)
  <2>1. \A i \in 1 .. n : i \in 1 .. k
    BY <1>1
  <2> QED
    BY <1>1, <2>1
<1>3. \A n \in 0 .. k : Depth(v, n) = Depth(s, n)
  BY <1>2 DEF Depth
<1>4. PICK a, b : a = Typed(s, k) /\ b = Undone(s, k)
  OBVIOUS
<1>5. IsFiniteSet(a) /\ IsFiniteSet(b) /\ Cardinality(a) \in Nat /\ Cardinality(b) \in Nat
  <2>1. IsFiniteSet(1 .. k)
    BY <1>1, FS_Interval
  <2>2. a \subseteq 1 .. k /\ b \subseteq 1 .. k
    BY <1>4
  <2> QED
    BY <2>1, <2>2, FS_Subset, FS_CardinalityType
<1>6. \A i \in 1 .. k + 1 : i \in 1 .. k \/ i = k + 1
  BY <1>1
<1>7. k + 1 \in 1 .. k + 1 /\ k + 1 \notin 1 .. k /\ \A i \in 1 .. k : i \in 1 .. k + 1
  BY <1>1
<1>8. k + 1 \notin a /\ k + 1 \notin b
  BY <1>4, <1>7
<1>9. PICK x, y : x = Cardinality(a) /\ y = Cardinality(b)
  OBVIOUS
<1>10. Depth(s, k) = x - y
  BY <1>4, <1>9 DEF Depth
<1>11. CASE c = "bs"
  <2>1. Typed(v, k + 1) = a
    BY <1>1, <1>4, <1>6, <1>7, <1>11
  <2>2. Undone(v, k + 1) = b \cup {k + 1}
    BY <1>1, <1>4, <1>6, <1>7, <1>11
  <2>3. Cardinality(b \cup {k + 1}) = y + 1
    BY <1>5, <1>8, <1>9, FS_AddElement
  <2>4. Depth(v, k + 1) = x - (y + 1)
    BY <1>9, <2>1, <2>2, <2>3 DEF Depth
  <2> QED
    BY <1>3, <1>5, <1>9, <1>10, <1>11, <2>4 DEF v
<1>12. CASE c # "bs"
  <2>1. Undone(v, k + 1) = b
    BY <1>1, <1>4, <1>6, <1>7, <1>12
  <2>2. Typed(v, k + 1) = a \cup {k + 1}
    BY <1>1, <1>4, <1>6, <1>7, <1>12
  <2>3. Cardinality(a \cup {k + 1}) = x + 1
    BY <1>5, <1>8, <1>9, FS_AddElement
  <2>4. Depth(v, k + 1) = (x + 1) - y
    BY <1>9, <2>1, <2>2, <2>3 DEF Depth
  <2> QED
    BY <1>3, <1>5, <1>9, <1>10, <1>12, <2>4 DEF v
<1> QED
  BY <1>11, <1>12

\* A letter that the row has room for.
LEMMA LetterPut ==
  ASSUME NEW s \in ScreenState, NEW c \in Letters, attrib \in Attribs,
         s.x \in 0 .. W - 2, s.y \in 0 .. H - 1
  PROVE  LET r == vga_putchar(s, c) IN
         /\ r \in ScreenState /\ r.x = s.x + 1 /\ r.y = s.y
         /\ \A i \in ScreenCells :
              r.cells[i].ch = IF i = s.y * W + s.x THEN c ELSE s.cells[i].ch
<1> DEFINE at == s.y * W + s.x
           cell == [ch |-> c, at |-> attrib]
           q == Moved(s, c)
<1>1. s = [cells |-> s.cells, x |-> s.x, y |-> s.y] /\ s.cells \in [Memory -> Cell]
  BY DEF ScreenState
<1>2. Prints(c) /\ c \in Bytes /\ cell \in Cell /\ cell.ch = c
  BY LetterKinds DEF Cell
<1>3. at \in ScreenCells /\ at \in Memory
  <2>1. s.x \in 0 .. W - 1
    BY Dimensions
  <2> QED
    BY <2>1, CellOf, CellNames
<1>4. q = [s EXCEPT !.cells[at] = cell, !.x = s.x + 1]
  BY <1>2, MovedForms
<1> HIDE DEF at, cell, q
<1>5. q = [cells |-> [s.cells EXCEPT ![at] = cell], x |-> s.x + 1, y |-> s.y]
  BY <1>1, <1>4
<1>6. /\ q.cells = [s.cells EXCEPT ![at] = cell] /\ q.x = s.x + 1 /\ q.y = s.y
      /\ q.cells \in [Memory -> Cell] /\ q.x \in Int /\ q.y \in Int
      /\ q = [cells |-> q.cells, x |-> q.x, y |-> q.y]
  BY <1>1, <1>2, <1>3, <1>5
<1>7. q \in ScreenState
  BY <1>6 DEF ScreenState
<1>8. q.x < W /\ q.y \in 0 .. H + 1 /\ q.y < H
  BY <1>6, Dimensions
<1>9. Wrapped(q) = q
  BY <1>7, <1>8, WrappedForms
<1>10. scroll(q) = q
  BY <1>7, <1>8, ScrollForms
<1>11. vga_putchar(s, c) = q
  BY <1>9, <1>10 DEF vga_putchar, q
<1>12. \A i \in ScreenCells : q.cells[i].ch = IF i = at THEN c ELSE s.cells[i].ch
  BY <1>1, <1>2, <1>3, <1>6, CellNames
<1> QED
  BY <1>6, <1>7, <1>11, <1>12 DEF at

\* A step back from behind the first column.
LEMMA StepBack ==
  ASSUME NEW s \in ScreenState, attrib \in Attribs, s.x \in 1 .. W - 1, s.y \in 0 .. H - 1
  PROVE  LET r == vga_putchar(s, "bs") IN
         r \in ScreenState /\ r.x = s.x - 1 /\ r.y = s.y /\ r.cells = s.cells
<1> DEFINE q == Moved(s, "bs")
<1>1. s = [cells |-> s.cells, x |-> s.x, y |-> s.y] /\ s.cells \in [Memory -> Cell] /\ s.x # 0
  BY DEF ScreenState
<1>2. q = [s EXCEPT !.x = s.x - 1]
  BY <1>1, MovedForms
<1> HIDE DEF q
<1>3. q = [cells |-> s.cells, x |-> s.x - 1, y |-> s.y]
  BY <1>1, <1>2
<1>4. q \in ScreenState /\ q.x = s.x - 1 /\ q.y = s.y /\ q.cells = s.cells
  BY <1>1, <1>3 DEF ScreenState
<1>5. q.x < W /\ q.y \in 0 .. H + 1 /\ q.y < H
  BY <1>4, Dimensions
<1>6. Wrapped(q) = q
  BY <1>4, <1>5, WrappedForms
<1>7. scroll(q) = q
  BY <1>4, <1>5, ScrollForms
<1>8. vga_putchar(s, "bs") = q
  BY <1>6, <1>7 DEF vga_putchar, q
<1> QED
  BY <1>4, <1>8

\* The echo of a backspace wipes the cell before the cursor and goes there.
LEMMA BackEchoed ==
  ASSUME NEW s \in ScreenState, attrib \in Attribs, s.x \in 1 .. W - 1, s.y \in 0 .. H - 1
  PROVE  LET r == Each(vga_putchar, s, Echo("bs")) IN
         /\ r \in ScreenState /\ r.x = s.x - 1 /\ r.y = s.y
         /\ \A i \in ScreenCells :
              r.cells[i].ch = IF i = s.y * W + (s.x - 1) THEN BLANK ELSE s.cells[i].ch
<1> DEFINE a == vga_putchar(s, "bs")
           b == vga_putchar(a, BLANK)
           d == vga_putchar(b, "bs")
<1>1. Each(vga_putchar, s, Echo("bs")) = d
  <2>1. Echo("bs") = <<"bs", BLANK, "bs">>
    BY DEF Echo
  <2> QED
    BY <2>1 DEF Each
<1>2. a \in ScreenState /\ a.x = s.x - 1 /\ a.y = s.y /\ a.cells = s.cells
  BY StepBack
<1> HIDE DEF a
<1>3. a.x \in 0 .. W - 2 /\ a.y \in 0 .. H - 1 /\ BLANK \in Letters
  BY <1>2, Dimensions, LetterKinds
<1>4. /\ b \in ScreenState /\ b.x = a.x + 1 /\ b.y = a.y
      /\ \A i \in ScreenCells :
           b.cells[i].ch = IF i = a.y * W + a.x THEN BLANK ELSE a.cells[i].ch
  BY <1>2, <1>3, LetterPut
<1> HIDE DEF b
<1>5. b.x \in 1 .. W - 1 /\ b.y \in 0 .. H - 1
  BY <1>3, <1>4, Dimensions
<1>6. d \in ScreenState /\ d.x = b.x - 1 /\ d.y = b.y /\ d.cells = b.cells
  BY <1>4, <1>5, StepBack
<1> HIDE DEF d
<1>7. d.x = s.x - 1 /\ d.y = s.y
  BY <1>2, <1>3, <1>4, <1>6, Dimensions
<1>8. \A i \in ScreenCells :
        d.cells[i].ch = IF i = s.y * W + (s.x - 1) THEN BLANK ELSE s.cells[i].ch
  BY <1>2, <1>4, <1>6
<1> QED
  BY <1>1, <1>6, <1>7, <1>8

-----------------------------------------------------------------------------
(* The line and the row of the screen.                                     *)

\* The row shows t behind the prompt, and blanks behind t.
RowShows(t) ==
  \A i \in 1 .. W - prompt[1] :
    cells[csr_y * W + prompt[1] + i - 1].ch = IF i <= Len(t) THEN t[i] ELSE BLANK
LineShown(t) ==
  /\ t \in Seq(Letters) /\ Leaves(line, t)
  /\ Len(t) = Depth(line, Len(line)) /\ csr_x = prompt[1] + Len(t)
  /\ RowShows(t)
PromptInv ==
  /\ line \in Seq(Bytes)
  /\ prompt # <<>> => greeting = <<>> /\ put.pc = "idle" /\ prompt[1] \in 0 .. W - 1
SeenInv == PromptInv /\ (prompt # <<>> /\ Plain(line) => \E t : LineShown(t))

LEMMA SeenInit == ConInit => SeenInv
BY DEF ConInit, SeenInv, PromptInv

\* Where there is no prompt, there is nothing to show.
LEMMA NoPrompt ==
  ASSUME prompt' = <<>>, line' \in Seq(Bytes)
  PROVE  SeenInv'
BY DEF SeenInv, PromptInv

LEMMA SeenKept ==
  ASSUME SeenInv, UNCHANGED <<csr_x, csr_y, cells, prompt, line, greeting>>, put'.pc = put.pc
  PROVE  SeenInv'
BY DEF SeenInv, PromptInv, LineShown, RowShows, Plain

LEMMA SeenPrompt == Bounded /\ cli_prompt /\ greeting = <<>> /\ UNCHANGED greeting => SeenInv'
<1> SUFFICES ASSUME Bounded, cli_prompt, greeting = <<>>, UNCHANGED greeting PROVE SeenInv'
  OBVIOUS
<1>1. /\ put.pc = "idle" /\ csr_x >= 0 /\ prompt' = <<csr_x>> /\ line' = <<>>
      /\ \A x \in csr_x .. W - 1 : cells[csr_y * W + x].ch = BLANK
      /\ UNCHANGED <<cells, csr_x, csr_y, put>>
  BY DEF cli_prompt, cursor
<1>2. csr_x \in Int /\ csr_x < W /\ csr_y \in Int
  BY <1>1, OnScreen, PutFields
<1>3. prompt'[1] = csr_x /\ csr_x \in 0 .. W - 1
  BY <1>1, <1>2, Dimensions
<1>4. PICK e : e = <<>>
  OBVIOUS
<1>5. e \in Seq(Letters) /\ e \in Seq(Bytes) /\ Len(e) = 0
  BY <1>4
<1>6. Leaves(e, e)
  <2>1. PICK h : h = [n \in 0 .. 0 |-> e]
    OBVIOUS
  <2>2. h \in [0 .. Len(e) -> Seq(Letters)] /\ h[0] = e /\ \A n \in 1 .. Len(e) : FALSE
    BY <1>5, <2>1
  <2>3. Edits(h, e)
    BY <1>4, <2>2 DEF Edits
  <2> QED
    BY <1>5, <2>2, <2>3 DEF Leaves
<1>7. Depth(e, 0) = 0
  <2>1. {i \in 1 .. 0 : e[i] # "bs"} = {} /\ {i \in 1 .. 0 : e[i] = "bs"} = {}
    OBVIOUS
  <2>2. Cardinality({}) = 0
    BY FS_EmptySet
  <2> QED
    BY <2>1, <2>2 DEF Depth
<1>8. RowShows(e)'
  <2> SUFFICES ASSUME NEW i \in 1 .. W - csr_x
               PROVE  cells[csr_y * W + csr_x + i - 1].ch = IF i <= Len(e) THEN e[i] ELSE BLANK
    BY <1>1, <1>3 DEF RowShows
  <2>1. PICK x : x = csr_x + i - 1
    OBVIOUS
  <2>2. x \in csr_x .. W - 1 /\ csr_y * W + x = csr_y * W + csr_x + i - 1 /\ ~(i <= 0)
    BY <1>2, <2>1, Dimensions
  <2> QED
    BY <1>1, <1>5, <2>2
<1>9. LineShown(e)'
  <2>1. csr_x = csr_x + Len(e)
    BY <1>2, <1>5
  <2> QED
    BY <1>1, <1>3, <1>4, <1>5, <1>6, <1>7, <1>8, <2>1 DEF LineShown
<1> QED
  BY <1>1, <1>3, <1>4, <1>5, <1>9 DEF SeenInv, PromptInv

\* A line that is plain was plain before its last key.
LEMMA PlainBefore ==
  ASSUME PromptInv, prompt # <<>>, UNCHANGED prompt, NEW c \in Bytes,
         line' = Append(line, c), Plain(line)'
  PROVE  /\ Plain(line) /\ c \in Typing /\ line \in Seq(Typing)
         /\ LET d == Depth(line, Len(line)) IN
            /\ d \in Int /\ d >= 0 /\ prompt[1] + d < W
            /\ c = "bs" => d - 1 >= 0
            /\ c # "bs" => prompt[1] + d + 1 < W
<1> DEFINE v == Append(line, c)
           k == Len(line)
<1>1. line \in Seq(Bytes) /\ prompt[1] \in Int
  BY DEF PromptInv
<1>2. /\ k \in Nat /\ Len(v) = k + 1 /\ v \in Seq(Bytes)
      /\ \A i \in 1 .. k : v[i] = line[i]
      /\ v[k + 1] = c /\ DOMAIN v = 1 .. k + 1 /\ DOMAIN line = 1 .. k
  BY <1>1, LenProperties, AppendProperties
<1>3. /\ \A n \in 0 .. k : Depth(v, n) = Depth(line, n)
      /\ Depth(line, k) \in Int
      /\ Depth(v, k + 1) = IF c = "bs" THEN Depth(line, k) - 1 ELSE Depth(line, k) + 1
  BY <1>1, DepthGoesOn
<1>4. /\ \A i \in DOMAIN v : v[i] \in Printable \cup {BLANK, "bs"}
      /\ v # <<>> => v[1] # BLANK
      /\ \A n \in 0 .. Len(v) : Depth(v, n) >= 0 /\ prompt[1] + Depth(v, n) < W
  BY DEF Plain
<1> HIDE DEF v
<1>5. /\ \A i \in 1 .. k : i \in 1 .. k + 1
      /\ \A i \in 0 .. k : i \in 0 .. k + 1
      /\ k + 1 \in 1 .. k + 1 /\ k + 1 \in 0 .. k + 1 /\ k \in 0 .. k
  BY <1>2
<1>6. \A i \in 1 .. k : line[i] \in Typing
  BY <1>2, <1>4, <1>5 DEF Typing, Letters
<1>7. c \in Typing
  BY <1>2, <1>4, <1>5 DEF Typing, Letters
<1>8. line \in Seq(Typing)
  <2>1. line = [i \in 1 .. k |-> line[i]]
    BY <1>1, LenProperties
  <2> QED
    BY <1>2, <1>6, <2>1
<1>9. line # <<>> => line[1] # BLANK
  <2> SUFFICES ASSUME line # <<>> PROVE line[1] # BLANK
    OBVIOUS
  <2>1. k # 0
    BY <1>1, EmptySeq
  <2>2. 1 \in 1 .. k /\ v # <<>>
    BY <1>2, <2>1
  <2> QED
    BY <1>2, <1>4, <2>2
<1>10. \A n \in 0 .. k : Depth(line, n) >= 0 /\ prompt[1] + Depth(line, n) < W
  BY <1>2, <1>3, <1>4, <1>5
<1>11. Plain(line)
  BY <1>2, <1>6, <1>9, <1>10 DEF Plain, Typing, Letters
<1>12. Depth(v, k + 1) >= 0 /\ prompt[1] + Depth(v, k + 1) < W
  BY <1>2, <1>4, <1>5
<1>13. PICK d : d = Depth(line, k)
  OBVIOUS
<1>14. /\ d \in Int /\ d >= 0 /\ prompt[1] + d < W
       /\ c = "bs" => d - 1 >= 0
       /\ c # "bs" => prompt[1] + (d + 1) < W
  BY <1>3, <1>5, <1>10, <1>12, <1>13
<1>15. prompt[1] + (d + 1) = prompt[1] + d + 1
  <2>1. PICK p : p = prompt[1]
    OBVIOUS
  <2>2. p \in Int
    BY <1>1, <2>1
  <2> QED
    BY <1>14, <2>1, <2>2
<1> QED
  BY <1>7, <1>8, <1>11, <1>13, <1>14, <1>15

\* A text that is not empty has a last letter.
LEMMA LastOfText ==
  ASSUME NEW t \in Seq(Letters), Len(t) # 0
  PROVE  \E w \in Seq(Letters) : \E d \in Letters : t = Append(w, d)
<1>1. Len(t) \in Nat /\ Len(t) \in 1 .. Len(t)
  BY LenProperties
<1> DEFINE w == SubSeq(t, 1, Len(t) - 1)
<1>2. \A i \in 1 .. Len(t) - 1 : i \in 1 .. Len(t) /\ 1 + i - 1 = i
  BY <1>1
<1>3. \A i \in 1 .. Len(t) - 1 : t[i] \in Letters
  BY <1>2, ElementOfSeq
<1>4. PICK k : k = Len(t) - 1
  OBVIOUS
<1>5. k \in Nat /\ k \in Int /\ Len(t) = k + 1 /\ k - 1 + 1 = k
  BY <1>1, <1>4
<1>6. /\ w \in Seq(Letters) /\ Len(w) = IF 1 <= k THEN k - 1 + 1 ELSE 0
      /\ \A i \in 1 .. k - 1 + 1 : w[i] = t[1 + i - 1]
  BY <1>3, <1>4, <1>5, SubSeqProperties
<1> HIDE DEF w
<1>7. Len(w) = k /\ \A i \in 1 .. k : w[i] = t[i]
  BY <1>2, <1>4, <1>5, <1>6
<1>8. PICK d \in Letters : d = t[Len(t)]
  BY <1>1, ElementOfSeq
<1>9. PICK v : v = Append(w, d)
  OBVIOUS
<1>10. /\ v \in Seq(Letters) /\ Len(v) = k + 1
       /\ \A i \in 1 .. k : v[i] = w[i]
       /\ v[k + 1] = d
  BY <1>6, <1>7, <1>9, AppendProperties
<1>11. \A i \in 1 .. Len(t) : i \in 1 .. k \/ i = k + 1
  BY <1>5
<1>12. \A i \in 1 .. Len(t) : t[i] = v[i]
  BY <1>5, <1>7, <1>8, <1>10, <1>11
<1>13. t = v
  BY <1>5, <1>10, <1>12, SeqEqual
<1> QED
  BY <1>6, <1>9, <1>13

\* The cells of a row, from column p on.
LEMMA RowCells ==
  ASSUME NEW y \in 0 .. H - 1, NEW p \in 0 .. W - 1, NEW i \in 1 .. W - p, NEW n \in 0 .. W - 1 - p
  PROVE  /\ y * W + p + i - 1 \in ScreenCells
         /\ y * W + p + i - 1 = y * W + (p + n) <=> i = n + 1
<1>1. PICK x : x = p + i - 1
  OBVIOUS
<1>2. x \in 0 .. W - 1
  BY <1>1, Dimensions
<1>3. y * W + x \in ScreenCells
  BY <1>2, CellOf
<1>4. PICK b : b = y * W
  OBVIOUS
<1>5. b \in Int
  BY <1>4, RowFits
<1>6. b + p + i - 1 = b + x
  BY <1>1, <1>5, Dimensions
<1>7. b + p + i - 1 = b + (p + n) <=> i = n + 1
  BY <1>5, Dimensions
<1> QED
  BY <1>3, <1>4, <1>6, <1>7

LEMMA SeenLetter ==
  ASSUME Bounded, PromptInv, prompt # <<>>, NEW t, LineShown(t), NEW c \in Letters,
         line \in Seq(Typing), prompt[1] + Len(t) + 1 < W,
         keyboard_interrupt(c)
  PROVE  LineShown(Append(t, c))'
<1> DEFINE r == vga_putchar(Screen, c)
           n == Len(t)
<1>1. /\ t \in Seq(Letters) /\ Leaves(line, t) /\ n = Depth(line, Len(line))
      /\ csr_x = prompt[1] + n /\ RowShows(t) /\ n \in Nat
  BY LenProperties DEF LineShown
<1>2. c # "bs" /\ c \in Bytes
  BY LetterKinds
<1>3. prompt' = prompt /\ line' = Append(line, c) /\ Show(r)
  <2>1. Each(vga_putchar, Screen, Echo(c)) = r
    <3>1. Echo(c) = <<c>>
      BY <1>2 DEF Echo
    <3> QED
      BY <3>1 DEF Each
  <2> QED
    BY <2>1 DEF keyboard_interrupt
<1>4. PICK p : p = prompt[1]
  OBVIOUS
<1>5. p \in 0 .. W - 1 /\ put.pc = "idle" /\ line \in Seq(Bytes)
  BY <1>4 DEF PromptInv
<1>6. csr_y \in 0 .. H - 1
  BY <1>5, OnScreen
<1>7. Screen \in ScreenState /\ Screen.x = csr_x /\ Screen.y = csr_y /\ Screen.cells = cells
  BY ScreenTyped DEF Bounded
<1>8. csr_x = p + n /\ csr_x \in 0 .. W - 2 /\ n \in 0 .. W - 1 - p
  <2>1. csr_x = p + n /\ p + n + 1 < W
    BY <1>1, <1>4
  <2> QED
    BY <1>1, <1>5, <2>1, Dimensions
<1>9. attrib \in Attribs
  BY DEF Bounded, ConTypes
<1>10. /\ r.x = csr_x + 1 /\ r.y = csr_y
       /\ \A i \in ScreenCells :
            r.cells[i].ch = IF i = csr_y * W + csr_x THEN c ELSE cells[i].ch
  BY <1>6, <1>7, <1>8, <1>9, LetterPut
<1> HIDE DEF r
<1>11. csr_x' = csr_x + 1 /\ csr_y' = csr_y /\ cells' = r.cells
  BY <1>3, <1>10 DEF Show
<1>12. PICK w : w = Append(t, c)
  OBVIOUS
<1>13. /\ w \in Seq(Letters) /\ Len(w) = n + 1
       /\ \A i \in 1 .. n : w[i] = t[i]
       /\ w[n + 1] = c
  BY <1>1, <1>12, AppendProperties
<1>14. Leaves(line', w)
  BY <1>1, <1>3, <1>12, <1>13, LineGoesOn
<1>15. Len(w) = Depth(line', Len(line'))
  <2>1. /\ Depth(Append(line, c), Len(line) + 1) = Depth(line, Len(line)) + 1
        /\ Len(Append(line, c)) = Len(line) + 1
    BY <1>2, <1>5, DepthGoesOn, AppendProperties
  <2> QED
    BY <1>1, <1>3, <1>13, <2>1
<1>16. csr_x' = p + Len(w)
  BY <1>1, <1>5, <1>8, <1>11, <1>13, Dimensions
<1>17. ASSUME NEW i \in 1 .. W - p
       PROVE  cells'[csr_y * W + p + i - 1].ch = IF i <= Len(w) THEN w[i] ELSE BLANK
  <2>1. PICK at : at = csr_y * W + p + i - 1
    OBVIOUS
  <2>2. at \in ScreenCells /\ (at = csr_y * W + (p + n) <=> i = n + 1)
    BY <1>5, <1>6, <1>8, <2>1, RowCells
  <2>3. cells'[at].ch = IF i = n + 1 THEN c ELSE cells[at].ch
    BY <1>8, <1>10, <1>11, <2>2
  <2>4. cells[at].ch = IF i <= n THEN t[i] ELSE BLANK
    BY <1>1, <1>4, <2>1 DEF RowShows
  <2>5. CASE i = n + 1
    BY <1>1, <1>13, <2>1, <2>3, <2>5
  <2>6. CASE i # n + 1
    <3>1. (i <= n <=> i <= n + 1) /\ (i <= n => i \in 1 .. n)
      BY <1>1, <1>5, <2>6, Dimensions
    <3> QED
      BY <1>13, <2>1, <2>3, <2>4, <2>6, <3>1
  <2> QED
    BY <2>5, <2>6
<1>18. RowShows(w)'
  BY <1>3, <1>4, <1>11, <1>17 DEF RowShows
<1> QED
  BY <1>3, <1>4, <1>12, <1>13, <1>14, <1>15, <1>16, <1>18 DEF LineShown

LEMMA SeenBack ==
  ASSUME Bounded, PromptInv, prompt # <<>>, NEW t, LineShown(t), line \in Seq(Typing),
         Len(t) # 0, prompt[1] + Len(t) < W,
         keyboard_interrupt("bs")
  PROVE  \E w : LineShown(w)'
<1> DEFINE r == Each(vga_putchar, Screen, Echo("bs"))
           n == Len(t)
<1>1. /\ t \in Seq(Letters) /\ Leaves(line, t) /\ n = Depth(line, Len(line))
      /\ csr_x = prompt[1] + n /\ RowShows(t) /\ n \in Nat /\ n # 0
  BY LenProperties DEF LineShown
<1>2. "bs" \in Bytes
  BY DEF Bytes, Controls
<1>3. prompt' = prompt /\ line' = Append(line, "bs") /\ Show(r)
  BY DEF keyboard_interrupt
<1>4. PICK p : p = prompt[1]
  OBVIOUS
<1>5. p \in 0 .. W - 1 /\ put.pc = "idle" /\ line \in Seq(Bytes)
  BY <1>4 DEF PromptInv
<1>6. csr_y \in 0 .. H - 1
  BY <1>5, OnScreen
<1>7. Screen \in ScreenState /\ Screen.x = csr_x /\ Screen.y = csr_y /\ Screen.cells = cells
  BY ScreenTyped DEF Bounded
<1>8. csr_x = p + n /\ csr_x \in 1 .. W - 1 /\ n - 1 \in 0 .. W - 1 - p /\ csr_x - 1 = p + (n - 1)
  <2>1. csr_x = p + n /\ p + n < W
    BY <1>1, <1>4
  <2> QED
    BY <1>1, <1>5, <2>1, Dimensions
<1>9. attrib \in Attribs
  BY DEF Bounded, ConTypes
<1>10. /\ r.x = csr_x - 1 /\ r.y = csr_y
       /\ \A i \in ScreenCells :
            r.cells[i].ch = IF i = csr_y * W + (csr_x - 1) THEN BLANK ELSE cells[i].ch
  BY <1>6, <1>7, <1>8, <1>9, BackEchoed
<1> HIDE DEF r
<1>11. csr_x' = csr_x - 1 /\ csr_y' = csr_y /\ cells' = r.cells
  BY <1>3, <1>10 DEF Show
<1>12. PICK w \in Seq(Letters) : \E d \in Letters : t = Append(w, d)
  BY <1>1, LastOfText
<1>13. PICK d \in Letters : t = Append(w, d)
  BY <1>12
<1>14. Len(w) \in Nat /\ n = Len(w) + 1 /\ \A i \in 1 .. Len(w) : t[i] = w[i]
  BY <1>13, AppendProperties, LenProperties
<1>15. Len(w) = n - 1
  BY <1>14
<1>16. Leaves(line', w)
  BY <1>1, <1>3, <1>12, LineGoesOn
<1>17. Len(w) = Depth(line', Len(line'))
  <2>1. /\ Depth(Append(line, "bs"), Len(line) + 1) = Depth(line, Len(line)) - 1
        /\ Len(Append(line, "bs")) = Len(line) + 1
    BY <1>2, <1>5, DepthGoesOn, AppendProperties
  <2> QED
    BY <1>1, <1>3, <1>15, <2>1
<1>18. csr_x' = p + Len(w)
  BY <1>8, <1>11, <1>15
<1>19. ASSUME NEW i \in 1 .. W - p
       PROVE  cells'[csr_y * W + p + i - 1].ch = IF i <= Len(w) THEN w[i] ELSE BLANK
  <2>1. PICK at : at = csr_y * W + p + i - 1
    OBVIOUS
  <2>2. at \in ScreenCells /\ (at = csr_y * W + (p + (n - 1)) <=> i = n - 1 + 1)
    BY <1>5, <1>6, <1>8, <2>1, RowCells
  <2>3. cells'[at].ch = IF i = n THEN BLANK ELSE cells[at].ch
    BY <1>1, <1>8, <1>10, <1>11, <2>2
  <2>4. cells[at].ch = IF i <= n THEN t[i] ELSE BLANK
    BY <1>1, <1>4, <2>1 DEF RowShows
  <2>5. CASE i = n
    <3>1. ~(i <= Len(w))
      BY <1>1, <1>15, <2>5
    <3> QED
      BY <2>1, <2>3, <2>5, <3>1
  <2>6. CASE i # n
    <3>1. (i <= n <=> i <= Len(w)) /\ (i <= Len(w) => i \in 1 .. Len(w))
      BY <1>1, <1>5, <1>14, <2>6, Dimensions
    <3> QED
      BY <1>14, <2>1, <2>3, <2>4, <2>6, <3>1
  <2> QED
    BY <2>5, <2>6
<1>20. RowShows(w)'
  BY <1>3, <1>4, <1>11, <1>19 DEF RowShows
<1> QED
  BY <1>3, <1>4, <1>12, <1>16, <1>17, <1>18, <1>20 DEF LineShown

LEMMA SeenKey ==
  ASSUME Bounded, SeenInv, NEW c \in Bytes, keyboard_interrupt(c), UNCHANGED greeting
  PROVE  SeenInv'
<1>1. /\ prompt' = prompt /\ put' = put
      /\ line' = IF prompt = <<>> THEN line ELSE Append(line, c)
  BY DEF keyboard_interrupt
<1>2. PromptInv /\ line \in Seq(Bytes)
  BY DEF SeenInv, PromptInv
<1>3. CASE prompt = <<>>
  BY <1>1, <1>2, <1>3, NoPrompt
<1>4. CASE prompt # <<>>
  <2>1. line' = Append(line, c) /\ line' \in Seq(Bytes)
    BY <1>1, <1>2, <1>4, AppendProperties
  <2>2. PromptInv'
    BY <1>1, <1>2, <2>1 DEF PromptInv
  <2> SUFFICES ASSUME Plain(line)' PROVE \E w : LineShown(w)'
    BY <2>2 DEF SeenInv
  <2>3. /\ Plain(line) /\ c \in Typing /\ line \in Seq(Typing)
        /\ LET d == Depth(line, Len(line)) IN
           /\ d \in Int /\ d >= 0 /\ prompt[1] + d < W
           /\ c = "bs" => d - 1 >= 0
           /\ c # "bs" => prompt[1] + d + 1 < W
    BY <1>1, <1>2, <1>4, <2>1, PlainBefore
  <2>4. PICK t : LineShown(t)
    BY <1>4, <2>3 DEF SeenInv
  <2>5. Len(t) = Depth(line, Len(line))
    BY <2>4 DEF LineShown
  <2>6. CASE c = "bs"
    <3>1. Len(t) # 0 /\ prompt[1] + Len(t) < W
      BY <2>3, <2>5, <2>6
    <3> QED
      BY <1>2, <1>4, <2>3, <2>4, <2>6, <3>1, SeenBack
  <2>7. CASE c # "bs"
    <3>1. c \in Letters /\ prompt[1] + Len(t) + 1 < W
      BY <2>3, <2>5, <2>7 DEF Typing
    <3>2. LineShown(Append(t, c))'
      BY <1>2, <1>4, <2>3, <2>4, <3>1, SeenLetter
    <3> QED
      BY <3>2
  <2> QED
    BY <2>6, <2>7
<1> QED
  BY <1>3, <1>4

LEMMA SeenStep == Bounded /\ SeenInv /\ [ConNext]_conVars => SeenInv'
<1> SUFFICES ASSUME Bounded, SeenInv, [ConNext]_conVars PROVE SeenInv'
  OBVIOUS
<1>0. <<>> \in Seq(Bytes) /\ line \in Seq(Bytes)
  BY DEF SeenInv, PromptInv
<1>1. CASE UNCHANGED conVars
  BY <1>1, SeenKept DEF conVars
<1>2. CASE Greet
  <2>1. prompt = <<>>
    BY <1>2 DEF Greet, SeenInv, PromptInv
  <2> QED
    BY <1>0, <1>2, <2>1, NoPrompt DEF Greet
<1>3. CASE greeting = <<>> /\ Session /\ UNCHANGED greeting
  <2>1. CASE \E c \in Bytes : BeginPut(c)
    BY <1>0, <2>1, NoPrompt DEF BeginPut
  <2>2. CASE CursorStep \/ Write \/ Scroll \/ move_csr
    <3>1. put.pc # "idle" /\ UNCHANGED <<prompt, line>>
      <4>1. CASE CursorStep
        BY <4>1 DEF CursorStep, BackTest, Back, BackStore, Tab, XStore, CarriageReturn,
                    Newline, Down, YStore, Row, Column, Right, Edge, Move, History
      <4>2. CASE Write \/ Scroll \/ move_csr
        BY <4>2 DEF Write, Scroll, move_csr, Select, PortData, History
      <4> QED
        BY <2>2, <4>1, <4>2
    <3>2. prompt = <<>>
      BY <3>1 DEF SeenInv, PromptInv
    <3> QED
      BY <1>0, <3>1, <3>2, NoPrompt
  <2>3. CASE \E c \in Printable \cup {BLANK, "bs", "tab", "nl", "nul"} : keyboard_interrupt(c)
    <3>1. Printable \cup {BLANK, "bs", "tab", "nl", "nul"} \subseteq Bytes
      BY DEF Bytes, Controls, Silent
    <3> QED
      BY <1>3, <2>3, <3>1, SeenKey
  <2>4. CASE \E bg, fg \in Colors : SetColors(bg, fg)
    BY <1>3, <2>4, SeenKept DEF SetColors, cursor
  <2>5. CASE vga_cls \/ temp_screen
    BY <1>0, <2>5, NoPrompt DEF vga_cls, temp_screen
  <2>6. CASE cli_prompt
    BY <1>3, <2>6, SeenPrompt
  <2> QED
    BY <1>3, <2>1, <2>2, <2>3, <2>4, <2>5, <2>6 DEF Session
<1> QED
  BY <1>1, <1>2, <1>3 DEF ConNext

LEMMA SeenIsSeen == Bounded /\ SeenInv => SeenIsRun
<1> SUFFICES ASSUME Bounded, SeenInv, prompt # <<>>, put.pc = "idle", Plain(line)
             PROVE  lua_trim(Command(line)) =
                      lua_trim([i \in 1 .. W - prompt[1] |-> cells[csr_y * W + prompt[1] + i - 1].ch])
  BY DEF SeenIsRun
<1> DEFINE row == [i \in 1 .. W - prompt[1] |-> cells[csr_y * W + prompt[1] + i - 1].ch]
<1>1. PICK t : LineShown(t)
  BY DEF SeenInv
<1>2. t \in Seq(Letters) /\ Leaves(line, t) /\ RowShows(t) /\ Len(t) = Depth(line, Len(line)) /\ Len(t) \in Nat
  BY <1>1, LenProperties DEF LineShown
<1>3. PICK p : p = prompt[1]
  OBVIOUS
<1>4. p \in 0 .. W - 1 /\ W - p \in Nat /\ line \in Seq(Bytes)
  <2>1. p \in 0 .. W - 1 /\ line \in Seq(Bytes)
    BY <1>3 DEF SeenInv, PromptInv
  <2> QED
    BY <2>1, Dimensions
<1>5. \A i \in 1 .. W - p : row[i] = IF i <= Len(t) THEN t[i] ELSE BLANK
  BY <1>2, <1>3 DEF RowShows
<1>6. \A i \in 1 .. W - p : row[i] \in Letters
  <2>1. \A i \in 1 .. W - p : i <= Len(t) => i \in 1 .. Len(t)
    BY <1>2, <1>4
  <2>2. \A i \in 1 .. Len(t) : t[i] \in Letters
    BY <1>2, ElementOfSeq
  <2> QED
    BY <1>5, <2>1, <2>2, LetterKinds
<1>7. row \in Seq(Letters) /\ Len(row) = W - p
  <2>1. row = [i \in 1 .. W - p |-> row[i]]
    BY <1>3
  <2> HIDE DEF row
  <2>2. row \in [1 .. W - p -> Letters]
    BY <1>6, <2>1
  <2> QED
    BY <1>4, <2>2, LenProperties
<1> HIDE DEF row
<1>8. /\ line \in Seq(Typing) /\ (line # <<>> => line[1] # BLANK)
      /\ prompt[1] + Depth(line, Len(line)) < W
  <2>1. /\ \A i \in DOMAIN line : line[i] \in Typing
        /\ line # <<>> => line[1] # BLANK
        /\ \A n \in 0 .. Len(line) : prompt[1] + Depth(line, n) < W
    BY DEF Plain, Typing, Letters
  <2>2. Len(line) \in 0 .. Len(line) /\ DOMAIN line = 1 .. Len(line) /\ Len(line) \in Nat
        /\ line = [i \in 1 .. Len(line) |-> line[i]]
    BY <1>4, LenProperties
  <2> QED
    BY <2>1, <2>2
<1>9. Len(t) <= Len(row)
  <2>1. p + Len(t) < W
    BY <1>2, <1>3, <1>8
  <2>2. Len(t) <= W - p
    BY <1>2, <1>4, <2>1, Dimensions
  <2> QED
    BY <1>7, <2>2
<1>10. lua_trim(Command(line)) = lua_trim(row)
  BY <1>2, <1>5, <1>7, <1>8, <1>9, CommandSeen
<1> QED
  BY <1>10 DEF row

\* Whatever line is typed behind a prompt, with whatever letters and
\* backspaces: as long as the line is plain, the command that cli would run is
\* the text that the row of the screen shows behind the prompt, apart from
\* blanks around it.
THEOREM SeenRuns == ConSpec => []SeenIsRun
<1> DEFINE Inv == Bounded /\ SeenInv
<1>1. ConInit => Inv
  BY BoundedInit, SeenInit
<1>2. Inv /\ [ConNext]_conVars => Inv'
  BY BoundedStep, SeenStep
<1>3. Inv => SeenIsRun
  BY SeenIsSeen
<1> QED
  BY <1>1, <1>2, <1>3, PTL DEF ConSpec

=============================================================================
