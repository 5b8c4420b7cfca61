------------------------------- MODULE Serial -------------------------------
(***************************************************************************)
(* The receiving side of the serial driver (drivers/serial.c) and its only *)
(* reader, lua_serial_receive_all (kernel/lua_kernel.c).                   *)
(*                                                                         *)
(* Two activities share serial_buf and serial_buf_len.  The IRQ4 handler   *)
(* runs to completion between two instructions of the mainline; nothing it *)
(* enables can touch these variables before it returns.  The mainline runs *)
(* with interrupts enabled, so its accesses are separate steps, at the     *)
(* granularity of the loads and stores of the unoptimised build:           *)
(*                                                                         *)
(*   avail   len = serialin->avail(serialin)                               *)
(*   loop    i < len ?                                                     *)
(*   check   serial_buf_len == 0 ?                                         *)
(*   read    c = serial_buf[0]                                             *)
(*   load    eax = serial_buf_len              \  --serial_buf_len is not  *)
(*   store   serial_buf_len = eax - 1          /  one instruction          *)
(*   count   the third argument of memcpy                                  *)
(*   copy    one iteration of memcpy, or its return                        *)
(*   wild    memcpy(serial_buf, serial_buf + 1, (size_t) -1)               *)
(*                                                                         *)
(* A byte is represented by its arrival number 1, 2, 3, ...                *)
(***************************************************************************)
EXTENDS Integers, Sequences, FiniteSets

CONSTANTS
  SERIAL_BUF_SIZE,  \* number of bytes in serial_buf
  MaxBytes          \* bound: bytes that arrive in one behaviour

ASSUME SizeAssumption  == SERIAL_BUF_SIZE \in Nat /\ SERIAL_BUF_SIZE >= 2
ASSUME BytesAssumption == MaxBytes \in Nat

VARIABLES
  serial_buf,      \* the bytes; index -1 is the byte in front of the array
  serial_buf_len,
  rcvd,            \* bytes the handler has read from the port
  pc,              \* where the mainline is
  len, i,          \* locals of lua_serial_receive_all
  c, eax, count, k,\* locals of serialin_get and of memcpy
  out,             \* every byte handed to Lua, in order
  raced,           \* history: an interrupt hit the getter where it hurts
  flushed          \* history: serial_flush has discarded the buffer

shared  == <<serial_buf, serial_buf_len>>
caller  == <<len, i, out>>
getter  == <<c, eax, count, k>>
history == <<rcvd, raced, flushed>>
vars    == <<shared, pc, caller, getter, history>>

\* What a call that finds the buffer empty hands over: EOF, stored as a byte.
EOF == -1

Cells  == -1 .. SERIAL_BUF_SIZE - 1
Stamps == 0 .. MaxBytes       \* 0: never written
Labels == {"avail", "loop", "check", "read", "load", "store", "count", "copy",
           "wild"}

TypeOK ==
  /\ serial_buf \in [Cells -> Stamps]
  /\ serial_buf_len \in -1 .. SERIAL_BUF_SIZE - 1
  /\ rcvd \in 0 .. MaxBytes
  /\ pc \in Labels
  /\ len \in 0 .. SERIAL_BUF_SIZE - 1
  /\ i \in 0 .. len
  /\ c \in Stamps
  /\ eax \in -1 .. SERIAL_BUF_SIZE - 1
  /\ count \in -1 .. SERIAL_BUF_SIZE - 1
  /\ k \in 0 .. SERIAL_BUF_SIZE - 1
  /\ pc = "copy" => k <= count
  /\ out \in Seq(Stamps \cup {EOF})
  /\ raced \in BOOLEAN
  /\ flushed \in BOOLEAN

Init ==
  /\ serial_buf = [n \in Cells |-> 0]
  /\ serial_buf_len = 0
  /\ rcvd = 0
  /\ pc = "avail"
  /\ len = 0 /\ i = 0
  /\ c = 0 /\ eax = 0 /\ count = 0 /\ k = 0
  /\ out = <<>>
  /\ raced = FALSE
  /\ flushed = FALSE

-----------------------------------------------------------------------------
(* The interrupt handler.                                                  *)

\* Mutant: the full buffer is only noticed once it has been overrun.
LenAfterLateTest(n) == IF n = SERIAL_BUF_SIZE THEN 0 ELSE n + 1
\* Buffer length after one more byte: serial_flush runs when it is full, and,
\* as no serial_handler is ever installed, it only resets the length.
LenAfter(n) == IF n + 1 = SERIAL_BUF_SIZE THEN 0 ELSE n + 1

\* The steps of the getter during which an arriving byte does damage: the
\* length has been loaded and not yet stored, or the shift is not over.
InShift == pc \in {"store", "count"} \/ (pc = "copy" /\ k < count)

\* serial_interrupt, and serial_flush when it calls it.
SerialInterrupt ==
  LET full == serial_buf_len + 1 = SERIAL_BUF_SIZE
  IN  /\ rcvd < MaxBytes
      /\ rcvd' = rcvd + 1
      /\ serial_buf' = [serial_buf EXCEPT ![serial_buf_len] = rcvd + 1]
      /\ serial_buf_len' = LenAfter(serial_buf_len)
      /\ flushed' = (flushed \/ full)
      /\ raced' = (raced \/ InShift \/ (full /\ pc \in {"read", "load"}))
      /\ UNCHANGED <<pc, caller, getter>>

-----------------------------------------------------------------------------
(* lua_serial_receive_all                                                  *)

\* Mutant: the loop stops one byte short.
MoreToGetOffByOne == i + 1 < len
\* Loop condition of lua_serial_receive_all.
MoreToGet == i < len

Avail ==
  /\ pc = "avail"
  /\ len' = serial_buf_len
  /\ i' = 0
  /\ pc' = "loop"
  /\ UNCHANGED <<shared, out, getter, history>>

Loop ==
  /\ pc = "loop"
  /\ pc' = IF MoreToGet THEN "check" ELSE "avail"
  /\ UNCHANGED <<shared, caller, getter, history>>

\* str[i] = serialin->get(serialin), and the next iteration.
Deliver(byte) ==
  /\ out' = Append(out, byte)
  /\ i' = i + 1
  /\ pc' = "loop"
  /\ UNCHANGED len

-----------------------------------------------------------------------------
(* serialin_get                                                            *)

\* Mutant: the getter trusts its caller to have asked for no more than there is.
NeverEmpty(n) == FALSE
Empty(n) == n = 0

CheckEmpty ==
  /\ pc = "check"
  /\ Empty(serial_buf_len)
  /\ Deliver(EOF)
  /\ UNCHANGED <<shared, getter, history>>

CheckNonEmpty ==
  /\ pc = "check"
  /\ ~Empty(serial_buf_len)
  /\ pc' = "read"
  /\ UNCHANGED <<shared, caller, getter, history>>

ReadFirst ==
  /\ pc = "read"
  /\ c' = serial_buf[0]
  /\ pc' = "load"
  /\ UNCHANGED <<shared, caller, eax, count, k, history>>

LoadLen ==
  /\ pc = "load"
  /\ eax' = serial_buf_len
  /\ pc' = "store"
  /\ UNCHANGED <<shared, caller, c, count, k, history>>

\* Mutant: the byte is copied out of the buffer and never taken off it.
Undecremented(n) == n
Decremented(n) == n - 1

StoreLen ==
  /\ pc = "store"
  /\ eax' = Decremented(eax)
  /\ serial_buf_len' = Decremented(eax)
  /\ pc' = "count"
  /\ UNCHANGED <<serial_buf, caller, c, count, k, history>>

\* The build has no -O flag, so the value of --serial_buf_len is read back from
\* memory; -1 becomes the largest size_t and the copy does not come back.
CallMemcpy ==
  /\ pc = "count"
  /\ count' = serial_buf_len
  /\ k' = 0
  /\ pc' = IF count' < 0 THEN "wild" ELSE "copy"
  /\ UNCHANGED <<shared, caller, c, eax, history>>

\* Mutant: the copy runs onto itself.
ShiftedInPlace(buf, n) == [buf EXCEPT ![n] = buf[n]]
\* dest[k] = src[k] with src = dest + 1.
Shifted(buf, n) == [buf EXCEPT ![n] = buf[n + 1]]

CopyByte ==
  /\ pc = "copy"
  /\ k < count
  /\ serial_buf' = Shifted(serial_buf, k)
  /\ k' = k + 1
  /\ UNCHANGED <<serial_buf_len, pc, caller, c, eax, count, history>>

ReturnByte ==
  /\ pc = "copy"
  /\ k = count
  /\ Deliver(c)
  /\ UNCHANGED <<shared, getter, history>>

-----------------------------------------------------------------------------
Mainline ==
  \/ Avail \/ Loop \/ CheckEmpty \/ CheckNonEmpty \/ ReadFirst
  \/ LoadLen \/ StoreLen \/ CallMemcpy \/ CopyByte \/ ReturnByte

Next == SerialInterrupt \/ Mainline

Spec == Init /\ [][Next]_vars

\* The processor keeps executing the mainline whenever no handler runs.
FairSpec == Spec /\ WF_vars(Mainline)

-----------------------------------------------------------------------------
(* Properties                                                              *)

\* The mainline holds a byte that it has read and not yet handed over.
InHand == IF pc \in {"count", "copy"} THEN 1 ELSE 0

\* As long as no interrupt has fallen into the damaging window of a get and
\* the buffer has never filled up, the unlocked getter is a FIFO: Lua has seen
\* exactly the first bytes that arrived, in order, and every other byte is in
\* the buffer or in the getter's hand (serialin_get against serial_interrupt).
FifoUnlessRaced ==
  ~raced /\ ~flushed =>
    /\ \A n \in 1 .. Len(out) : out[n] = n
    /\ rcvd = Len(out) + serial_buf_len + InHand

\* Discarding a full buffer loses bytes but never reorders or repeats the ones
\* that survive it, even when it happens in the middle of receive_all.
SurvivorsInOrder ==
  ~raced =>
    \A m, n \in 1 .. Len(out) :
      m < n /\ out[m] # EOF /\ out[n] # EOF => out[m] < out[n]

\* Whatever the interleaving of the handler, the flush and the getter, Lua is
\* never handed more bytes than arrived: the lost updates of serial_buf_len
\* only ever err towards losing bytes.
NoByteInvented == Cardinality({n \in 1 .. Len(out) : out[n] # EOF}) <= rcvd

\* The runaway memcpy of serialin_get has one cause: a flush between the test
\* for an empty buffer and the decrement.  No other interleaving, and no flush
\* at another moment, makes serial_buf_len negative.
RunawayCopyNeedsFlush == pc = "wild" => raced /\ flushed

\* Every byte that arrives is eventually handed to Lua, which polls for ever,
\* unless one of the two accidents has happened.
EveryByteDelivered ==
  \A n \in 1 .. MaxBytes :
    (rcvd >= n) ~> (Len(out) >= n \/ raced \/ flushed)

\* stream.h says avail() is the "minimum # of bytes guaranteed to be
\* available": a get covered by it should not find the buffer empty.
AvailIsGuaranteed == \A n \in 1 .. Len(out) : out[n] # EOF

\* isrs.c says interrupts are disabled while an ISR is serviced "as a 'locking'
\* mechanism to prevent an IRQ from happening and messing up kernel data
\* structures": with room in the buffer, no interleaving should make Lua see
\* anything but the bytes that arrived, in order.
KernelDataIntact ==
  ~flushed => \A n \in 1 .. Len(out) : out[n] = n
=============================================================================
