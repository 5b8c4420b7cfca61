---------------------------- MODULE SerialProofs ----------------------------
(***************************************************************************)
(* What holds of the serial receive path for every buffer size and every   *)
(* number of bytes.  Neither TypeOK nor FifoUnlessRaced is inductive: the  *)
(* first needs to know where serial_buf_len may be negative, the second    *)
(* says nothing of the cells of serial_buf, of the shift in progress or of *)
(* the locals that the getter carries from one step to the next.           *)
(***************************************************************************)
EXTENDS Serial, FiniteSetTheorems, SequenceTheorems, TLAPS

USE DEF Cells, Stamps, Labels, EOF

-----------------------------------------------------------------------------
(* Types                                                                   *)

\* Where serial_buf_len may be negative, and what the getter may rely on.
Control ==
  /\ serial_buf_len < 0 => pc \in {"count", "wild"}
  /\ pc = "store" => eax >= 0
  /\ pc \notin {"avail", "loop"} => i < len

TypeInv == TypeOK /\ Control

\* The machine starts well typed: buffers empty, mainline about to poll.
LEMMA TypeInit == Init => TypeInv
<1> SUFFICES ASSUME Init PROVE TypeInv
  OBVIOUS
<1> USE SizeAssumption, BytesAssumption DEF Init
<1>1. serial_buf \in [Cells -> Stamps]
  OBVIOUS
<1>2. out \in Seq(Stamps \cup {EOF})
  OBVIOUS
<1> QED
  BY <1>1, <1>2 DEF TypeInv, TypeOK, Control

\* No step of the handler or of the mainline leaves the types: in particular
\* every index into serial_buf is at most one cell in front of the array.
LEMMA TypeStep == TypeInv /\ [Next]_vars => TypeInv'
<1> SUFFICES ASSUME TypeInv, [Next]_vars PROVE TypeInv'
  OBVIOUS
<1> USE SizeAssumption, BytesAssumption DEF TypeInv, TypeOK, Control
<1>1. CASE SerialInterrupt
  <2>1. LenAfter(serial_buf_len) \in 0 .. SERIAL_BUF_SIZE - 1
    BY DEF LenAfter
  <2>2. rcvd + 1 \in 0 .. MaxBytes
    BY <1>1 DEF SerialInterrupt
  <2>3. serial_buf' \in [-1 .. SERIAL_BUF_SIZE - 1 -> 0 .. MaxBytes]
    BY <1>1, <2>2 DEF SerialInterrupt
  <2>4. raced' \in BOOLEAN /\ flushed' \in BOOLEAN
    BY <1>1 DEF SerialInterrupt
  <2> QED
    BY <1>1, <2>1, <2>2, <2>3, <2>4
    DEF SerialInterrupt, caller, getter
<1>2. CASE Avail
  BY <1>2 DEF Avail, shared, getter, history
<1>3. CASE Loop
  BY <1>3 DEF Loop, MoreToGet, shared, caller, getter, history
<1>4. CASE CheckEmpty
  BY <1>4 DEF CheckEmpty, Deliver, shared, getter, history
<1>5. CASE CheckNonEmpty
  BY <1>5 DEF CheckNonEmpty, shared, caller, getter, history
<1>6. CASE ReadFirst
  BY <1>6 DEF ReadFirst, shared, caller, history
<1>7. CASE LoadLen
  BY <1>7 DEF LoadLen, shared, caller, history
<1>8. CASE StoreLen
  BY <1>8 DEF StoreLen, Decremented, caller, history
<1>9. CASE CallMemcpy
  BY <1>9 DEF CallMemcpy, shared, caller, history
<1>10. CASE CopyByte
  BY <1>10 DEF CopyByte, Shifted, caller, history
<1>11. CASE ReturnByte
  BY <1>11 DEF ReturnByte, Deliver, shared, getter, history
<1>12. CASE UNCHANGED vars
  BY <1>12 DEF vars, shared, caller, getter, history
<1> QED
  BY <1>1, <1>2, <1>3, <1>4, <1>5, <1>6, <1>7, <1>8, <1>9, <1>10, <1>11,
     <1>12 DEF Next, Mainline

\* For every buffer size, the state of the receive path keeps its types; the
\* length read by avail is never negative, whatever the handler does.
THEOREM SerialTypes == Spec => []TypeOK
<1>1. TypeInv => TypeOK
  BY DEF TypeInv
<1> QED
  BY TypeInit, TypeStep, <1>1, PTL DEF Spec

-----------------------------------------------------------------------------
(* The receive path is a FIFO until an interrupt races                     *)

\* Cells lo to hi hold consecutive arrivals, numbered from base at cell 0.
Holds(lo, hi, base) == \A j \in lo .. hi : serial_buf[j] = base + j

\* The step of receive_all at which all buffered bytes start at cell 0.
Settled == {"avail", "loop", "check", "read", "load", "store"}

\* The oldest byte that Lua has not seen.
Oldest == Len(out) + 1

\* What the cells and the locals are at each step, when nothing has raced.
Fifo ==
  /\ \A n \in 1 .. Len(out) : out[n] = n
  /\ rcvd = Len(out) + serial_buf_len + InHand
  /\ serial_buf_len >= 0
  /\ pc # "avail" => len - i <= serial_buf_len + InHand
  /\ pc \in Settled => Holds(0, serial_buf_len - 1, Oldest)
  /\ pc \in {"load", "store", "count", "copy"} => c = Oldest
  /\ pc = "store" => eax = serial_buf_len
  /\ pc = "count" => Holds(0, serial_buf_len, Oldest)
  /\ pc = "copy" => /\ count <= serial_buf_len
                    /\ Holds(0, k - 1, Oldest + 1)
  /\ pc = "copy" /\ k < count => /\ count = serial_buf_len
                                 /\ Holds(k, count, Oldest)
  /\ pc = "copy" /\ k = count => Holds(0, serial_buf_len - 1, Oldest + 1)
  /\ pc # "wild"

FifoInv == ~raced /\ ~flushed => Fifo

\* Nothing is buffered, delivered or in hand when the machine starts.
LEMMA FifoInit == Init => FifoInv
  BY SizeAssumption, BytesAssumption
  DEF Init, FifoInv, Fifo, Holds, Settled, Oldest, InHand

\* Handing over the byte in c extends out by the next arrival.
LEMMA FifoDeliver ==
  ASSUME TypeInv, Fifo, pc \in {"check", "copy"}, Deliver(Oldest)
  PROVE  /\ Len(out') = Len(out) + 1
         /\ \A n \in 1 .. Len(out') : out'[n] = n
         /\ pc' = "loop" /\ i' = i + 1 /\ len' = len
<1> USE DEF Deliver
<1>1. out \in Seq(-1 .. MaxBytes)
  BY BytesAssumption DEF TypeInv, TypeOK
<1>2. out' = Append(out, Len(out) + 1)
  BY DEF Oldest
<1>3. /\ Len(out') = Len(out) + 1
      /\ \A n \in 1 .. Len(out) : out'[n] = out[n]
      /\ out'[Len(out) + 1] = Len(out) + 1
  BY <1>1, <1>2
<1> QED
  BY <1>1, <1>3 DEF Fifo

\* Every step of the handler or of the mainline that leaves both history
\* variables FALSE preserves the FIFO.
LEMMA FifoStep == TypeInv /\ FifoInv /\ [Next]_vars => FifoInv'
<1> SUFFICES ASSUME TypeInv, FifoInv, [Next]_vars, ~raced', ~flushed'
             PROVE  Fifo'
  BY DEF FifoInv
<1> USE SizeAssumption, BytesAssumption DEF TypeInv, TypeOK, Control
<1>0. ~raced /\ ~flushed /\ Fifo
  BY DEF FifoInv, Next, Mainline, vars, history, SerialInterrupt, Avail, Loop,
         CheckEmpty, CheckNonEmpty, ReadFirst, LoadLen, StoreLen, CallMemcpy,
         CopyByte, ReturnByte
<1>a. Len(out) \in Nat
  OBVIOUS
<1> USE <1>0, <1>a DEF Fifo
<1>1. CASE SerialInterrupt
  <2>0. serial_buf_len + 1 # SERIAL_BUF_SIZE
    BY <1>1 DEF SerialInterrupt
  <2>a. ~InShift
    BY <1>1 DEF SerialInterrupt
  <2>1. serial_buf_len + 1 < SERIAL_BUF_SIZE /\ ~InShift
    BY <2>0, <2>a
  <2>2. serial_buf_len' = serial_buf_len + 1
    BY <1>1, <2>1 DEF SerialInterrupt, LenAfter
  <2>3. pc \in Settled \ {"store"} \/ (pc = "copy" /\ k = count)
    BY <2>1 DEF InShift, Settled
  <2>4. \A j \in 0 .. serial_buf_len - 1 : serial_buf'[j] = serial_buf[j]
    <3>1. serial_buf' = [serial_buf EXCEPT ![serial_buf_len] = rcvd + 1]
      BY <1>1 DEF SerialInterrupt
    <3>2. \A j \in 0 .. serial_buf_len - 1 :
            j \in -1 .. SERIAL_BUF_SIZE - 1 /\ j # serial_buf_len
      BY <2>1
    <3> QED
      BY <3>1, <3>2
  <2>5. serial_buf'[serial_buf_len] = rcvd + 1
    BY <1>1 DEF SerialInterrupt
  <2>6. UNCHANGED <<pc, len, i, out, c, eax, count, k>> /\ rcvd' = rcvd + 1
    BY <1>1 DEF SerialInterrupt, caller, getter
  <2>7. ASSUME NEW first \in Nat, Holds(0, serial_buf_len - 1, first),
               rcvd + 1 = first + serial_buf_len
        PROVE  \A j \in 0 .. serial_buf_len' - 1 : serial_buf'[j] = first + j
    <3> TAKE j \in 0 .. serial_buf_len' - 1
    <3>1. CASE j = serial_buf_len
      BY <3>1, <2>5, <2>7
    <3>2. CASE j \in 0 .. serial_buf_len - 1
      BY <3>2, <2>4, <2>7 DEF Holds
    <3> QED
      BY <3>1, <3>2, <2>2
  <2>8. CASE pc \in Settled \ {"store"}
    <3>1. Holds(0, serial_buf_len - 1, Oldest) /\ InHand = 0
      BY <2>8 DEF Settled, InHand
    <3>2. \A j \in 0 .. serial_buf_len' - 1 : serial_buf'[j] = Oldest + j
      BY <2>7, <3>1 DEF Oldest
    <3>3. Holds(0, serial_buf_len - 1, Oldest)'
      BY <3>2, <2>6 DEF Holds, Oldest
    <3> QED
      BY <2>2, <2>6, <2>8, <3>1, <3>3 DEF Settled, InHand, Oldest
  <2>9. CASE pc = "copy" /\ k = count
    <3>1. Holds(0, serial_buf_len - 1, Oldest + 1) /\ InHand = 1
      BY <2>9 DEF InHand
    <3>2. \A j \in 0 .. serial_buf_len' - 1 : serial_buf'[j] = Oldest + 1 + j
      BY <2>7, <3>1 DEF Oldest
    <3>3. Holds(0, serial_buf_len - 1, Oldest + 1)'
      BY <3>2, <2>6 DEF Holds, Oldest
    <3>4. Holds(0, k - 1, Oldest + 1)'
      BY <3>3, <2>2, <2>6, <2>9 DEF Holds
    <3> QED
      BY <2>2, <2>6, <2>9, <3>1, <3>3, <3>4 DEF Settled, InHand, Oldest
  <2> QED
    BY <2>3, <2>8, <2>9
<1>2. CASE Avail
  BY <1>2
  DEF Avail, shared, getter, history,
      Holds, Settled, Oldest, InHand
<1>3. CASE Loop
  BY <1>3
  DEF Loop, MoreToGet, shared, caller, getter, history,
      Holds, Settled, Oldest, InHand
<1>4. CASE CheckEmpty
  BY <1>4 DEF CheckEmpty, Empty, InHand
<1>5. CASE CheckNonEmpty
  BY <1>5
  DEF CheckNonEmpty, Empty, shared, caller, getter, history,
      Holds, Settled, Oldest, InHand
<1>6. CASE ReadFirst
  BY <1>6
  DEF ReadFirst, shared, caller, history,
      Holds, Settled, Oldest, InHand
<1>7. CASE LoadLen
  BY <1>7
  DEF LoadLen, shared, caller, history,
      Holds, Settled, Oldest, InHand
<1>8. CASE StoreLen
  BY <1>8
  DEF StoreLen, Decremented, caller, history,
      Holds, Settled, Oldest, InHand
<1>9. CASE CallMemcpy
  BY <1>9
  DEF CallMemcpy, shared, caller, history,
      Holds, Settled, Oldest, InHand
<1>10. CASE CopyByte
  <2> USE <1>10 DEF CopyByte
  <2>1. UNCHANGED <<serial_buf_len, pc, len, i, out, c, eax, count, rcvd>>
        /\ k' = k + 1 /\ k < count /\ pc = "copy"
    BY DEF caller, history
  <2>2. count = serial_buf_len /\ Holds(0, k - 1, Oldest + 1)
        /\ Holds(k, count, Oldest)
    BY <2>1
  <2>3. serial_buf' = [serial_buf EXCEPT ![k] = serial_buf[k + 1]]
    BY DEF Shifted
  <2>4. /\ \A j \in 0 .. k : serial_buf'[j] = Oldest + 1 + j
        /\ \A j \in k + 1 .. count : serial_buf'[j] = Oldest + j
    <3>1. /\ count \in 0 .. SERIAL_BUF_SIZE - 1 /\ k \in 0 .. count - 1
          /\ Oldest \in Nat
      BY <2>1, <2>2 DEF Oldest
    <3>2. /\ \A j \in 0 .. k - 1 : serial_buf[j] = Oldest + 1 + j
          /\ \A j \in k .. count : serial_buf[j] = Oldest + j
      BY <2>2 DEF Holds
    <3>3. serial_buf \in [Cells -> Stamps]
      OBVIOUS
    <3> HIDE DEF Cells, Stamps, TypeOK, Control, TypeInv, Fifo, CopyByte
    <3>4. serial_buf'[k] = Oldest + 1 + k
      BY <2>3, <3>1, <3>2, <3>3 DEF Cells
    <3>5. \A j \in 0 .. count : j # k => serial_buf'[j] = serial_buf[j]
      BY <2>3, <3>1, <3>3 DEF Cells
    <3> QED
      BY <3>1, <3>2, <3>4, <3>5
  <2>5. Holds(0, k - 1, Oldest + 1)' /\ Holds(k, count, Oldest)'
    BY <2>1, <2>4 DEF Holds, Oldest
  <2>6. k' = count' => Holds(0, serial_buf_len - 1, Oldest + 1)'
    BY <2>1, <2>2, <2>5 DEF Holds
  <2> HIDE DEF CopyByte
  <2> QED
    BY <2>1, <2>2, <2>5, <2>6 DEF InHand, Settled, Oldest
<1>11. CASE ReturnByte
  <2>1. Deliver(Oldest) /\ UNCHANGED <<shared, getter, history>> /\ pc = "copy"
    BY <1>11 DEF ReturnByte
  <2>2. Len(out') = Len(out) + 1
    BY <2>1, FifoDeliver
  <2>3. /\ \A n \in 1 .. Len(out') : out'[n] = n
        /\ pc' = "loop" /\ i' = i + 1 /\ len' = len
    BY <2>1, FifoDeliver
  <2>4. UNCHANGED <<serial_buf, serial_buf_len, rcvd>> /\ k = count
    BY <1>11 DEF ReturnByte, shared, history
  <2>5. Holds(0, serial_buf_len - 1, Oldest)'
    BY <2>1, <2>2, <2>4 DEF Holds, Oldest
  <2> QED
    BY <2>1, <2>2, <2>3, <2>4, <2>5 DEF InHand, Settled
<1>12. CASE UNCHANGED vars
  BY <1>12
  DEF vars, shared, caller, getter, history,
      Holds, Settled, Oldest, InHand
<1> QED
  BY <1>1, <1>2, <1>3, <1>4, <1>5, <1>6, <1>7, <1>8, <1>9, <1>10, <1>11,
     <1>12 DEF Next, Mainline

\* For every buffer size and any number of bytes: until an interrupt falls into
\* the shift of serialin_get or fills the buffer, Lua receives exactly the
\* bytes that arrived, in order, and no byte is unaccounted for.
THEOREM SerialFifo == Spec => []FifoUnlessRaced
<1>1. FifoInv => FifoUnlessRaced
  BY DEF FifoInv, Fifo, FifoUnlessRaced
<1> QED
  BY TypeInit, TypeStep, FifoInit, FifoStep, <1>1, PTL DEF Spec

-----------------------------------------------------------------------------
(* The runaway copy                                                        *)

\* The places at which a length of zero, once taken off by one, is fatal.
Runaway ==
  \/ pc \in {"read", "load"} /\ serial_buf_len = 0
  \/ pc = "store" /\ eax = 0
  \/ serial_buf_len < 0
  \/ pc = "wild"

RunawayInv == Runaway => raced /\ flushed

\* An empty buffer with no get under way is not one of those places.
LEMMA RunawayInit == Init => RunawayInv
  BY DEF Init, RunawayInv, Runaway

\* Only a flush between the test and the load leads to one of those places, and
\* the history variables never go back to FALSE.
LEMMA RunawayStep == TypeInv /\ RunawayInv /\ [Next]_vars => RunawayInv'
<1> SUFFICES ASSUME TypeInv, RunawayInv, [Next]_vars PROVE RunawayInv'
  OBVIOUS
<1> USE SizeAssumption, BytesAssumption
    DEF TypeInv, TypeOK, Control, RunawayInv, Runaway
<1>1. CASE SerialInterrupt
  <2> DEFINE full == serial_buf_len + 1 = SERIAL_BUF_SIZE
  <2>1. (raced => raced') /\ (flushed => flushed')
    BY <1>1 DEF SerialInterrupt
  <2>2. full /\ pc \in {"read", "load"} => raced' /\ flushed'
    BY <1>1 DEF SerialInterrupt
  <2>3. /\ serial_buf_len' = IF full THEN 0 ELSE serial_buf_len + 1
        /\ UNCHANGED <<pc, eax>>
    BY <1>1 DEF SerialInterrupt, LenAfter, getter
  <2> QED
    BY <2>1, <2>2, <2>3
<1>2. CASE Avail
  BY <1>2 DEF Avail, shared, getter, history
<1>3. CASE Loop
  BY <1>3 DEF Loop, shared, caller, getter, history
<1>4. CASE CheckEmpty
  BY <1>4 DEF CheckEmpty, Deliver, shared, getter, history
<1>5. CASE CheckNonEmpty
  BY <1>5 DEF CheckNonEmpty, Empty, shared, caller, getter, history
<1>6. CASE ReadFirst
  BY <1>6 DEF ReadFirst, shared, caller, history
<1>7. CASE LoadLen
  BY <1>7 DEF LoadLen, shared, caller, history
<1>8. CASE StoreLen
  BY <1>8 DEF StoreLen, Decremented, caller, history
<1>9. CASE CallMemcpy
  BY <1>9 DEF CallMemcpy, shared, caller, history
<1>10. CASE CopyByte
  BY <1>10 DEF CopyByte, caller, history
<1>11. CASE ReturnByte
  BY <1>11 DEF ReturnByte, Deliver, shared, getter, history
<1>12. CASE UNCHANGED vars
  BY <1>12 DEF vars, shared, caller, getter, history
<1> QED
  BY <1>1, <1>2, <1>3, <1>4, <1>5, <1>6, <1>7, <1>8, <1>9, <1>10, <1>11,
     <1>12 DEF Next, Mainline

\* For every buffer size: memcpy is called with a negative length only after a
\* flush has emptied the buffer inside the getter.
THEOREM SerialRunaway == Spec => []RunawayCopyNeedsFlush
<1>1. RunawayInv => RunawayCopyNeedsFlush
  BY DEF RunawayInv, Runaway, RunawayCopyNeedsFlush
<1> QED
  BY TypeInit, TypeStep, RunawayInit, RunawayStep, <1>1, PTL DEF Spec

-----------------------------------------------------------------------------
(* No interleaving invents a byte                                          *)

\* The places in out of the bytes that Lua has been handed.
Delivered == {n \in 1 .. Len(out) : out[n] # EOF}

\* Each byte in the buffer and in the getter's hand has arrived and has not
\* been handed over; between the load and the store of the length it is the
\* loaded value that counts, whatever interrupts do to the other.
Accounted ==
  /\ pc \in Settled \ {"store"} => Cardinality(Delivered) + serial_buf_len <= rcvd
  /\ pc = "store" => Cardinality(Delivered) + eax <= rcvd
  /\ pc \in {"count", "copy", "wild"} =>
       Cardinality(Delivered) + serial_buf_len + 1 <= rcvd

\* Nothing has arrived and nothing has been handed over.
LEMMA AccountedInit == Init => Accounted
<1> SUFFICES ASSUME Init PROVE Accounted
  OBVIOUS
<1>1. Delivered = {}
  BY DEF Init, Delivered
<1>2. Cardinality(Delivered) = 0
  BY <1>1, FS_EmptySet
<1> QED
  BY <1>2 DEF Init, Accounted, Settled

\* The number of bytes handed over is a number.
LEMMA DeliveredFinite ==
  ASSUME TypeInv PROVE IsFiniteSet(Delivered) /\ Cardinality(Delivered) \in Nat
<1>1. Len(out) \in Nat
  BY DEF TypeInv, TypeOK
<1>2. IsFiniteSet(1 .. Len(out))
  BY <1>1, FS_Interval
<1>3. IsFiniteSet(Delivered)
  BY <1>2, FS_Subset DEF Delivered
<1> QED
  BY <1>3, FS_CardinalityType

\* Handing over one value adds at most one byte, and none if it is EOF.
LEMMA DeliverCounts ==
  ASSUME TypeInv, NEW byte \in Stamps \cup {EOF}, out' = Append(out, byte)
  PROVE  Cardinality(Delivered') =
           Cardinality(Delivered) + (IF byte = EOF THEN 0 ELSE 1)
<1>1. out \in Seq(Stamps \cup {EOF}) /\ Len(out) \in Nat
  BY DEF TypeInv, TypeOK
<1>2. /\ Len(out') = Len(out) + 1
      /\ \A n \in 1 .. Len(out) : out'[n] = out[n]
      /\ out'[Len(out) + 1] = byte
  BY <1>1
<1>3. Delivered' = IF byte = EOF THEN Delivered ELSE Delivered \cup {Len(out) + 1}
  BY <1>1, <1>2 DEF Delivered
<1>4. Len(out) + 1 \notin Delivered
  BY <1>1 DEF Delivered
<1>5. IsFiniteSet(Delivered) /\ Cardinality(Delivered) \in Nat
  BY DeliveredFinite
<1>6. Cardinality(Delivered \cup {Len(out) + 1}) = Cardinality(Delivered) + 1
  BY <1>4, <1>5, FS_AddElement
<1> QED
  BY <1>3, <1>5, <1>6

\* No step hands over a byte without taking it off the count: a stale length
\* that is stored after a flush was paid for by the bytes that it counts.
LEMMA AccountedStep == TypeInv /\ Accounted /\ [Next]_vars => Accounted'
<1> SUFFICES ASSUME TypeInv, Accounted, [Next]_vars PROVE Accounted'
  OBVIOUS
<1>a. Cardinality(Delivered) \in Nat
  BY DeliveredFinite
<1>b. (out' = out) => Cardinality(Delivered') = Cardinality(Delivered)
  BY DEF Delivered
<1>c. /\ c \in 0 .. MaxBytes /\ c # EOF
      /\ serial_buf_len \in Int /\ eax \in Int /\ rcvd \in Int
      /\ serial_buf_len < 0 => pc \in {"count", "wild"}
      /\ serial_buf_len <= SERIAL_BUF_SIZE - 1
      /\ MaxBytes \in Nat
  BY SizeAssumption, BytesAssumption DEF TypeInv, TypeOK, Control
<1> USE <1>a, <1>b, <1>c, SizeAssumption DEF Accounted, Settled
<1>1. CASE SerialInterrupt
  BY <1>1 DEF SerialInterrupt, LenAfter, caller, getter
<1>2. CASE Avail
  BY <1>2 DEF Avail, shared, getter, history
<1>3. CASE Loop
  BY <1>3 DEF Loop, shared, caller, getter, history
<1>4. CASE CheckEmpty
  <2>1. Cardinality(Delivered') = Cardinality(Delivered)
    BY <1>4, DeliverCounts DEF CheckEmpty, Deliver
  <2> QED
    BY <1>4, <2>1 DEF CheckEmpty, Deliver, shared, getter, history
<1>5. CASE CheckNonEmpty
  BY <1>5 DEF CheckNonEmpty, shared, caller, getter, history
<1>6. CASE ReadFirst
  BY <1>6 DEF ReadFirst, shared, caller, history
<1>7. CASE LoadLen
  BY <1>7 DEF LoadLen, shared, caller, history
<1>8. CASE StoreLen
  BY <1>8 DEF StoreLen, Decremented, caller, history
<1>9. CASE CallMemcpy
  BY <1>9 DEF CallMemcpy, shared, caller, history
<1>10. CASE CopyByte
  BY <1>10 DEF CopyByte, caller, history
<1>11. CASE ReturnByte
  <2>1. Cardinality(Delivered') = Cardinality(Delivered) + 1
    BY <1>11, DeliverCounts DEF ReturnByte, Deliver
  <2> QED
    BY <1>11, <2>1 DEF ReturnByte, Deliver, shared, getter, history
<1>12. CASE UNCHANGED vars
  BY <1>12 DEF vars, shared, caller, getter, history
<1> QED
  BY <1>1, <1>2, <1>3, <1>4, <1>5, <1>6, <1>7, <1>8, <1>9, <1>10, <1>11,
     <1>12 DEF Next, Mainline

\* For every buffer size and every interleaving of the handler, the flush and
\* the unlocked getter, races included: Lua is never handed more bytes than
\* have arrived.
THEOREM SerialNoByteInvented == Spec => []NoByteInvented
<1>1. TypeInv /\ Accounted => NoByteInvented
  <2> SUFFICES ASSUME TypeInv, Accounted
               PROVE  Cardinality(Delivered) <= rcvd
    BY DEF NoByteInvented, Delivered
  <2>1. Cardinality(Delivered) \in Nat
    BY DeliveredFinite
  <2>2. /\ serial_buf_len \in -1 .. SERIAL_BUF_SIZE - 1 /\ rcvd \in Int
        /\ serial_buf_len < 0 => pc \in {"count", "wild"}
        /\ pc = "store" => eax \in Nat
        /\ pc \in Labels
    BY SizeAssumption, BytesAssumption DEF TypeInv, TypeOK, Control
  <2> QED
    BY <2>1, <2>2, SizeAssumption DEF Accounted, Settled
<1> QED
  BY TypeInit, TypeStep, AccountedInit, AccountedStep, <1>1, PTL DEF Spec

-----------------------------------------------------------------------------
(* What survives is in order                                               *)

\* The cells that still have to be handed over.  While the shift is on, the
\* cell that it has reached holds a byte that another one holds as well.
Live ==
  CASE pc \in Settled                -> 0 .. serial_buf_len - 1
    [] pc = "count"                  -> 1 .. serial_buf_len
    [] pc = "copy" /\ k < count      -> (0 .. count) \ {k}
    [] pc = "copy" /\ ~(k < count)   -> 0 .. serial_buf_len - 1
    [] OTHER                         -> {}

\* b is a byte that has arrived, and after everything that Lua has seen.
Unseen(b, seen, arrived) == b <= arrived /\ \A n \in 1 .. Len(seen) : seen[n] < b

\* What is left in the buffer is in order and unseen, and so is what the
\* getter carries, which is older than the rest.  An arriving byte is newer
\* than all of it, and a flush at a moment that does no damage empties Live.
Ordered ==
  /\ \A n \in 1 .. Len(out) : out[n] <= rcvd
  /\ \A m, n \in 1 .. Len(out) :
       m < n /\ out[m] # EOF /\ out[n] # EOF => out[m] < out[n]
  /\ \A a, b \in Live : a < b => serial_buf[a] < serial_buf[b]
  /\ \A a \in Live : Unseen(serial_buf[a], out, rcvd)
  /\ pc \in {"load", "store"} => c = serial_buf[0]
  /\ pc = "store" => eax = serial_buf_len
  /\ pc = "copy" /\ k < count => count = serial_buf_len
  /\ pc \in {"count", "copy"} => Unseen(c, out, rcvd) /\ \A a \in Live : c < serial_buf[a]

OrderedInv == ~raced => Ordered

\* Nothing is buffered or handed over when the machine starts.
LEMMA OrderedInit == Init => OrderedInv
  BY SizeAssumption, BytesAssumption DEF Init, OrderedInv, Ordered, Live, Settled

\* Handing over an unseen byte, or EOF, keeps what Lua has seen in order; what
\* is newer than that byte is still unseen.
LEMMA OrderedDeliver ==
  ASSUME TypeInv, Ordered, rcvd' = rcvd,
         NEW byte \in Stamps \cup {EOF}, byte = EOF \/ Unseen(byte, out, rcvd),
         out' = Append(out, byte)
  PROVE  /\ \A n \in 1 .. Len(out') : out'[n] <= rcvd'
         /\ \A m, n \in 1 .. Len(out') :
              m < n /\ out'[m] # EOF /\ out'[n] # EOF => out'[m] < out'[n]
         /\ \A b \in Stamps : Unseen(b, out, rcvd) /\ byte < b => Unseen(b, out', rcvd')
<1>1. out \in Seq(Stamps \cup {EOF}) /\ Len(out) \in Nat /\ rcvd \in 0 .. MaxBytes
  BY DEF TypeInv, TypeOK
<1>2. /\ Len(out') = Len(out) + 1
      /\ \A n \in 1 .. Len(out) : out'[n] = out[n]
      /\ out'[Len(out) + 1] = byte
  BY <1>1
<1>3. \A n \in 1 .. Len(out') : n \in 1 .. Len(out) \/ n = Len(out) + 1
  BY <1>1, <1>2
<1>4. \A n \in 1 .. Len(out) : out[n] \in -1 .. MaxBytes
  BY <1>1, ElementOfSeq, BytesAssumption
<1> QED
  BY <1>1, <1>2, <1>3, <1>4, BytesAssumption DEF Ordered, Unseen

\* An arriving byte is newer than every other one, and it only empties the
\* buffer where the getter does not rely on it.
LEMMA OrderedArrival ==
  ASSUME TypeInv, RunawayInv, Ordered, SerialInterrupt, ~raced', ~raced
  PROVE  Ordered'
<1>a. /\ serial_buf_len \in Nat /\ serial_buf_len < SERIAL_BUF_SIZE
      /\ rcvd \in Nat /\ c \in Nat /\ count \in Int /\ k \in Nat
      /\ SERIAL_BUF_SIZE \in Nat /\ MaxBytes \in Nat /\ Len(out) \in Nat
  BY SizeAssumption, BytesAssumption DEF TypeInv, TypeOK, RunawayInv, Runaway
<1>b. pc \in Labels \ {"wild"}
  BY DEF TypeInv, TypeOK, RunawayInv, Runaway
<1>c. \A n \in 1 .. Len(out) : out[n] \in -1 .. MaxBytes
  BY BytesAssumption, ElementOfSeq DEF TypeInv, TypeOK
<1>d. serial_buf \in [Cells -> Stamps]
  BY DEF TypeInv, TypeOK
<1> USE <1>a
<1>1. /\ UNCHANGED <<pc, out, c, eax, count, k>> /\ rcvd' = rcvd + 1
      /\ serial_buf' = [serial_buf EXCEPT ![serial_buf_len] = rcvd + 1]
      /\ pc \in Settled \ {"store"} \/ (pc = "copy" /\ ~(k < count))
      /\ Live = 0 .. serial_buf_len - 1
  BY <1>b DEF SerialInterrupt, caller, getter, InShift, Live, Settled
<1>2. Live' = {} \/ Live' = 0 .. serial_buf_len
  <2>1. serial_buf_len' = 0 \/ serial_buf_len' = serial_buf_len + 1
    BY DEF SerialInterrupt, LenAfter
  <2>2. pc' \in Settled \/ (pc' = "copy" /\ ~(k' < count'))
    BY <1>1
  <2>3. Live' = 0 .. serial_buf_len' - 1
    BY <2>2 DEF Live, Settled
  <2>4. CASE serial_buf_len' = 0
    BY <2>3, <2>4
  <2>5. CASE serial_buf_len' = serial_buf_len + 1
    BY <2>3, <2>5
  <2> QED
    BY <2>1, <2>4, <2>5
<1>3. \A a \in 0 .. serial_buf_len :
        serial_buf'[a] = IF a = serial_buf_len THEN rcvd + 1 ELSE serial_buf[a]
  BY <1>1, <1>d
<1>4. \A b \in Stamps : (Unseen(b, out, rcvd) => Unseen(b, out', rcvd')) /\ (b = rcvd + 1 => Unseen(b, out', rcvd'))
  BY <1>c, <1>1 DEF Unseen, Ordered
<1>5. \A a \in Live' : a \in 0 .. serial_buf_len /\ (a = serial_buf_len \/ a \in Live)
  BY <1>1, <1>2
<1>6. rcvd + 1 \in Stamps
  BY DEF SerialInterrupt
<1>7. \A a \in Live' : Unseen(serial_buf'[a], out', rcvd')
  <2>1. \A a \in Live : serial_buf[a] \in Stamps /\ Unseen(serial_buf[a], out', rcvd')
    BY <1>1, <1>4, <1>a, <1>d DEF Ordered
  <2>2. Unseen(rcvd + 1, out', rcvd')
    BY <1>4, <1>6
  <2> QED
    BY <1>3, <1>5, <2>1, <2>2
<1>8. \A a, b \in Live' : a < b => serial_buf'[a] < serial_buf'[b]
  <2>1. \A a \in Live : serial_buf[a] \in Stamps /\ serial_buf[a] < rcvd + 1
    BY <1>1, <1>d DEF Ordered, Unseen
  <2> QED
    <3> TAKE a, b \in Live'
    <3> HAVE a < b
    <3>1. /\ a \in 0 .. serial_buf_len /\ b \in 0 .. serial_buf_len
          /\ a \in Live /\ (b = serial_buf_len \/ b \in Live)
      BY <1>1, <1>5
    <3>2. CASE b = serial_buf_len
      BY <1>3, <2>1, <3>1, <3>2
    <3>3. CASE b # serial_buf_len
      BY <1>3, <3>1, <3>3 DEF Ordered
    <3> QED
      BY <3>2, <3>3
<1>9. pc' \in {"count", "copy"} => Unseen(c', out', rcvd') /\ \A a \in Live' : c' < serial_buf'[a]
  <2>1. ASSUME pc' \in {"count", "copy"}
        PROVE  pc = "copy" /\ Unseen(c, out, rcvd) /\ \A a \in Live : c < serial_buf[a]
    BY <1>1, <2>1 DEF Ordered, Settled
  <2>2. ASSUME pc' \in {"count", "copy"} PROVE Unseen(c', out', rcvd') /\ c < rcvd + 1
    BY <1>1, <1>4, <2>1, <2>2 DEF Unseen
  <2> QED
    BY <1>1, <1>3, <1>5, <2>1, <2>2
<1>10. /\ \A n \in 1 .. Len(out') : out'[n] <= rcvd'
       /\ \A m, n \in 1 .. Len(out') :
            m < n /\ out'[m] # EOF /\ out'[n] # EOF => out'[m] < out'[n]
  BY <1>1, <1>c DEF Ordered
<1>11. /\ pc' \in {"load", "store"} => c' = serial_buf'[0]
       /\ pc' = "store" => eax' = serial_buf_len'
       /\ pc' = "copy" /\ k' < count' => count' = serial_buf_len'
  <2>1. pc \in {"read", "load"} => serial_buf_len > 0
    BY DEF RunawayInv, Runaway
  <2> QED
    BY <1>1, <1>3, <2>1 DEF Ordered, Settled
<1> QED
  BY <1>7, <1>8, <1>9, <1>10, <1>11 DEF Ordered

\* Every step of the handler or of the mainline that does no damage keeps the
\* survivors in order.
LEMMA OrderedStep ==
  TypeInv /\ RunawayInv /\ OrderedInv /\ [Next]_vars => OrderedInv'
<1> SUFFICES ASSUME TypeInv, RunawayInv, OrderedInv, [Next]_vars, ~raced'
             PROVE  Ordered'
  BY DEF OrderedInv
<1>0. ~raced /\ Ordered
  BY DEF TypeInv, TypeOK, OrderedInv, Next, Mainline, vars, history, SerialInterrupt, Avail, Loop,
         CheckEmpty, CheckNonEmpty, ReadFirst, LoadLen, StoreLen, CallMemcpy,
         CopyByte, ReturnByte
<1>a. /\ serial_buf \in [Cells -> Stamps]
      /\ serial_buf_len \in 0 .. SERIAL_BUF_SIZE - 1
      /\ pc \in {"read", "load"} => serial_buf_len > 0
      /\ pc = "store" => eax > 0
      /\ pc # "wild" /\ pc \in Labels
  BY <1>0, SizeAssumption, BytesAssumption DEF TypeInv, TypeOK, RunawayInv, Runaway
<1>b. /\ rcvd \in 0 .. MaxBytes /\ c \in Stamps
      /\ count \in -1 .. SERIAL_BUF_SIZE - 1 /\ k \in 0 .. SERIAL_BUF_SIZE - 1
      /\ pc = "copy" => k <= count
      /\ eax \in -1 .. SERIAL_BUF_SIZE - 1
      /\ Len(out) \in Nat
  BY BytesAssumption DEF TypeInv, TypeOK
<1>c. \A n \in 1 .. Len(out) : out[n] \in -1 .. MaxBytes
  BY BytesAssumption, ElementOfSeq DEF TypeInv, TypeOK
<1> USE <1>0, <1>a, <1>b, SizeAssumption, BytesAssumption
<1>1. CASE SerialInterrupt
  BY <1>1, OrderedArrival
<1>2. CASE Avail
  BY <1>2 DEF Avail, shared, getter, history, Ordered, Live, Settled, Unseen
<1>3. CASE Loop
  BY <1>3 DEF Loop, shared, caller, getter, history, Ordered, Live, Settled, Unseen
<1>4. CASE CheckEmpty
  <2>1. /\ out' = Append(out, EOF) /\ pc = "check" /\ pc' = "loop"
        /\ UNCHANGED <<serial_buf, serial_buf_len, rcvd, c, eax, count, k>>
        /\ serial_buf_len = 0
    BY <1>4 DEF CheckEmpty, Empty, Deliver, shared, getter, history
  <2>2. Live' = {}
    BY <2>1 DEF Live, Settled
  <2> QED
    BY <2>1, <2>2, OrderedDeliver DEF Ordered
<1>5. CASE CheckNonEmpty
  BY <1>5 DEF CheckNonEmpty, shared, caller, getter, history, Ordered, Live, Settled, Unseen
<1>6. CASE ReadFirst
  BY <1>6 DEF ReadFirst, shared, caller, history, Ordered, Live, Settled, Unseen
<1>7. CASE LoadLen
  BY <1>7 DEF LoadLen, shared, caller, history, Ordered, Live, Settled, Unseen
<1>8. CASE StoreLen
  <2>1. /\ UNCHANGED <<serial_buf, out, c, rcvd>> /\ pc = "store" /\ pc' = "count"
        /\ serial_buf_len' = serial_buf_len - 1
    BY <1>8 DEF StoreLen, Decremented, caller, history, Ordered
  <2>2. Live = 0 .. serial_buf_len - 1 /\ Live' = 1 .. serial_buf_len - 1
    BY <2>1 DEF Live, Settled
  <2>3. serial_buf_len > 0 /\ c = serial_buf[0] /\ 0 \in Live
    BY <2>1, <2>2 DEF Ordered
  <2>4. \A a \in Live' : a \in Live /\ 0 < a
    BY <2>2
  <2> QED
    BY <2>1, <2>3, <2>4 DEF Ordered, Unseen
<1>9. CASE CallMemcpy
  <2>1. /\ UNCHANGED <<serial_buf, serial_buf_len, out, c, rcvd>>
        /\ pc = "count" /\ pc' = "copy" /\ count' = serial_buf_len /\ k' = 0
    BY <1>9 DEF CallMemcpy, shared, caller, history
  <2>2. Live = 1 .. serial_buf_len /\ Live' = Live
    <3>1. CASE serial_buf_len = 0
      <4>1. Live = {} /\ Live' = {}
        BY <2>1, <3>1 DEF Live, Settled
      <4> QED
        BY <3>1, <4>1
    <3>2. CASE serial_buf_len > 0
      BY <2>1, <3>2 DEF Live, Settled
    <3> QED
      BY <3>1, <3>2
  <2> QED
    BY <2>1, <2>2 DEF Ordered, Unseen
<1>10. CASE CopyByte
  <2>1. /\ UNCHANGED <<serial_buf_len, pc, out, c, eax, count, rcvd>>
        /\ pc = "copy" /\ k < count /\ k' = k + 1 /\ count = serial_buf_len
        /\ serial_buf' = [serial_buf EXCEPT ![k] = serial_buf[k + 1]]
    BY <1>10 DEF CopyByte, Shifted, caller, history, Ordered
  <2>2. Live = (0 .. count) \ {k}
    BY <2>1 DEF Live, Settled
  <2>3. \A a \in 0 .. count : serial_buf'[a] = IF a = k THEN serial_buf[k + 1] ELSE serial_buf[a]
    BY <2>1
  <2> DEFINE was(a) == IF a = k THEN k + 1 ELSE a
  <2> DEFINE next == IF k + 1 < count THEN (0 .. count) \ {k + 1} ELSE 0 .. count - 1
  <2>4. Live' = next
    BY <2>1 DEF Live, Settled
  <2>5. \A a \in next : was(a) \in Live /\ serial_buf'[a] = serial_buf[was(a)]
    BY <2>1, <2>2, <2>3
  <2>6. \A a, b \in next : a < b => was(a) < was(b)
    BY <2>1, <2>2
  <2> HIDE DEF was, next
  <2> QED
    BY <2>1, <2>4, <2>5, <2>6 DEF Ordered, Unseen
<1>11. CASE ReturnByte
  <2>1. /\ out' = Append(out, c) /\ pc = "copy" /\ pc' = "loop" /\ k = count
        /\ UNCHANGED <<serial_buf, serial_buf_len, rcvd>>
    BY <1>11 DEF ReturnByte, Deliver, shared, getter, history
  <2>2. Live' = Live /\ Live = 0 .. serial_buf_len - 1
    BY <2>1 DEF Live, Settled
  <2>3. \A a \in Live : serial_buf[a] \in Stamps /\ c < serial_buf[a]
    BY <2>1, <2>2 DEF Ordered
  <2>4. \A b \in Stamps : Unseen(b, out, rcvd) /\ c < b => Unseen(b, out', rcvd')
    BY <2>1, OrderedDeliver DEF Ordered
  <2> QED
    BY <2>1, <2>2, <2>3, <2>4, OrderedDeliver DEF Ordered
<1>12. CASE UNCHANGED vars
  BY <1>12 DEF vars, shared, caller, getter, history, Ordered, Live, Settled, Unseen
<1> QED
  BY <1>1, <1>2, <1>3, <1>4, <1>5, <1>6, <1>7, <1>8, <1>9, <1>10, <1>11,
     <1>12 DEF Next, Mainline

\* For every buffer size: whatever a flush throws away, as long as no interrupt
\* falls into the damaging window of a get, the bytes that Lua does receive are
\* in the order of their arrival, and none comes twice.
THEOREM SerialSurvivors == Spec => []SurvivorsInOrder
<1>1. OrderedInv => SurvivorsInOrder
  BY DEF OrderedInv, Ordered, SurvivorsInOrder
<1> QED
  BY TypeInit, TypeStep, RunawayInit, RunawayStep, OrderedInit, OrderedStep, <1>1, PTL
  DEF Spec
=============================================================================
