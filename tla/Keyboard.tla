------------------------------ MODULE Keyboard ------------------------------
(***************************************************************************)
(* The keyboard driver (drivers/keyboard.c): the IRQ1 handler, which turns *)
(* scan codes into characters and counts shift keys, and keyboardin_get,   *)
(* through which fgets takes the characters.                               *)
(*                                                                         *)
(* A user holds, repeats and releases keys; the controller sends a make    *)
(* code for a press and, while the key that was pressed last stays down,   *)
(* for each repeat, and a break code for a release.  The handler runs to   *)
(* completion: keyboard_flush enables interrupts inside it, but IRQ1 stays *)
(* blocked until its end-of-interrupt.  The mainline runs in the steps of  *)
(* module Serial: wait, read, load, store, count, copy, wild.              *)
(*                                                                         *)
(* A character is <<key, 0>>, or <<key, 1>> from the shifted half of the   *)
(* table; keys without a character yield NUL.  The model stops when a      *)
(* character is written beyond keyboard_buf.                               *)
(***************************************************************************)
EXTENDS Integers, Sequences

CONSTANTS
  LeftShift, RightShift, CapsLock, Backspace,
  CharKeys,           \* keys that the table gives a character
  BareKeys,           \* keys that it gives 0, such as Control, F1 or Up
  HeldAtBoot,         \* sets of keys that may be down when the driver starts
  KEYBOARD_BUF_SIZE,
  MaxScans            \* bound: scan codes in one behaviour

Shifts == {LeftShift, RightShift}
Keys   == Shifts \cup {CapsLock, Backspace} \cup CharKeys \cup BareKeys

ASSUME KeysAssumption ==
  /\ LeftShift # RightShift /\ CapsLock # Backspace
  /\ Shifts \cap {CapsLock, Backspace} = {}
  /\ (CharKeys \cup BareKeys) \cap (Shifts \cup {CapsLock, Backspace}) = {}
  /\ CharKeys \cap BareKeys = {}
  /\ HeldAtBoot \subseteq SUBSET Keys
ASSUME BoundsAssumption ==
  /\ KEYBOARD_BUF_SIZE \in Nat /\ KEYBOARD_BUF_SIZE >= 2
  /\ MaxScans \in Nat

VARIABLES
  held, last,        \* the user: keys that are down, key pressed last
  shift_pressed, capslock,
  keyboard_buf,      \* index -1 is the byte in front of the array
  keyboard_buf_len,
  pc, c, eax, count, k,  \* keyboardin_get and memcpy
  got,               \* characters handed to stdin
  typed,             \* history: characters that went into the buffer
  scans,             \* history: number of scan codes
  drift,             \* history: shift repeats, less the shifts held at boot
  erased,            \* history: a backspace has filled the last cell
  raced, flushed     \* history: as in module Serial

user   == <<held, last, scans, drift>>
shift  == <<shift_pressed, capslock>>
buffer == <<keyboard_buf, keyboard_buf_len>>
getter == <<c, eax, count, k>>
fate   == <<typed, erased, raced, flushed>>
vars   == <<user, shift, buffer, pc, getter, got, fate>>

NUL   == <<>>
BS    == <<Backspace, 0>>
Chars == {NUL, BS} \cup (CharKeys \X {0, 1})
Cells == -1 .. KEYBOARD_BUF_SIZE - 1

Count(b) == IF b THEN 1 ELSE 0
HeldShifts(keys) == Count(LeftShift \in keys) + Count(RightShift \in keys)

TypeOK ==
  /\ held \subseteq Keys /\ last \in Keys
  /\ scans \in 0 .. MaxScans
  /\ drift \in -2 .. MaxScans
  /\ shift_pressed \in Int /\ capslock \in {0, 1}
  /\ keyboard_buf \in [Cells -> Chars]
  /\ keyboard_buf_len \in -1 .. KEYBOARD_BUF_SIZE
  /\ pc \in {"wait", "read", "load", "store", "count", "copy", "wild",
            "overrun"}
  /\ c \in Chars
  /\ eax \in -1 .. KEYBOARD_BUF_SIZE
  /\ count \in -1 .. KEYBOARD_BUF_SIZE
  /\ k \in 0 .. KEYBOARD_BUF_SIZE
  /\ pc = "copy" => k <= count
  /\ got \in Seq(Chars) /\ typed \in Seq(Chars)
  /\ erased \in BOOLEAN /\ raced \in BOOLEAN /\ flushed \in BOOLEAN

\* The machine may be started with keys held down; one of them repeats.
Init ==
  /\ held \in HeldAtBoot
  /\ last \in IF held = {} THEN {CapsLock} ELSE held
  /\ scans = 0 /\ drift = -HeldShifts(held)
  /\ shift_pressed = 0 /\ capslock = 0
  /\ keyboard_buf = [n \in Cells |-> NUL] /\ keyboard_buf_len = 0
  /\ pc = "wait" /\ c = NUL /\ eax = 0 /\ count = 0 /\ k = 0
  /\ got = <<>> /\ typed = <<>>
  /\ erased = FALSE /\ raced = FALSE /\ flushed = FALSE

-----------------------------------------------------------------------------
(* The user and the keyboard controller                                    *)

Scan == pc # "overrun" /\ scans < MaxScans /\ scans' = scans + 1

\* A make code: the key goes down, or it repeats.
Make(key) ==
  /\ Scan
  /\ \/ /\ key \notin held
        /\ held' = held \cup {key}
        /\ last' = key
        /\ UNCHANGED drift
     \/ /\ key \in held
        /\ key = last
        /\ drift' = drift + Count(key \in Shifts)
        /\ UNCHANGED <<held, last>>

\* A break code: the key goes up.
Break(key) ==
  /\ Scan
  /\ key \in held
  /\ held' = held \ {key}
  /\ UNCHANGED <<last, drift>>

-----------------------------------------------------------------------------
(* keyboard_interrupt                                                      *)

\* The steps of the getter during which a new character does damage.
InShift == pc \in {"store", "count"} \/ (pc = "copy" /\ k < count)

\* Mutant: the full buffer is only noticed by the character after it.
LenAfterLateTest(n) == IF n = KEYBOARD_BUF_SIZE THEN 0 ELSE n + 1
\* Length after a character other than a backspace: keyboard_flush runs when
\* the buffer is full and, as no handler is ever installed, empties it.
LenAfter(n) == IF n + 1 = KEYBOARD_BUF_SIZE THEN 0 ELSE n + 1

\* keyboard_buf[keyboard_buf_len++] = char.
Store(char, newlen) ==
  IF keyboard_buf_len = KEYBOARD_BUF_SIZE
  THEN /\ pc' = "overrun"
       /\ UNCHANGED <<buffer, typed, raced>>
  ELSE /\ keyboard_buf' = [keyboard_buf EXCEPT ![keyboard_buf_len] = char]
       /\ keyboard_buf_len' = newlen
       /\ typed' = Append(typed, char)
       /\ raced' = (raced \/ InShift
                          \/ (newlen = 0 /\ pc \in {"read", "load"}))
       /\ UNCHANGED pc

MakeShift(key) ==
  /\ key \in Shifts
  /\ Make(key)
  /\ shift_pressed' = shift_pressed + 1
  /\ UNCHANGED <<capslock, buffer, pc, getter, got, fate>>

\* Mutant: the sign is taken from capslock before it is toggled.
CapsStep_Swapped(new) == 1 - 2 * new
\* shift_pressed += -1 + 2 * capslock.
CapsStep(new) == -1 + 2 * new

MakeCapsLock ==
  /\ Make(CapsLock)
  /\ capslock' = 1 - capslock
  /\ shift_pressed' = shift_pressed + CapsStep(capslock')
  /\ UNCHANGED <<buffer, pc, getter, got, fate>>

\* The backspace branch does not test for a full buffer.
MakeBackspace ==
  /\ Make(Backspace)
  /\ Store(BS, keyboard_buf_len + 1)
  /\ erased' = (erased \/ keyboard_buf_len + 1 = KEYBOARD_BUF_SIZE)
  /\ UNCHANGED <<shift, getter, got, flushed>>

\* Mutant: the counter itself selects the half of the table.
Half_Counter(n) == n
\* (shift_pressed > 0) selects the half of the table.
Half(n) == Count(n > 0)

\* kbdus[scancode + (shift_pressed > 0) * 90].
kbdus(key, half) == IF key \in BareKeys THEN NUL ELSE <<key, half>>

MakeChar(key) ==
  /\ key \in CharKeys \cup BareKeys
  /\ Make(key)
  /\ Store(kbdus(key, Half(shift_pressed)), LenAfter(keyboard_buf_len))
  /\ flushed' = (flushed \/ keyboard_buf_len + 1 = KEYBOARD_BUF_SIZE)
  /\ UNCHANGED <<shift, getter, got, erased>>

Release(key) ==
  /\ Break(key)
  /\ shift_pressed' = shift_pressed - Count(key \in Shifts)
  /\ UNCHANGED <<capslock, buffer, pc, getter, got, fate>>

KeyboardInterrupt ==
  \/ \E key \in Keys : MakeShift(key) \/ MakeChar(key) \/ Release(key)
  \/ MakeCapsLock
  \/ MakeBackspace

-----------------------------------------------------------------------------
(* keyboardin_get                                                          *)

\* Mutant: one character alone is not worth waking up for.
Available_Two(n) == n > 1
Available(n) == n # 0

\* The busy wait ends when an interrupt has put something into the buffer.
Wait ==
  /\ pc = "wait"
  /\ Available(keyboard_buf_len)
  /\ pc' = "read"
  /\ UNCHANGED <<user, shift, buffer, getter, got, fate>>

ReadFirst ==
  /\ pc = "read"
  /\ c' = keyboard_buf[0]
  /\ pc' = "load"
  /\ UNCHANGED <<user, shift, buffer, eax, count, k, got, fate>>

LoadLen ==
  /\ pc = "load"
  /\ eax' = keyboard_buf_len
  /\ pc' = "store"
  /\ UNCHANGED <<user, shift, buffer, c, count, k, got, fate>>

StoreLen ==
  /\ pc = "store"
  /\ eax' = eax - 1
  /\ keyboard_buf_len' = eax - 1
  /\ pc' = "count"
  /\ UNCHANGED <<user, shift, keyboard_buf, c, count, k, got, fate>>

\* As in module Serial, the unoptimised build reads the count back.
CallMemcpy ==
  /\ pc = "count"
  /\ count' = keyboard_buf_len
  /\ k' = 0
  /\ pc' = IF count' < 0 THEN "wild" ELSE "copy"
  /\ UNCHANGED <<user, shift, buffer, c, eax, got, fate>>

\* Mutant: the copy runs onto itself.
MovedInPlace(buf, n) == {[buf EXCEPT ![n] = buf[n]]}
\* dest[n] = src[n] with src = dest + 1.  With a count of KEYBOARD_BUF_SIZE the
\* last byte comes from behind the array.
Moved(buf, n) ==
  IF n + 1 \in Cells THEN {[buf EXCEPT ![n] = buf[n + 1]]}
  ELSE {[buf EXCEPT ![n] = behind] : behind \in Chars}

CopyByte ==
  /\ pc = "copy" /\ k < count
  /\ keyboard_buf' \in Moved(keyboard_buf, k)
  /\ k' = k + 1
  /\ UNCHANGED <<user, shift, keyboard_buf_len, pc, c, eax, count, got, fate>>

ReturnChar ==
  /\ pc = "copy" /\ k = count
  /\ got' = Append(got, c)
  /\ pc' = "wait"
  /\ UNCHANGED <<user, shift, buffer, getter, fate>>

-----------------------------------------------------------------------------
Mainline ==
  Wait \/ ReadFirst \/ LoadLen \/ StoreLen \/ CallMemcpy \/ CopyByte \/ ReturnChar

Next == KeyboardInterrupt \/ Mainline

Spec == Init /\ [][Next]_vars

\* The processor executes the mainline whenever no handler runs, and cli asks
\* for the next line again and again.
FairSpec == Spec /\ WF_vars(Mainline)

-----------------------------------------------------------------------------
(* Properties                                                              *)

\* keyboard_interrupt keeps one counter for two shift keys and caps lock.  In
\* every order of presses, repeats and releases the counter is the number of
\* shifts held plus caps lock, off by exactly the repeats of shift keys and the
\* shifts held at boot, and nothing later corrects it.
ShiftAccounting == shift_pressed = HeldShifts(held) + capslock + drift

\* The getter holds a character that it has not yet handed over.
InHand == IF pc \in {"count", "copy"} THEN <<c>> ELSE <<>>

\* Until a key arrives in the damaging window of a get, the buffer fills up or it
\* is overrun, stdin gets what was typed, in order, and the rest is in the
\* buffer.  During the shift the cells from k on are still where they were.
Shifting == pc = "count" \/ (pc = "copy" /\ k < count)
Cell(n)  == IF Shifting /\ (pc = "count" \/ n >= k) THEN n + 1 ELSE n
Waiting  == [n \in 1 .. keyboard_buf_len |-> keyboard_buf[Cell(n - 1)]]
StdinInOrder ==
  ~raced /\ ~flushed /\ pc # "overrun" => typed = got \o InHand \o Waiting

\* A character is written beyond keyboard_buf only after a backspace has filled
\* the last cell: the test on the other branch misses no other way to the end.
OverrunNeedsBackspace == pc = "overrun" => erased

\* Every character typed reaches stdin, which is read again and again, unless
\* one of the accidents has happened.
KeysReachStdin ==
  \A n \in 1 .. MaxScans :
    Len(typed) >= n ~> Len(got) >= n \/ raced \/ flushed \/ pc = "overrun"

\* keyboard.c reminds itself that "if you hold a key down, you will get
\* repeated key press interrupts" and selects the layout "of 'shift' being
\* held": with no shift down and caps lock off, keys should be unshifted.
ShiftMeansHeld == held \cap Shifts = {} /\ capslock = 0 => shift_pressed <= 0
=============================================================================
