--------------------------- MODULE ReadingProofs ---------------------------
(***************************************************************************)
(* What a program reads.  Module Vfs, for all names, bytes, handles and    *)
(* buffers and every sequence of calls: files and handles belong together, *)
(* and a line is what read_line makes of the bytes in front of it.  Module *)
(* Keyboard, for every buffer size, every set of keys and every number of  *)
(* scan codes: ShiftAccounting is inductive on top of the types, which     *)
(* need to know where keyboard_buf_len may be negative;                    *)
(* OverrunNeedsBackspace needs that only a backspace fills the buffer.     *)
(***************************************************************************)
EXTENDS Vfs, Keyboard, SequenceTheorems, FiniteSetTheorems, WellFoundedInduction, TLAPS

-----------------------------------------------------------------------------
(* Smallest and largest numbers.                                           *)

\* A set of natural numbers has a smallest element.
LEMMA LeastOf ==
  ASSUME NEW T, T \subseteq Nat, T # {}
  PROVE  Min(T) \in T /\ \A n \in T : Min(T) <= n
<1> DEFINE R == OpToRel(<, Nat)
<1>1. R = {ss \in Nat \X Nat : ss[1] < ss[2]}
  BY DEF OpToRel
<1>2. IsWellFoundedOn(R, Nat)
  BY NatLessThanWellFounded
<1> HIDE DEF R
<1>3. PICK m \in T : \A n \in T : ~(<<n, m>> \in R)
  BY <1>2, WFMin
<1>4. \A n \in T : m <= n
  <2> SUFFICES ASSUME NEW n \in T PROVE m <= n
    OBVIOUS
  <2>1. m \in Nat /\ n \in Nat /\ ~(<<n, m>> \in R)
    BY <1>3
  <2>2. ~(n < m)
    BY <2>1, <1>1
  <2> QED
    BY <2>1, <2>2
<1> QED
  BY <1>3, <1>4 DEF Min

LEMMA MinIs ==
  ASSUME NEW S, S \subseteq Int, NEW m \in S, \A x \in S : m <= x
  PROVE  Min(S) = m
<1>1. Min(S) \in S /\ \A y \in S : Min(S) <= y
  BY DEF Min
<1>2. Min(S) \in Int /\ m \in Int /\ Min(S) <= m /\ m <= Min(S)
  BY <1>1
<1> QED
  BY <1>2

LEMMA MaxIs ==
  ASSUME NEW S, S \subseteq Int, NEW m \in S, \A x \in S : x <= m
  PROVE  Max(S) = m
<1>1. Max(S) \in S /\ \A y \in S : Max(S) >= y
  <2>1. \E x \in S : \A y \in S : x >= y
    <3>1. \A y \in S : m >= y
      <4> SUFFICES ASSUME NEW y \in S PROVE m >= y
        OBVIOUS
      <4>1. y \in Int /\ m \in Int /\ y <= m
        OBVIOUS
      <4> QED
        BY <4>1
    <3> QED
      BY <3>1
  <2> QED
    BY <2>1 DEF Max
<1>2. Max(S) \in Int /\ m \in Int /\ Max(S) <= m /\ m <= Max(S)
  BY <1>1
<1> QED
  BY <1>2

LEMMA SmallerOf ==
  ASSUME NEW a \in Int, NEW b \in Int
  PROVE  Min({a, b}) = IF a <= b THEN a ELSE b
<1>1. CASE a <= b
  <2>1. a \in {a, b} /\ {a, b} \subseteq Int /\ \A x \in {a, b} : a <= x
    BY <1>1
  <2> QED
    BY <1>1, <2>1, MinIs
<1>2. CASE ~(a <= b)
  <2>1. b \in {a, b} /\ {a, b} \subseteq Int /\ \A x \in {a, b} : b <= x
    BY <1>2
  <2> QED
    BY <1>2, <2>1, MinIs
<1> QED
  BY <1>1, <1>2

LEMMA LargerOf ==
  ASSUME NEW a \in Int, NEW b \in Int
  PROVE  Max({a, b}) = IF a <= b THEN b ELSE a
<1>1. CASE a <= b
  <2>1. b \in {a, b} /\ {a, b} \subseteq Int /\ \A x \in {a, b} : x <= b
    BY <1>1
  <2> QED
    BY <1>1, <2>1, MaxIs
<1>2. CASE ~(a <= b)
  <2>1. a \in {a, b} /\ {a, b} \subseteq Int /\ \A x \in {a, b} : x <= a
    BY <1>2
  <2> QED
    BY <1>2, <2>1, MaxIs
<1> QED
  BY <1>1, <1>2

-----------------------------------------------------------------------------
(* Types.                                                                  *)

Byte == DataBytes \cup {"hole", NL}
Entries == [name : FileNames, data : Seq(Byte), max : Nat]
Files == [entry : Nat, at : Nat, hold : Byte \cup {EOF}, name : FileNames \cup {<<>>}]
Reads == [what : {"idle", "chars", "loaded", "failed", "line", "returned"},
          h : Handles \cup {0}, got : Seq(Byte), over : BOOLEAN]

\* A FILE that is closed has nothing left in it.
Held(f) == f.entry <= Len(root) /\ (f.entry = 0 => f = Closed)

VfsTypes ==
  /\ root \in Seq(Entries) /\ file \in [Handles -> Files]
  /\ \A h \in Handles : Held(file[h])
  /\ reading \in Reads /\ from \in Seq(Byte)
  /\ moved \subseteq Handles /\ wild \in BOOLEAN
  /\ reading.what = "line" => reading.h \in Handles /\ IsOpen(reading.h)

LEMMA EOFIsNoByte == EOF \notin Byte
  BY VfsAssumption DEF VfsAssumption, EOF, Byte, NL

LEMMA ClosedIsFile == Closed \in Files
  BY DEF Closed, Files

\* What lies ahead of an open FILE.
LEMMA AheadOf ==
  ASSUME VfsTypes, NEW f \in Files, f.entry \in 1 .. Len(root)
  PROVE  /\ root[f.entry] \in Entries /\ root[f.entry].data \in Seq(Byte)
         /\ Len(root[f.entry].data) \in Nat
         /\ SubSeq(root[f.entry].data, f.at + 1, Len(root[f.entry].data)) \in Seq(Byte)
         /\ Len(SubSeq(root[f.entry].data, f.at + 1, Len(root[f.entry].data)))
              = IF f.at < Len(root[f.entry].data) THEN Len(root[f.entry].data) - f.at ELSE 0
         /\ Ahead(f) \in Seq(Byte)
         /\ Len(Ahead(f)) = (IF f.hold = EOF THEN 0 ELSE 1)
              + (IF f.at < Len(root[f.entry].data) THEN Len(root[f.entry].data) - f.at ELSE 0)
<1> DEFINE d == root[f.entry].data
           S == SubSeq(d, f.at + 1, Len(d))
<1>1. root[f.entry] \in Entries
  BY ElementOfSeq DEF VfsTypes
<1>2. d \in Seq(Byte) /\ f.at \in Nat
  BY <1>1 DEF Entries, Files
<1> HIDE DEF d
<1>3. Len(d) \in Nat /\ \A i \in 1 .. Len(d) : d[i] \in Byte
  BY <1>2, LenProperties, ElementOfSeq
<1>4. \A i \in f.at + 1 .. Len(d) : d[i] \in Byte
  BY <1>2, <1>3
<1>5. f.at + 1 \in Int /\ Len(d) \in Int
  BY <1>2, <1>3
<1>6. /\ S \in Seq(Byte)
      /\ Len(S) = IF f.at + 1 <= Len(d) THEN Len(d) - (f.at + 1) + 1 ELSE 0
  BY <1>4, <1>5, SubSeqProperties
<1>7. Len(S) = IF f.at < Len(d) THEN Len(d) - f.at ELSE 0
  BY <1>2, <1>3, <1>6
<1> HIDE DEF S
<1> DEFINE b == IF f.hold = EOF THEN <<>> ELSE <<f.hold>>
<1>8. b \in Seq(Byte) /\ Len(b) = IF f.hold = EOF THEN 0 ELSE 1
  BY DEF Files
<1>9. Ahead(f) = b \o S
  BY DEF Ahead, b, S, d
<1> HIDE DEF b
<1>10. Ahead(f) \in Seq(Byte) /\ Len(Ahead(f)) = Len(b) + Len(S)
  BY <1>6, <1>8, <1>9, ConcatProperties
<1> QED
  BY <1>1, <1>2, <1>3, <1>6, <1>7, <1>8, <1>10 DEF d, S

\* What is left of a sequence.
LEMMA Rest ==
  ASSUME NEW s \in Seq(Byte), NEW a \in Nat
  PROVE  /\ SubSeq(s, a + 1, Len(s)) \in Seq(Byte)
         /\ Len(s) \in Nat /\ Len(SubSeq(s, a + 1, Len(s))) \in Nat
         /\ Len(SubSeq(s, a + 1, Len(s))) = IF a < Len(s) THEN Len(s) - a ELSE 0
         /\ \A i \in 1 .. Len(SubSeq(s, a + 1, Len(s))) : SubSeq(s, a + 1, Len(s))[i] = s[a + i]
<1> DEFINE r == SubSeq(s, a + 1, Len(s))
<1>1. Len(s) \in Nat
  BY LenProperties
<1>2. \A i \in a + 1 .. Len(s) : s[i] \in Byte
  <2> SUFFICES ASSUME NEW i \in a + 1 .. Len(s) PROVE s[i] \in Byte
    OBVIOUS
  <2>1. i \in 1 .. Len(s)
    BY <1>1
  <2> QED
    BY <2>1, ElementOfSeq
<1>3. a + 1 \in Int /\ Len(s) \in Int
  BY <1>1
<1>4. /\ r \in Seq(Byte) /\ Len(r) = IF a + 1 <= Len(s) THEN Len(s) - (a + 1) + 1 ELSE 0
      /\ \A i \in 1 .. Len(s) - (a + 1) + 1 : r[i] = s[a + 1 + i - 1]
  BY <1>2, <1>3, SubSeqProperties
<1> HIDE DEF r
<1>5. Len(r) = IF a < Len(s) THEN Len(s) - a ELSE 0
  BY <1>1, <1>4
<1>6. ASSUME NEW i \in 1 .. Len(r) PROVE r[i] = s[a + i]
  <2>1. i \in 1 .. Len(s) - (a + 1) + 1 /\ a + 1 + i - 1 = a + i
    BY <1>1, <1>5
  <2> QED
    BY <1>4, <2>1
<1> QED
  BY <1>1, <1>4, <1>5, <1>6 DEF r

\* The numbers of it: b bytes are pushed back, s bytes of d are left at x, and
\* m of them are taken.
Taking(x, d, b, s, m, at) ==
  /\ x \in Nat /\ d \in Nat /\ b \in 0 .. 1 /\ s \in Nat
  /\ s = (IF x < d THEN d - x ELSE 0)
  /\ m \in 1 .. b + s /\ at = x + m - b
Taken(x, d, b, s, m, at) ==
  /\ at \in Nat /\ (at <= d \/ at = x)
  /\ (IF at < d THEN d - at ELSE 0) = (IF m < b + s THEN b + s - m ELSE 0)
  /\ \A i \in 1 .. (IF m < b + s THEN b + s - m ELSE 0) :
        /\ m + i \in 1 .. b + s /\ ~(m + i <= b) /\ m + i - b \in 1 .. s
        /\ x + (m + i - b) = at + i
LEMMA TakeNumbers ==
  ASSUME NEW x, NEW d, NEW b, NEW s, NEW m, NEW at, Taking(x, d, b, s, m, at)
  PROVE  Taken(x, d, b, s, m, at)
<1> USE DEF Taking, Taken
<1>1. CASE x < d
  <2>1. s = d - x
    BY <1>1
  <2> QED
    BY <1>1, <2>1
<1>2. CASE ~(x < d)
  <2>1. s = 0
    BY <1>2
  <2>2. m = 1 /\ b = 1
    BY <2>1
  <2> QED
    BY <1>2, <2>1, <2>2
<1> QED
  BY <1>1, <1>2

\* A FILE from which m bytes have been taken has the others ahead.
LEMMA Advanced ==
  ASSUME VfsTypes, NEW f \in Files, f.entry \in 1 .. Len(root), NEW m \in 1 .. Len(Ahead(f)),
         NEW g \in Files, g.entry = f.entry, g.hold = EOF,
         g.at = f.at + m - (IF f.hold = EOF THEN 0 ELSE 1)
  PROVE  /\ g.at <= Len(root[f.entry].data) \/ g.at = f.at
         /\ Ahead(g) = SubSeq(Ahead(f), m + 1, Len(Ahead(f)))
<1> DEFINE d == root[f.entry].data
           A == Ahead(f)
           S == SubSeq(d, f.at + 1, Len(d))
           R == SubSeq(d, g.at + 1, Len(d))
           B == SubSeq(A, m + 1, Len(A))
           b == IF f.hold = EOF THEN <<>> ELSE <<f.hold>>
<1>1. d \in Seq(Byte) /\ A \in Seq(Byte)
  BY AheadOf
<1>2. f.at \in Nat /\ g.at \in Nat /\ f.hold \in Byte \cup {EOF} /\ m \in Nat
  BY DEF Files
<1>3. A = b \o S /\ b \in Seq(Byte) /\ Len(b) = IF f.hold = EOF THEN 0 ELSE 1
  BY <1>2 DEF Ahead
<1>4. Ahead(g) = <<>> \o R
  BY DEF Ahead
<1>5. /\ S \in Seq(Byte) /\ Len(S) \in Nat /\ Len(d) \in Nat
      /\ Len(S) = IF f.at < Len(d) THEN Len(d) - f.at ELSE 0
      /\ \A i \in 1 .. Len(S) : S[i] = d[f.at + i]
  <2> HIDE DEF d
  <2> QED
    BY <1>1, <1>2, Rest
<1>6. /\ R \in Seq(Byte) /\ Len(R) \in Nat
      /\ Len(R) = IF g.at < Len(d) THEN Len(d) - g.at ELSE 0
      /\ \A i \in 1 .. Len(R) : R[i] = d[g.at + i]
  <2> HIDE DEF d
  <2> QED
    BY <1>1, <1>2, Rest
<1>7. /\ B \in Seq(Byte) /\ Len(A) \in Nat /\ Len(B) \in Nat
      /\ Len(B) = IF m < Len(A) THEN Len(A) - m ELSE 0
      /\ \A i \in 1 .. Len(B) : B[i] = A[m + i]
  <2> HIDE DEF A
  <2> QED
    BY <1>1, <1>2, Rest
<1>8. Ahead(g) = R
  <2> HIDE DEF R
  <2> QED
    BY <1>4, <1>6, ConcatEmptySeq
<1>9. m \in 1 .. Len(A)
  OBVIOUS
<1>10. g.at = f.at + m - Len(b) /\ Len(b) \in 0 .. 1
  BY <1>3
<1> HIDE DEF A, B, S, R, b, d
<1>11. Len(A) = Len(b) + Len(S) /\ \A i \in 1 .. Len(b) + Len(S) :
          A[i] = IF i <= Len(b) THEN b[i] ELSE S[i - Len(b)]
  BY <1>3, <1>5, ConcatProperties
<1>12. m \in 1 .. Len(b) + Len(S)
  BY <1>9, <1>11
<1>13. /\ g.at <= Len(d) \/ g.at = f.at
       /\ (IF g.at < Len(d) THEN Len(d) - g.at ELSE 0)
            = (IF m < Len(b) + Len(S) THEN Len(b) + Len(S) - m ELSE 0)
       /\ \A i \in 1 .. (IF m < Len(b) + Len(S) THEN Len(b) + Len(S) - m ELSE 0) :
              /\ m + i \in 1 .. Len(b) + Len(S) /\ ~(m + i <= Len(b)) /\ m + i - Len(b) \in 1 .. Len(S)
              /\ f.at + (m + i - Len(b)) = g.at + i
  <2> DEFINE at == f.at + m - Len(b)
  <2>0. at = f.at + m - Len(b)
    OBVIOUS
  <2> HIDE DEF at
  <2>1. /\ at <= Len(d) \/ at = f.at
        /\ (IF at < Len(d) THEN Len(d) - at ELSE 0)
             = (IF m < Len(b) + Len(S) THEN Len(b) + Len(S) - m ELSE 0)
        /\ \A i \in 1 .. (IF m < Len(b) + Len(S) THEN Len(b) + Len(S) - m ELSE 0) :
               /\ m + i \in 1 .. Len(b) + Len(S) /\ ~(m + i <= Len(b)) /\ m + i - Len(b) \in 1 .. Len(S)
               /\ f.at + (m + i - Len(b)) = at + i
    <3>1. f.at \in Nat /\ Len(d) \in Nat /\ Len(b) \in 0 .. 1 /\ Len(S) \in Nat
          /\ Len(S) = (IF f.at < Len(d) THEN Len(d) - f.at ELSE 0)
      BY <1>2, <1>5, <1>10
    <3>2. Taking(f.at, Len(d), Len(b), Len(S), m, at)
      BY <1>12, <2>0, <3>1 DEF Taking
    <3>3. Taken(f.at, Len(d), Len(b), Len(S), m, at)
      BY <3>2, TakeNumbers
    <3> QED
      BY <3>3 DEF Taken
  <2>2. g.at = at
    BY <1>10, <2>0
  <2> QED
    BY <2>1, <2>2
<1>14. Len(R) = Len(B) /\ Len(B) = (IF m < Len(b) + Len(S) THEN Len(b) + Len(S) - m ELSE 0)
  BY <1>6, <1>7, <1>11, <1>13
<1>15. ASSUME NEW i \in 1 .. Len(R) PROVE R[i] = B[i]
  <2>1. i \in 1 .. Len(B)
    BY <1>14
  <2>2. R[i] = d[g.at + i] /\ B[i] = A[m + i]
    BY <1>6, <1>7, <2>1
  <2>3. /\ m + i \in 1 .. Len(b) + Len(S) /\ ~(m + i <= Len(b)) /\ m + i - Len(b) \in 1 .. Len(S)
        /\ f.at + (m + i - Len(b)) = g.at + i
    BY <1>13, <1>14, <2>1
  <2>4. A[m + i] = S[m + i - Len(b)]
    BY <1>11, <2>3
  <2>5. S[m + i - Len(b)] = d[g.at + i]
    BY <1>5, <2>3
  <2> QED
    BY <2>2, <2>4, <2>5
<1>16. R = B
  BY <1>6, <1>7, <1>14, <1>15, SeqEqual
<1> QED
  BY <1>8, <1>13, <1>16 DEF A, B, d

\* Taking bytes takes them off what lies ahead.
LEMMA TakeTakes ==
  ASSUME VfsTypes, NEW f \in Files, f.entry \in 1 .. Len(root), NEW n \in Nat
  PROVE  \E m \in 0 .. Len(Ahead(f)), g \in Files :
           /\ m = Min({n, Len(Ahead(f))}) /\ m <= n /\ (m = n \/ m = Len(Ahead(f)))
           /\ Take(f, n) = [bytes |-> SubSeq(Ahead(f), 1, m), file |-> g]
           /\ g.entry = f.entry /\ g.name = f.name
           /\ m = 0 => g = f
           /\ m > 0 => g.hold = EOF
           /\ g.at <= Len(root[f.entry].data) \/ g.at = f.at
           /\ Ahead(g) = SubSeq(Ahead(f), m + 1, Len(Ahead(f)))
<1> DEFINE A == Ahead(f)
<1>1. A \in Seq(Byte) /\ Len(A) \in Nat
      /\ Len(A) >= (IF f.hold = EOF THEN 0 ELSE 1)
  <2>1. A \in Seq(Byte)
    BY AheadOf
  <2>2. /\ Len(root[f.entry].data) \in Nat /\ f.at \in Nat
        /\ Len(A) = (IF f.hold = EOF THEN 0 ELSE 1)
              + (IF f.at < Len(root[f.entry].data) THEN Len(root[f.entry].data) - f.at ELSE 0)
    BY AheadOf DEF Files
  <2> HIDE DEF A
  <2>3. Len(A) \in Nat
    BY <2>1, LenProperties
  <2> QED
    BY <2>1, <2>2, <2>3
<1>2. PICK m \in 0 .. Len(A) : m = Min({n, Len(A)}) /\ m <= n /\ (m = n \/ m = Len(A))
  <2> HIDE DEF A
  <2> QED
    BY <1>1, SmallerOf
<1> DEFINE back == IF f.hold # EOF /\ m > 0 THEN 1 ELSE 0
           at == f.at + m - back
           g == [f EXCEPT !.at = at, !.hold = IF m > 0 THEN EOF ELSE f.hold]
<1>3. Take(f, n) = [bytes |-> SubSeq(A, 1, m), file |-> g]
  BY <1>2 DEF Take
<1>4. f.at \in Nat /\ f.hold \in Byte \cup {EOF} /\ f.entry \in Nat /\ f.name \in FileNames \cup {<<>>}
      /\ f = [entry |-> f.entry, at |-> f.at, hold |-> f.hold, name |-> f.name]
  BY DEF Files
<1>5. at \in Nat /\ (m = 0 => at = f.at)
      /\ (m > 0 => at = f.at + m - (IF f.hold = EOF THEN 0 ELSE 1))
  <2>0. m \in Nat
    BY <1>1, <1>2
  <2>1. CASE m = 0
    BY <1>4, <2>1
  <2>2. CASE m # 0
    BY <1>4, <2>0, <2>2
  <2> QED
    BY <2>1, <2>2
<1> HIDE DEF at
<1> DEFINE hold == IF m > 0 THEN EOF ELSE f.hold
<1> HIDE DEF hold
<1>a. g = [f EXCEPT !.at = at, !.hold = hold]
  BY DEF hold
<1> HIDE DEF g
<1>6. g = [entry |-> f.entry, at |-> at, hold |-> IF m > 0 THEN EOF ELSE f.hold, name |-> f.name]
  <2>1. g = [entry |-> f.entry, at |-> at, hold |-> hold, name |-> f.name]
    BY <1>4, <1>a DEF Files
  <2> QED
    BY <2>1 DEF hold
<1>7. /\ g.entry = f.entry /\ g.name = f.name /\ g.at = at /\ (m > 0 => g.hold = EOF)
      /\ (m = 0 => g = f)
  <2>1. m \in Nat
    BY <1>1, <1>2
  <2>2. m = 0 => g = f
    BY <1>4, <1>5, <1>6
  <2> QED
    BY <1>6, <2>2
<1>8. g \in Files
  BY <1>4, <1>5, <1>6 DEF Files
<1>9. /\ g.at <= Len(root[f.entry].data) \/ g.at = f.at
      /\ Ahead(g) = SubSeq(A, m + 1, Len(A))
  <2>1. CASE m = 0
    <3>1. SubSeq(A, 1, Len(A)) = A
      <4> HIDE DEF A
      <4> QED
        BY <1>1, SubSeqFull
    <3> QED
      BY <1>7, <2>1, <3>1
  <2>2. CASE m # 0
    <3>1. m \in 1 .. Len(A)
      BY <1>1, <1>2, <2>2
    <3>2. g.hold = EOF /\ g.at = f.at + m - (IF f.hold = EOF THEN 0 ELSE 1)
      BY <1>5, <1>7, <3>1
    <3> QED
      BY <1>7, <1>8, <3>1, <3>2, Advanced
  <2> QED
    BY <2>1, <2>2
<1> QED
  BY <1>2, <1>3, <1>7, <1>8, <1>9

\* Where ch first stands in a sequence, behind it if it does not.
First(s, ch) ==
  LET I == {i \in 1 .. Len(s \o <<ch>>) : (s \o <<ch>>)[i] = ch}
  IN  IF I # {} THEN Min(I) ELSE 0
LEMMA FirstOf ==
  ASSUME NEW s \in Seq(Byte), NEW ch
  PROVE  /\ Len(s) \in Nat /\ First(s, ch) \in 1 .. Len(s) + 1
         /\ \A i \in 1 .. First(s, ch) - 1 : i \in 1 .. Len(s) /\ s[i] # ch
         /\ First(s, ch) # Len(s) + 1 => First(s, ch) \in 1 .. Len(s) /\ s[First(s, ch)] = ch
<1> DEFINE B == Byte \cup {ch}
           t == <<ch>>
           w == s \o t
           I == {i \in 1 .. Len(w) : w[i] = ch}
<1>1. s \in Seq(B) /\ Len(s) \in Nat
  <2>1. Byte \subseteq B
    OBVIOUS
  <2> HIDE DEF B
  <2> QED
    BY <2>1, SeqMonotonic, LenProperties
<1>2. t \in Seq(B) /\ Len(t) = 1 /\ t[1] = ch
  OBVIOUS
<1> HIDE DEF B, t
<1>3. /\ Len(w) = Len(s) + Len(t)
      /\ \A i \in 1 .. Len(s) + Len(t) : w[i] = IF i <= Len(s) THEN s[i] ELSE t[i - Len(s)]
  BY <1>1, <1>2, ConcatProperties
<1> HIDE DEF w
<1>4. Len(w) = Len(s) + 1 /\ w[Len(s) + 1] = ch /\ \A i \in 1 .. Len(s) : w[i] = s[i]
  <2>1. Len(s) + 1 \in 1 .. Len(s) + Len(t) /\ ~(Len(s) + 1 <= Len(s)) /\ Len(s) + 1 - Len(s) = 1
    BY <1>1, <1>2
  <2>2. \A i \in 1 .. Len(s) : i \in 1 .. Len(s) + Len(t) /\ i <= Len(s)
    BY <1>1, <1>2
  <2> QED
    BY <1>2, <1>3, <2>1, <2>2
<1>5. Len(s) + 1 \in I /\ I \subseteq Nat
  BY <1>1, <1>4
<1>6. Min(I) \in I /\ \A n \in I : Min(I) <= n
  <2> HIDE DEF I
  <2> QED
    BY <1>5, LeastOf
<1>7. First(s, ch) = Min(I)
  BY <1>5 DEF First, w, t
<1>8. Min(I) \in 1 .. Len(s) + 1 /\ w[Min(I)] = ch
  BY <1>4, <1>6
<1>9. \A i \in 1 .. Min(I) - 1 : i \in 1 .. Len(s) /\ w[i] # ch
  <2> SUFFICES ASSUME NEW i \in 1 .. Min(I) - 1 PROVE i \in 1 .. Len(s) /\ w[i] # ch
    OBVIOUS
  <2>1. i \in 1 .. Len(s) /\ i \in 1 .. Len(w) /\ ~(Min(I) <= i)
    <3> DEFINE m == Min(I)
    <3>1. m \in 1 .. Len(s) + 1
      BY <1>8
    <3> HIDE DEF m
    <3>2. i \in 1 .. m - 1
      BY DEF m
    <3>3. i \in 1 .. Len(s) /\ i \in 1 .. Len(w) /\ ~(m <= i)
      BY <1>1, <1>4, <3>1, <3>2
    <3> QED
      BY <3>3 DEF m
  <2> QED
    BY <1>6, <2>1
<1> HIDE DEF I
<1>10. First(s, ch) # Len(s) + 1 => First(s, ch) \in 1 .. Len(s)
  BY <1>1, <1>7, <1>8
<1> QED
  BY <1>1, <1>4, <1>7, <1>8, <1>9, <1>10

\* A line ends behind the first newline, or where the buffer is full.
LEMMA LineLengthIs ==
  ASSUME VfsTypes, NEW f \in Files, f.entry \in 1 .. Len(root)
  PROVE  /\ LineLength(f, LUAL_BUFFERSIZE) \in 1 .. LUAL_BUFFERSIZE
         /\ LineLength(f, LUAL_BUFFERSIZE) <= Len(Ahead(f)) + 1
         /\ \A i \in 1 .. LineLength(f, LUAL_BUFFERSIZE) - 1 :
               i \in 1 .. Len(Ahead(f)) /\ Ahead(f)[i] # NL
         /\ \/ LineLength(f, LUAL_BUFFERSIZE) = LUAL_BUFFERSIZE
            \/ LineLength(f, LUAL_BUFFERSIZE) = Len(Ahead(f)) + 1
            \/ Ahead(f)[LineLength(f, LUAL_BUFFERSIZE)] = NL
<1> DEFINE A == Ahead(f)
           z == First(A, NL)
           n == LUAL_BUFFERSIZE
           l == LineLength(f, n)
<1>1. A \in Seq(Byte) /\ Len(A) \in Nat /\ n \in Nat \ {0}
  <2>1. A \in Seq(Byte)
    BY AheadOf
  <2> QED
    BY <2>1, LenProperties, VfsAssumption DEF VfsAssumption
<1>2. l = Min({n, z})
  BY DEF LineLength, SelectInSeq, First
<1> HIDE DEF A, n, l
<1>3. /\ z \in 1 .. Len(A) + 1
      /\ \A i \in 1 .. z - 1 : i \in 1 .. Len(A) /\ A[i] # NL
      /\ z # Len(A) + 1 => A[z] = NL
  BY <1>1, FirstOf
<1> HIDE DEF z
<1>4. l = IF n <= z THEN n ELSE z
  BY <1>1, <1>2, <1>3, SmallerOf
<1>5. l \in 1 .. n /\ l <= Len(A) + 1 /\ (l = n \/ l = z)
      /\ \A i \in 1 .. l - 1 : i \in 1 .. z - 1
  BY <1>1, <1>3, <1>4
<1> QED
  BY <1>3, <1>5 DEF A, n, l

\* A string ends in front of the first NUL.
LEMMA CStringIs ==
  ASSUME NEW s \in Seq(Byte)
  PROVE  \E z \in 0 .. Len(s) :
           /\ CString(s) = SubSeq(s, 1, z)
           /\ \A i \in 1 .. z : s[i] # "nul"
           /\ z # Len(s) => s[z + 1] = "nul"
<1> DEFINE z == First(s, "nul") - 1
<1>1. CString(s) = SubSeq(s, 1, z)
  BY DEF CString, SelectInSeq, First
<1>2. /\ Len(s) \in Nat /\ First(s, "nul") \in 1 .. Len(s) + 1
      /\ \A i \in 1 .. z : s[i] # "nul"
      /\ First(s, "nul") # Len(s) + 1 => s[First(s, "nul")] = "nul"
  BY FirstOf
<1>3. z \in 0 .. Len(s) /\ (z # Len(s) => First(s, "nul") # Len(s) + 1)
      /\ z + 1 = First(s, "nul")
  BY <1>2
<1> QED
  BY <1>1, <1>2, <1>3

\* The slot of a name is the first one that strcmp takes for it.
LEMMA SlotIs ==
  ASSUME VfsTypes, NEW n
  PROVE  /\ Slot(n) \in 0 .. Len(root)
         /\ Slot(n) = 0 => \A i \in 1 .. Len(root) : ~strcmpEqual(root[i].name, n)
         /\ Slot(n) # 0 => /\ strcmpEqual(root[Slot(n)].name, n)
                           /\ \A i \in 1 .. Slot(n) - 1 : ~strcmpEqual(root[i].name, n)
<1> DEFINE I == {i \in 1 .. Len(root) : strcmpEqual(root[i].name, n)}
<1>1. Slot(n) = IF I # {} THEN Min(I) ELSE 0
  BY DEF Slot, SelectInSeq
<1>2. Len(root) \in Nat
  BY LenProperties DEF VfsTypes
<1>3. CASE I = {}
  BY <1>1, <1>2, <1>3
<1>4. CASE I # {}
  <2>1. I \subseteq Nat
    BY <1>2
  <2>2. Min(I) \in I /\ \A i \in I : Min(I) <= i
    <3> HIDE DEF I
    <3> QED
      BY <1>4, <2>1, LeastOf
  <2>3. Min(I) \in 1 .. Len(root) /\ strcmpEqual(root[Min(I)].name, n)
    BY <2>2
  <2>4. \A i \in 1 .. Min(I) - 1 : ~strcmpEqual(root[i].name, n)
    <3> DEFINE m == Min(I)
    <3> HIDE DEF m
    <3> SUFFICES ASSUME NEW i \in 1 .. m - 1 PROVE ~strcmpEqual(root[i].name, n)
      BY DEF m
    <3>1. m \in 1 .. Len(root)
      BY <2>3 DEF m
    <3>2. i \in 1 .. Len(root) /\ ~(m <= i)
      BY <1>2, <3>1
    <3> QED
      BY <2>2, <3>2 DEF m
  <2> QED
    BY <1>1, <1>2, <1>4, <2>3, <2>4
<1> QED
  BY <1>3, <1>4

\* Bytes.
LEMMA GotIs ==
  ASSUME VfsTypes, NEW f \in Files, f.entry \in 1 .. Len(root)
  PROVE  /\ ungetc(fgetc(f), Got(f)) \in Files
         /\ ungetc(fgetc(f), Got(f)).entry = f.entry /\ ungetc(fgetc(f), Got(f)).name = f.name
         /\ \/ ungetc(fgetc(f), Got(f)) = f
            \/ /\ ungetc(fgetc(f), Got(f)).at \in 1 .. Len(root[f.entry].data)
               /\ ungetc(fgetc(f), Got(f)).hold
                    = root[f.entry].data[ungetc(fgetc(f), Got(f)).at]
<1> DEFINE d == root[f.entry].data
<1>1. /\ d \in Seq(Byte) /\ Len(d) \in Nat /\ f.at \in Nat
      /\ f.hold \in Byte \cup {EOF} /\ f.entry \in Nat /\ f.name \in FileNames \cup {<<>>}
  BY AheadOf DEF Files
<1>2. CASE f.hold # EOF
  <2> DEFINE g == [f EXCEPT !.hold = EOF]
  <2>1. fgetc(f) = g /\ Got(f) = f.hold
    BY <1>2 DEF fgetc, Got
  <2>2. g.hold = EOF
    BY DEF Files
  <2>3. ungetc(g, f.hold) = [g EXCEPT !.hold = f.hold]
    BY <1>2, <2>2 DEF ungetc
  <2>4. [g EXCEPT !.hold = f.hold] = f
    BY DEF Files
  <2> QED
    BY <2>1, <2>3, <2>4
<1>3. CASE f.hold = EOF /\ f.at >= Len(d)
  <2>1. fgetc(f) = f /\ Got(f) = EOF
    BY <1>3 DEF fgetc, Got
  <2>2. ungetc(f, EOF) = f
    BY DEF ungetc
  <2> QED
    BY <2>1, <2>2
<1>4. CASE f.hold = EOF /\ ~(f.at >= Len(d))
  <2> DEFINE at == f.at + 1
             ch == d[at]
             g == [f EXCEPT !.at = at]
             w == [g EXCEPT !.hold = ch]
  <2>1. at \in 1 .. Len(d) /\ at \in Nat
    BY <1>1, <1>4
  <2>2. ch \in Byte
    BY <1>1, <2>1, ElementOfSeq
  <2>3. fgetc(f) = g /\ Got(f) = ch
    BY <1>4 DEF fgetc, Got
  <2> HIDE DEF ch, at
  <2>4. g.hold = EOF
    BY <1>4 DEF Files
  <2>5. ungetc(g, ch) = w
    BY <2>2, <2>4, EOFIsNoByte DEF ungetc
  <2>8. g = [entry |-> f.entry, at |-> at, hold |-> f.hold, name |-> f.name]
    BY DEF Files
  <2> HIDE DEF g
  <2>6. w = [entry |-> f.entry, at |-> at, hold |-> ch, name |-> f.name]
    BY <2>8
  <2>7. w \in Files
    BY <1>1, <2>1, <2>2, <2>6 DEF Files
  <2> QED
    BY <2>1, <2>3, <2>5, <2>6, <2>7 DEF ch, g
<1> QED
  BY <1>2, <1>3, <1>4

\* A put writes its byte at the offset and leaves the others.
LEMMA WrittenIs ==
  ASSUME NEW d \in Seq(Byte), NEW at \in Nat, NEW ch \in Byte
  PROVE  /\ Written(d, at, ch) \in Seq(Byte)
         /\ Len(Written(d, at, ch)) = IF Len(d) <= at + 1 THEN at + 1 ELSE Len(d)
<1> DEFINE n == IF Len(d) <= at + 1 THEN at + 1 ELSE Len(d)
           W == Written(d, at, ch)
<1>1. Len(d) \in Nat /\ n \in Nat /\ at + 1 \in Int
  BY LenProperties
<1>2. Max({Len(d), at + 1}) = n
  BY <1>1, LargerOf
<1> HIDE DEF n
<1>3. W = [i \in 1 .. n |-> IF i = at + 1 THEN ch ELSE IF i <= Len(d) THEN d[i] ELSE "hole"]
  BY <1>2 DEF Written
<1> HIDE DEF W
<1>4. \A i \in 1 .. n : W[i] \in Byte
  <2> SUFFICES ASSUME NEW i \in 1 .. n PROVE W[i] \in Byte
    OBVIOUS
  <2>1. CASE i # at + 1 /\ i <= Len(d)
    <3>1. i \in 1 .. Len(d)
      BY <1>1, <2>1
    <3>2. d[i] \in Byte
      BY <3>1, ElementOfSeq
    <3> QED
      BY <1>3, <2>1, <3>2
  <2>2. CASE ~(i # at + 1 /\ i <= Len(d))
    BY <1>3, <2>2 DEF Byte
  <2> QED
    BY <2>1, <2>2
<1>5. W \in [1 .. n -> Byte]
  BY <1>3, <1>4
<1>6. W \in Seq(Byte) /\ DOMAIN W = 1 .. n
  BY <1>1, <1>5, SeqDef
<1>7. Len(W) = n
  BY <1>1, <1>6, LenProperties
<1> QED
  BY <1>6, <1>7 DEF W, n

-----------------------------------------------------------------------------
(* Every state has its type.                                               *)

\* A step that changes one FILE and shortens no table.
LEMMA OneFile ==
  ASSUME VfsTypes, NEW h \in Handles, NEW g \in Files,
         Len(root) <= Len(root'), Len(root') \in Nat,
         g.entry <= Len(root'), g.entry = 0 => g = Closed,
         file' = [file EXCEPT ![h] = g]
  PROVE  /\ file' \in [Handles -> Files] /\ \A x \in Handles : Held(file[x])'
         /\ file'[h] = g /\ \A x \in Handles \ {h} : file'[x] = file[x]
<1>1. file \in [Handles -> Files] /\ \A x \in Handles : Held(file[x])
  BY DEF VfsTypes
<1>2. /\ file' \in [Handles -> Files] /\ file'[h] = g
      /\ \A x \in Handles \ {h} : file'[x] = file[x]
  BY <1>1
<1>3. ASSUME NEW x \in Handles PROVE Held(file[x])'
  <2>1. CASE x = h
    BY <1>2, <2>1 DEF Held, Closed
  <2>2. CASE x # h
    <3>1. file'[x] = file[x] /\ file[x] \in Files /\ Held(file[x])
      BY <1>1, <1>2, <2>2
    <3>2. file[x].entry \in Nat /\ Len(root) \in Nat
      BY <3>1, LenProperties DEF Files, VfsTypes
    <3>3. \A l \in Nat : Len(root) <= l => file[x].entry <= l
      BY <3>1, <3>2 DEF Held
    <3>4. file[x].entry <= Len(root')
      BY <3>3
    <3> QED
      BY <3>1, <3>4 DEF Held, Closed
  <2> QED
    BY <2>1, <2>2
<1> QED
  BY <1>2, <1>3

\* The FILE of an open handle.
LEMMA OpenFile ==
  ASSUME VfsTypes, NEW h \in Handles, IsOpen(h)
  PROVE  /\ file[h] \in Files /\ file[h].entry \in 1 .. Len(root)
         /\ root[file[h].entry] \in Entries /\ Data(h) \in Seq(Byte) /\ Len(Data(h)) \in Nat
         /\ Ahead(file[h]) \in Seq(Byte) /\ Len(Ahead(file[h])) \in Nat
<1>1. file[h] \in Files /\ Held(file[h]) /\ file[h].entry # 0
  BY DEF VfsTypes, IsOpen
<1>2. file[h].entry \in Nat /\ Len(root) \in Nat /\ file[h].entry <= Len(root)
  BY <1>1, LenProperties DEF VfsTypes, Files, Held
<1>3. file[h].entry \in 1 .. Len(root)
  BY <1>1, <1>2
<1>4. /\ root[file[h].entry] \in Entries /\ Data(h) \in Seq(Byte) /\ Len(Data(h)) \in Nat
      /\ Ahead(file[h]) \in Seq(Byte)
  BY <1>1, <1>3, AheadOf DEF Data
<1>5. Len(Ahead(file[h])) \in Nat
  BY <1>4, LenProperties
<1> QED
  BY <1>1, <1>3, <1>4, <1>5

\* A FILE that has just been opened.
LEMMA Opened ==
  ASSUME NEW e \in Nat, NEW n \in FileNames
  PROVE  /\ [Closed EXCEPT !.entry = e, !.name = n]
              = [entry |-> e, at |-> 0, hold |-> EOF, name |-> n]
         /\ [Closed EXCEPT !.entry = e, !.name = n] \in Files
<1>1. Closed \in Files /\ Closed.at = 0 /\ Closed.hold = EOF
  BY ClosedIsFile DEF Closed
<1> DEFINE g == [Closed EXCEPT !.entry = e, !.name = n]
<1> DEFINE ch == Closed
<1>a. g = [ch EXCEPT !.entry = e, !.name = n]
  BY DEF ch
<1> HIDE DEF g
<1>b. ch = [entry |-> ch.entry, at |-> ch.at, hold |-> ch.hold, name |-> ch.name]
  BY <1>1 DEF Files
<1> HIDE DEF ch
<1>2. g = [entry |-> e, at |-> Closed.at, hold |-> Closed.hold, name |-> n]
  <2>1. g = [entry |-> e, at |-> ch.at, hold |-> ch.hold, name |-> n]
    BY <1>a, <1>b
  <2> QED
    BY <2>1 DEF ch
<1>3. g = [entry |-> e, at |-> 0, hold |-> EOF, name |-> n]
  BY <1>1, <1>2
<1>4. g \in Files
  BY <1>3 DEF Files
<1> QED
  BY <1>3, <1>4 DEF g

\* A read begins.
LEMMA BeginReadTypes ==
  ASSUME VfsTypes, NEW h \in Handles, NEW what \in {"chars", "line"}, NEW given \in Seq(Byte),
         BeginRead(h, what, given)
  PROVE  reading' \in Reads /\ from' \in Seq(Byte) /\ IsOpen(h) /\ reading'.h = h
<1>1. IsOpen(h) /\ from' = Ahead(file[h])
      /\ reading' = [what |-> what, h |-> h, got |-> given, over |-> FALSE]
  BY DEF BeginRead
<1>2. from' \in Seq(Byte)
  BY <1>1, OpenFile
<1> QED
  BY <1>1, <1>2 DEF Reads

LEMMA FopenTypes ==
  ASSUME VfsTypes, NEW h \in Handles, NEW n \in FileNames, NEW mode, fopen(h, n, mode)
  PROVE  VfsTypes'
<1> DEFINE g(e) == [Closed EXCEPT !.entry = e, !.name = n]
<1>0. \A e \in Nat \ {0} : g(e) \in Files /\ g(e).entry = e
  <2> SUFFICES ASSUME NEW e \in Nat \ {0} PROVE g(e) \in Files /\ g(e).entry = e
    OBVIOUS
  <2>1. g(e) = [entry |-> e, at |-> 0, hold |-> EOF, name |-> n] /\ g(e) \in Files
    BY Opened
  <2> QED
    BY <2>1
<1> HIDE DEF g
<1>1. Len(root) \in Nat /\ Slot(n) \in 0 .. Len(root) /\ root \in Seq(Entries)
  BY SlotIs, LenProperties DEF VfsTypes
<1>2. reading.what = "idle" /\ UNCHANGED <<moved, reading, from, wild>>
  BY DEF fopen
<1>3. CASE Slot(n) # 0 /\ file' = [file EXCEPT ![h] = g(Slot(n))] /\ UNCHANGED root
  <2>1. Slot(n) \in Nat \ {0} /\ Slot(n) <= Len(root) /\ Len(root) <= Len(root)
    BY <1>1, <1>3
  <2>2. g(Slot(n)) \in Files /\ g(Slot(n)).entry = Slot(n)
    BY <1>0, <2>1
  <2>3. Len(root) <= Len(root') /\ Len(root') \in Nat /\ Slot(n) <= Len(root')
    BY <1>1, <1>3, <2>1
  <2>4. file' \in [Handles -> Files] /\ \A x \in Handles : Held(file[x])'
    BY <1>3, <2>1, <2>2, <2>3, OneFile
  <2> QED
    BY <1>2, <1>3, <2>4 DEF VfsTypes
<1>4. CASE /\ root' = Append(root, [name |-> n, data |-> <<>>, max |-> 0])
           /\ file' = [file EXCEPT ![h] = g(Len(root'))]
  <2>1. [name |-> n, data |-> <<>>, max |-> 0] \in Entries
    BY DEF Entries
  <2>2. root' \in Seq(Entries) /\ Len(root') = Len(root) + 1
    BY <1>1, <1>4, <2>1, AppendProperties
  <2>3. Len(root) + 1 \in Nat \ {0} /\ Len(root) <= Len(root) + 1 /\ Len(root) + 1 <= Len(root) + 1
    BY <1>1
  <2>4. g(Len(root')) \in Files /\ g(Len(root')).entry = Len(root')
    BY <1>0, <2>2, <2>3
  <2>5. Len(root) <= Len(root') /\ Len(root') \in Nat /\ Len(root') <= Len(root') /\ Len(root') # 0
    BY <2>2, <2>3
  <2>6. file' \in [Handles -> Files] /\ \A x \in Handles : Held(file[x])'
    BY <1>4, <2>4, <2>5, OneFile
  <2> QED
    BY <1>2, <2>2, <2>6 DEF VfsTypes
<1> QED
  BY <1>3, <1>4 DEF fopen, g

\* What a put does to the table.
LEMMA PutIs ==
  ASSUME VfsTypes, NEW h \in Handles, IsOpen(h), NEW ch \in DataBytes, file_entry_put(h, ch),
         NEW e, e = file[h].entry
  PROVE  /\ root' \in Seq(Entries) /\ Len(root') = Len(root)
         /\ \A i \in 1 .. Len(root) : i # e => root'[i] = root[i]
         /\ root'[e].name = root[e].name
         /\ root'[e].data = Written(root[e].data, file[h].at, ch)
         /\ root'[e].max = Grown(root[e], file[h].at)
         /\ wild' = (file[h].at >= root'[e].max)
<1> DEFINE r == root[e]
           d == Written(r.data, file[h].at, ch)
           max == Grown(r, file[h].at)
           w == [r EXCEPT !.data = d, !.max = max]
<1>1. /\ e \in 1 .. Len(root) /\ r \in Entries /\ r.data \in Seq(Byte)
      /\ file[h] \in Files /\ root \in Seq(Entries)
  BY OpenFile DEF VfsTypes, Data
<1>2. file[h].at \in Nat /\ ch \in Byte /\ r.max \in Nat /\ r.name \in FileNames
      /\ r = [name |-> r.name, data |-> r.data, max |-> r.max]
  BY <1>1 DEF Files, Byte, Entries
<1>3. d \in Seq(Byte)
  BY <1>1, <1>2, WrittenIs
<1>4. max \in Nat
  BY <1>2, VfsAssumption DEF Grown, VfsAssumption
<1>5. root' = [root EXCEPT ![e] = w] /\ wild' = (file[h].at >= max)
  BY DEF file_entry_put
<1> HIDE DEF d, max, r
<1>a. w = [r EXCEPT !.data = d, !.max = max]
  OBVIOUS
<1> HIDE DEF w
<1>6. w = [name |-> r.name, data |-> d, max |-> max]
  BY <1>2, <1>a
<1>7. w \in Entries
  BY <1>2, <1>3, <1>4, <1>6 DEF Entries
<1>8. /\ root' \in Seq(Entries) /\ Len(root') = Len(root)
      /\ root'[e] = w /\ \A i \in 1 .. Len(root) : i # e => root'[i] = root[i]
  <2>1. root' \in Seq(Entries) /\ Len(root') = Len(root)
    BY <1>1, <1>5, <1>7, ExceptSeq
  <2>2. DOMAIN root = 1 .. Len(root)
    BY <1>1, LenProperties
  <2> QED
    BY <1>1, <1>5, <2>1, <2>2
<1> QED
  BY <1>5, <1>6, <1>8 DEF r, d, max

LEMMA FcloseTypes ==
  ASSUME VfsTypes, NEW h \in Handles, fclose(h)
  PROVE  VfsTypes'
<1>1. /\ reading.what = "idle" /\ file' = [file EXCEPT ![h] = Closed]
      /\ moved' \subseteq Handles /\ UNCHANGED <<root, reading, from, wild>>
  BY DEF fclose, VfsTypes
<1>2. Len(root) \in Nat /\ Closed.entry = 0
  BY LenProperties DEF VfsTypes, Closed
<1>3. Len(root) <= Len(root') /\ Len(root') \in Nat /\ Closed.entry <= Len(root')
  <2>1. Len(root) <= Len(root) /\ Closed.entry <= Len(root)
    BY <1>2
  <2> QED
    BY <1>1, <1>2, <2>1
<1>4. file' \in [Handles -> Files] /\ \A x \in Handles : Held(file[x])'
  BY <1>1, <1>3, ClosedIsFile, OneFile
<1> QED
  BY <1>1, <1>4 DEF VfsTypes

\* A FILE at another offset.
LEMMA SoughtFile ==
  ASSUME NEW f \in Files, NEW o \in Nat
  PROVE  /\ [f EXCEPT !.at = o] \in Files /\ [f EXCEPT !.at = o].entry = f.entry
         /\ [f EXCEPT !.at = o].at = o /\ [f EXCEPT !.at = o].hold = f.hold
         /\ [f EXCEPT !.at = o].name = f.name
<1> DEFINE g == [f EXCEPT !.at = o]
<1>1. g = [entry |-> f.entry, at |-> o, hold |-> f.hold, name |-> f.name]
  BY DEF Files
<1> HIDE DEF g
<1>2. g \in Files
  BY <1>1 DEF Files
<1> QED
  BY <1>1, <1>2 DEF g

\* A step that only changes what an open FILE holds and where it stands.
LEMMA SameEntry ==
  ASSUME VfsTypes, NEW h \in Handles, IsOpen(h), NEW g \in Files, g.entry = file[h].entry,
         Len(root') = Len(root), file' = [file EXCEPT ![h] = g]
  PROVE  /\ file' \in [Handles -> Files] /\ \A x \in Handles : Held(file[x])'
         /\ file'[h] = g /\ \A x \in Handles \ {h} : file'[x] = file[x]
<1>1. file[h].entry \in 1 .. Len(root) /\ Len(root) \in Nat
  BY OpenFile, LenProperties DEF VfsTypes
<1>2. g.entry # 0 /\ g.entry <= Len(root) /\ Len(root) <= Len(root)
  BY <1>1
<1>3. Len(root) <= Len(root') /\ Len(root') \in Nat /\ g.entry <= Len(root')
  BY <1>1, <1>2
<1> QED
  BY <1>2, <1>3, OneFile

LEMMA FputcTypes ==
  ASSUME VfsTypes, NEW h \in Handles, NEW ch \in DataBytes, fputc(h, ch)
  PROVE  VfsTypes'
<1>1. /\ reading.what = "idle" /\ IsOpen(h) /\ file_entry_put(h, ch)
      /\ moved' \subseteq Handles /\ UNCHANGED <<reading, from>>
  BY DEF fputc, VfsTypes
<1>2. root' \in Seq(Entries) /\ Len(root') = Len(root)
  BY <1>1, PutIs
<1> DEFINE f == file[h]
           o == f.at + 1
           g == [f EXCEPT !.at = o]
<1>3. f \in Files /\ o \in Nat
  <2>1. file[h] \in Files
    BY <1>1, OpenFile
  <2> QED
    BY <2>1 DEF Files
<1>4. file' = [file EXCEPT ![h] = g]
  BY DEF fputc
<1>5. g \in Files /\ g.entry = f.entry
  <2> HIDE DEF f, o
  <2> QED
    BY <1>3, SoughtFile
<1>6. file' \in [Handles -> Files] /\ \A x \in Handles : Held(file[x])'
  <2> HIDE DEF g
  <2> QED
    BY <1>1, <1>2, <1>4, <1>5, SameEntry
<1>7. wild' \in BOOLEAN
  BY <1>1 DEF file_entry_put
<1> QED
  BY <1>1, <1>2, <1>6, <1>7 DEF VfsTypes

LEMMA FseekTypes ==
  ASSUME VfsTypes, NEW h \in Handles, NEW o \in Offsets, fseek(h, o)
  PROVE  VfsTypes'
<1> DEFINE g == [file[h] EXCEPT !.at = o]
<1>1. /\ reading.what = "idle" /\ IsOpen(h) /\ file' = [file EXCEPT ![h] = g]
      /\ moved' \subseteq Handles /\ UNCHANGED <<root, reading, from, wild>>
  BY DEF fseek, VfsTypes
<1>2. file[h] \in Files /\ o \in Nat
  BY <1>1, OpenFile, VfsAssumption DEF VfsAssumption
<1>3. g \in Files /\ g.entry = file[h].entry
  BY <1>2, SoughtFile
<1>4. file' \in [Handles -> Files] /\ \A x \in Handles : Held(file[x])'
  <2> HIDE DEF g
  <2> QED
    BY <1>1, <1>3, SameEntry
<1> QED
  BY <1>1, <1>4 DEF VfsTypes

LEMMA TestEofTypes ==
  ASSUME VfsTypes, NEW h \in Handles, test_eof(h)
  PROVE  VfsTypes'
<1> DEFINE f == file[h]
           g == ungetc(fgetc(f), Got(f))
<1>1. /\ reading.what = "idle" /\ IsOpen(h) /\ file' = [file EXCEPT ![h] = g]
      /\ UNCHANGED <<root, moved, reading, from, wild>>
  BY DEF test_eof
<1>2. f \in Files /\ f.entry \in 1 .. Len(root)
  BY <1>1, OpenFile
<1>3. g \in Files /\ g.entry = f.entry
  <2> HIDE DEF f
  <2> QED
    BY <1>2, GotIs
<1>4. file' \in [Handles -> Files] /\ \A x \in Handles : Held(file[x])'
  <2> HIDE DEF g
  <2> QED
    BY <1>1, <1>3, SameEntry
<1> QED
  BY <1>1, <1>4 DEF VfsTypes

\* The front of a sequence.
LEMMA FrontPart ==
  ASSUME NEW s \in Seq(Byte), NEW m \in 0 .. Len(s)
  PROVE  /\ SubSeq(s, 1, m) \in Seq(Byte) /\ Len(SubSeq(s, 1, m)) = m
         /\ \A i \in 1 .. m : i \in 1 .. Len(s) /\ SubSeq(s, 1, m)[i] = s[i]
<1> DEFINE r == SubSeq(s, 1, m)
<1>1. Len(s) \in Nat /\ m \in Nat /\ m \in Int /\ 1 \in Int
  BY LenProperties
<1>2. \A i \in 1 .. m : i \in 1 .. Len(s)
  BY <1>1
<1>3. \A i \in 1 .. m : s[i] \in Byte
  BY <1>2, ElementOfSeq
<1>4. /\ r \in Seq(Byte) /\ Len(r) = IF 1 <= m THEN m - 1 + 1 ELSE 0
      /\ \A i \in 1 .. m - 1 + 1 : r[i] = s[1 + i - 1]
  BY <1>1, <1>3, SubSeqProperties
<1> HIDE DEF r
<1>5. Len(r) = m
  BY <1>1, <1>4
<1>6. ASSUME NEW i \in 1 .. m PROVE r[i] = s[i]
  <2>1. i \in 1 .. m - 1 + 1 /\ 1 + i - 1 = i
    BY <1>1
  <2> QED
    BY <1>4, <2>1
<1> QED
  BY <1>2, <1>4, <1>5, <1>6 DEF r

LEMMA ReadCharsTypes ==
  ASSUME VfsTypes, NEW h \in Handles, NEW n \in Nat, read_chars(h, n)
  PROVE  VfsTypes'
<1> DEFINE f == file[h]
           r == Take(f, n)
           A == Ahead(f)
<1>1. /\ BeginRead(h, "chars", r.bytes) /\ file' = [file EXCEPT ![h] = r.file]
      /\ moved' \subseteq Handles /\ UNCHANGED <<root, wild>>
  BY DEF read_chars, fread, VfsTypes
<1>2. reading.what = "idle" /\ IsOpen(h) /\ reading'.what = "chars"
  BY <1>1 DEF BeginRead
<1>3. f \in Files /\ f.entry \in 1 .. Len(root) /\ A \in Seq(Byte)
  BY <1>2, OpenFile
<1>4. PICK m \in 0 .. Len(A), g \in Files :
         r = [bytes |-> SubSeq(A, 1, m), file |-> g] /\ g.entry = f.entry
  <2> HIDE DEF f
  <2> QED
    BY <1>3, TakeTakes
<1>5. r.bytes = SubSeq(A, 1, m) /\ r.file = g
  <2> HIDE DEF r
  <2> QED
    BY <1>4
<1>6. SubSeq(A, 1, m) \in Seq(Byte)
  <2> HIDE DEF A
  <2> QED
    BY <1>3, FrontPart
<1>7. reading' \in Reads /\ from' \in Seq(Byte)
  <2> DEFINE given == r.bytes
  <2>1. given \in Seq(Byte) /\ BeginRead(h, "chars", given) /\ "chars" \in {"chars", "line"}
    BY <1>1, <1>5, <1>6
  <2> HIDE DEF given
  <2> QED
    BY <2>1, BeginReadTypes
<1>8. file' = [file EXCEPT ![h] = g]
  BY <1>1, <1>5
<1>9. file' \in [Handles -> Files] /\ \A x \in Handles : Held(file[x])'
  BY <1>1, <1>2, <1>4, <1>8, SameEntry
<1> QED
  BY <1>1, <1>2, <1>7, <1>9 DEF VfsTypes

LEMMA LoadfileTypes ==
  ASSUME VfsTypes, NEW n \in FileNames, luaL_loadfile(n)
  PROVE  VfsTypes'
<1>1. /\ Slot(n) # 0 /\ from' = root[Slot(n)].data /\ UNCHANGED <<root, file, moved, wild>>
      /\ \/ reading' = [what |-> "loaded", h |-> 0, got |-> WithoutHashLine(from'), over |-> FALSE]
         \/ reading' = [what |-> "failed", h |-> 0, got |-> <<>>, over |-> FALSE]
  BY DEF luaL_loadfile
<1>2. root \in Seq(Entries) /\ Slot(n) \in 1 .. Len(root)
  <2>1. Slot(n) \in 0 .. Len(root) /\ Len(root) \in Nat /\ root \in Seq(Entries)
    BY SlotIs, LenProperties DEF VfsTypes
  <2> QED
    BY <1>1, <2>1
<1> DEFINE all == root[Slot(n)].data
<1>3. all \in Seq(Byte)
  <2>1. root[Slot(n)] \in Entries
    BY <1>2, ElementOfSeq
  <2> QED
    BY <2>1 DEF Entries
<1> HIDE DEF all
<1>4. WithoutHashLine(all) \in Seq(Byte)
  <2>1. CASE all = <<>> \/ all[1] # HASH
    BY <1>3, <2>1 DEF WithoutHashLine
  <2>2. CASE ~(all = <<>> \/ all[1] # HASH)
    <3> DEFINE z == First(all, NL)
               rest == SubSeq(all, z + 1, Len(all))
    <3>1. WithoutHashLine(all) = <<NL>> \o rest
      BY <2>2 DEF WithoutHashLine, SelectInSeq, First
    <3>2. z \in Nat
      <4>1. z \in 1 .. Len(all) + 1 /\ Len(all) \in Nat
        BY <1>3, FirstOf
      <4> HIDE DEF z
      <4> QED
        BY <4>1
    <3>3. rest \in Seq(Byte)
      <4> HIDE DEF z
      <4> QED
        BY <1>3, <3>2, Rest
    <3>4. <<NL>> \in Seq(Byte)
      BY DEF Byte
    <3> HIDE DEF rest
    <3> QED
      BY <3>1, <3>3, <3>4, ConcatProperties
  <2> QED
    BY <2>1, <2>2
<1>5. from' = all /\ from' \in Seq(Byte)
  BY <1>1, <1>3 DEF all
<1>6. reading' \in Reads /\ reading'.what # "line"
  <2>1. <<>> \in Seq(Byte)
    BY EmptySeq
  <2>2. CASE reading' = [what |-> "loaded", h |-> 0, got |-> WithoutHashLine(from'), over |-> FALSE]
    BY <1>4, <1>5, <2>2 DEF Reads
  <2>3. CASE reading' = [what |-> "failed", h |-> 0, got |-> <<>>, over |-> FALSE]
    BY <2>1, <2>3 DEF Reads
  <2> QED
    BY <1>1, <2>2, <2>3
<1> QED
  BY <1>1, <1>5, <1>6 DEF VfsTypes, Held

LEMMA ReadLineTypes ==
  ASSUME VfsTypes, NEW h \in Handles, read_line(h)
  PROVE  VfsTypes'
<1>1. BeginRead(h, "line", <<>>) /\ UNCHANGED <<root, file, moved, wild>>
  BY DEF read_line
<1>2. reading' \in Reads /\ from' \in Seq(Byte) /\ IsOpen(h) /\ reading'.h = h
  <2>1. <<>> \in Seq(Byte) /\ "line" \in {"chars", "line"}
    BY EmptySeq
  <2> QED
    BY <1>1, <2>1, BeginReadTypes
<1> QED
  BY <1>1, <1>2 DEF VfsTypes, Held, IsOpen

LEMMA ReturnTypes ==
  ASSUME VfsTypes, Return
  PROVE  VfsTypes'
<1>1. reading' = Idle /\ from' = <<>> /\ UNCHANGED <<root, file, moved, wild>>
  BY DEF Return
<1>2. Idle \in Reads /\ <<>> \in Seq(Byte) /\ Idle.what # "line"
  BY EmptySeq DEF Idle, Reads
<1> QED
  BY <1>1, <1>2 DEF VfsTypes, Held

-----------------------------------------------------------------------------
(* One turn of read_line's loop: m bytes come off what lies ahead and leave *)
(* it as g; the first z of them are the string that the loop sees.         *)

LineAhead == Ahead(file[reading.h])
Turn(m, z, g) ==
  /\ reading.what = "line" /\ reading.h \in Handles /\ IsOpen(reading.h)
  /\ m \in 0 .. Len(LineAhead) /\ z \in 0 .. m /\ g \in Files
  /\ root' = root /\ from' = from /\ wild' = wild /\ moved' = moved \ {reading.h}
  /\ file' = [file EXCEPT ![reading.h] = g]
  /\ g.entry = file[reading.h].entry /\ g.name = file[reading.h].name
  /\ m = 0 => g = file[reading.h]
  /\ m > 0 => g.hold = EOF
  /\ g.at <= Len(Data(reading.h)) \/ g.at = file[reading.h].at
  /\ Ahead(g) = SubSeq(LineAhead, m + 1, Len(LineAhead))
  /\ m <= LUAL_BUFFERSIZE /\ (LineAhead # <<>> => m > 0)
  /\ m = LUAL_BUFFERSIZE \/ m = Len(LineAhead) \/ LineAhead[m] = NL
  /\ \A i \in 1 .. m - 1 : LineAhead[i] # NL
  /\ \A i \in 1 .. z : LineAhead[i] # "nul"
  /\ z # m => LineAhead[z + 1] = "nul"
  /\ reading' = IF z > 0 /\ LineAhead[z] = NL
                THEN [what |-> "returned", h |-> reading.h,
                      got |-> reading.got \o SubSeq(LineAhead, 1, z - 1),
                      over |-> (reading.over \/ m = LUAL_BUFFERSIZE)]
                ELSE [what |-> "line", h |-> reading.h,
                      got |-> reading.got \o SubSeq(LineAhead, 1, z),
                      over |-> (reading.over \/ m = LUAL_BUFFERSIZE)]

LEMMA TurnOf ==
  ASSUME VfsTypes, ReadLineStep
  PROVE  \E m, z, g : Turn(m, z, g)
<1> DEFINE h == reading.h
           f == file[h]
           A == LineAhead
           L == LUAL_BUFFERSIZE
           n == LineLength(f, L)
           r == Take(f, n)
           p == CString(r.bytes)
<1>1. /\ reading.what = "line" /\ h \in Handles /\ IsOpen(h)
      /\ reading \in Reads /\ L \in Nat \ {0}
  BY VfsAssumption DEF ReadLineStep, VfsTypes, VfsAssumption
<1>2. f \in Files /\ f.entry \in 1 .. Len(root) /\ A \in Seq(Byte) /\ Len(A) \in Nat
  BY <1>1, OpenFile DEF LineAhead
<1>3. /\ file' = [file EXCEPT ![h] = r.file]
      /\ reading' = [reading EXCEPT
            !.what = IF Complete(p) \/ FALSE THEN "returned" ELSE reading.what,
            !.got  = reading.got \o IF Complete(p) THEN Front(p) ELSE p,
            !.over = reading.over \/ Len(r.bytes) = L]
      /\ root' = root /\ from' = from /\ wild' = wild /\ moved' = moved \ {h}
  BY DEF ReadLineStep, fgets, fgetsNULL
<1>4. /\ n \in 1 .. L /\ n <= Len(A) + 1
      /\ \A i \in 1 .. n - 1 : i \in 1 .. Len(A) /\ A[i] # NL
      /\ n = L \/ n = Len(A) + 1 \/ A[n] = NL
  <2>1. A = Ahead(f)
    BY DEF LineAhead
  <2> HIDE DEF f, A
  <2> QED
    BY <1>2, <2>1, LineLengthIs DEF n
<1> HIDE DEF n
<1>5. PICK m \in 0 .. Len(A), g \in Files :
         /\ m <= n /\ (m = n \/ m = Len(A))
         /\ r = [bytes |-> SubSeq(A, 1, m), file |-> g]
         /\ g.entry = f.entry /\ g.name = f.name
         /\ m = 0 => g = f
         /\ m > 0 => g.hold = EOF
         /\ g.at <= Len(root[f.entry].data) \/ g.at = f.at
         /\ Ahead(g) = SubSeq(A, m + 1, Len(A))
  <2>1. A = Ahead(f) /\ n \in Nat
    BY <1>1, <1>4 DEF LineAhead
  <2> HIDE DEF f, A
  <2> QED
    BY <1>2, <2>1, TakeTakes
<1>6. r.bytes = SubSeq(A, 1, m) /\ r.file = g
  <2> HIDE DEF r
  <2> QED
    BY <1>5
<1> HIDE DEF r, A, L
<1>7. m \in Nat /\ m <= L /\ (Len(A) > 0 => m > 0)
      /\ (m = L \/ m = Len(A) \/ A[m] = NL)
      /\ \A i \in 1 .. m - 1 : i \in 1 .. n - 1
  BY <1>1, <1>2, <1>4, <1>5
<1> DEFINE s == SubSeq(A, 1, m)
<1>8. s \in Seq(Byte) /\ Len(s) = m /\ \A i \in 1 .. m : i \in 1 .. Len(A) /\ s[i] = A[i]
  BY <1>2, FrontPart
<1> HIDE DEF s
<1>9. PICK z \in 0 .. Len(s) : /\ CString(s) = SubSeq(s, 1, z)
                               /\ \A i \in 1 .. z : s[i] # "nul"
                               /\ z # Len(s) => s[z + 1] = "nul"
  BY <1>8, CStringIs
<1>10. z \in 0 .. m /\ z \in Nat /\ z \in 0 .. Len(A)
       /\ \A i \in 1 .. z : i \in 1 .. m
       /\ (z # m => z + 1 \in 1 .. m)
  BY <1>2, <1>7, <1>8, <1>9
<1>11. /\ \A i \in 1 .. z : A[i] # "nul"
       /\ z # m => A[z + 1] = "nul"
  BY <1>8, <1>9, <1>10
<1>12. /\ p \in Seq(Byte) /\ Len(p) = z /\ p = SubSeq(A, 1, z)
       /\ \A i \in 1 .. z : p[i] = A[i]
  <2> DEFINE q == SubSeq(A, 1, z)
             t == SubSeq(s, 1, z)
  <2>1. q \in Seq(Byte) /\ Len(q) = z /\ \A i \in 1 .. z : q[i] = A[i]
    BY <1>2, <1>10, FrontPart
  <2>2. t \in Seq(Byte) /\ Len(t) = z /\ \A i \in 1 .. z : t[i] = s[i]
    BY <1>8, <1>9, FrontPart
  <2>3. p = t
    BY <1>6, <1>9 DEF s, p
  <2> HIDE DEF q, t
  <2>4. \A i \in 1 .. Len(t) : t[i] = q[i]
    BY <1>8, <1>10, <2>1, <2>2
  <2>5. t = q
    BY <2>1, <2>2, <2>4, SeqEqual
  <2> QED
    BY <2>1, <2>3, <2>5 DEF q
<1> HIDE DEF p
<1>13. Complete(p) <=> (z > 0 /\ A[z] = NL)
  <2>1. CASE z = 0
    <3>1. p = <<>>
      BY <1>12, <2>1, EmptySeq
    <3> QED
      BY <2>1, <3>1 DEF Complete
  <2>2. CASE z # 0
    <3>1. z > 0 /\ z \in 1 .. z /\ p # <<>>
      BY <1>10, <1>12, <2>2, EmptySeq
    <3> QED
      BY <1>12, <3>1 DEF Complete
  <2> QED
    BY <2>1, <2>2
<1>14. z > 0 => Front(p) = SubSeq(A, 1, z - 1)
  <2> SUFFICES ASSUME z > 0 PROVE Front(p) = SubSeq(A, 1, z - 1)
    OBVIOUS
  <2> DEFINE q == SubSeq(A, 1, z - 1)
             t == SubSeq(p, 1, z - 1)
  <2>1. z - 1 \in 0 .. Len(A) /\ z - 1 \in 0 .. Len(p) /\ \A i \in 1 .. z - 1 : i \in 1 .. z
    BY <1>2, <1>10, <1>12
  <2>2. q \in Seq(Byte) /\ Len(q) = z - 1 /\ \A i \in 1 .. z - 1 : q[i] = A[i]
    BY <1>2, <2>1, FrontPart
  <2>3. t \in Seq(Byte) /\ Len(t) = z - 1 /\ \A i \in 1 .. z - 1 : t[i] = p[i]
    BY <1>12, <2>1, FrontPart
  <2>4. Front(p) = t
    BY <1>12 DEF Front
  <2> HIDE DEF q, t
  <2>5. \A i \in 1 .. Len(t) : t[i] = q[i]
    BY <1>12, <2>1, <2>2, <2>3
  <2>6. t = q
    BY <2>2, <2>3, <2>5, SeqEqual
  <2> QED
    BY <2>4, <2>6 DEF q
<1>15. reading = [what |-> "line", h |-> h, got |-> reading.got, over |-> reading.over]
  BY <1>1 DEF Reads
<1> DEFINE over == reading.over \/ m = L
<1>16. reading' = IF z > 0 /\ A[z] = NL
                  THEN [what |-> "returned", h |-> h, got |-> reading.got \o SubSeq(A, 1, z - 1),
                        over |-> over]
                  ELSE [what |-> "line", h |-> h, got |-> reading.got \o SubSeq(A, 1, z),
                        over |-> over]
  <2>1. Len(r.bytes) = m
    BY <1>6, <1>8 DEF s
  <2>2. CASE Complete(p)
    <3>1. reading' = [reading EXCEPT !.what = "returned", !.got = reading.got \o Front(p),
                         !.over = over]
      BY <1>3, <2>1, <2>2
    <3>2. Front(p) = SubSeq(A, 1, z - 1) /\ z > 0 /\ A[z] = NL
      BY <1>13, <1>14, <2>2
    <3> HIDE DEF over
    <3>3. reading' = [what |-> "returned", h |-> h, got |-> reading.got \o Front(p), over |-> over]
      BY <1>15, <3>1
    <3> QED
      BY <3>2, <3>3
  <2>3. CASE ~Complete(p)
    <3>1. reading' = [reading EXCEPT !.what = "line", !.got = reading.got \o p, !.over = over]
      BY <1>1, <1>3, <2>1, <2>3
    <3>2. p = SubSeq(A, 1, z) /\ ~(z > 0 /\ A[z] = NL)
      BY <1>12, <1>13, <2>3
    <3> HIDE DEF over
    <3>3. reading' = [what |-> "line", h |-> h, got |-> reading.got \o p, over |-> over]
      BY <1>15, <3>1
    <3> QED
      BY <3>2, <3>3
  <2> QED
    BY <2>2, <2>3
<1>17. A # <<>> => Len(A) > 0
  BY <1>2, EmptySeq
<1>18. \A i \in 1 .. m - 1 : A[i] # NL
  BY <1>4, <1>7
<1>19. file' = [file EXCEPT ![h] = g]
  BY <1>3, <1>6
<1>20. g.at <= Len(Data(h)) \/ g.at = f.at
  BY <1>5 DEF Data
<1>21. Turn(m, z, g)
  <2> HIDE DEF over
  <2> QED
    BY <1>1, <1>3, <1>5, <1>7, <1>10, <1>11, <1>16, <1>17, <1>18, <1>19, <1>20 DEF Turn, A, L, over
<1> QED
  BY <1>21

LEMMA ReadLineStepTypes ==
  ASSUME VfsTypes, ReadLineStep
  PROVE  VfsTypes'
<1>1. PICK m, z, g : Turn(m, z, g)
  BY TurnOf
<1> DEFINE h == reading.h
           A == LineAhead
<1>2. /\ h \in Handles /\ IsOpen(h) /\ m \in 0 .. Len(A) /\ z \in 0 .. m /\ g \in Files
      /\ root' = root /\ from' = from /\ wild' = wild /\ moved' \subseteq Handles
      /\ file' = [file EXCEPT ![h] = g] /\ g.entry = file[h].entry
  BY <1>1 DEF Turn, VfsTypes
<1>3. file' \in [Handles -> Files] /\ file'[h] = g /\ \A x \in Handles : Held(file[x])'
  BY <1>2, SameEntry
<1>4. A \in Seq(Byte) /\ Len(A) \in Nat /\ reading.got \in Seq(Byte) /\ reading.over \in BOOLEAN
  BY <1>2, OpenFile DEF LineAhead, VfsTypes, Reads
<1> HIDE DEF A
<1>5. z \in 0 .. Len(A) /\ (z > 0 => z - 1 \in 0 .. Len(A))
  BY <1>2, <1>4
<1>6. \A j \in 0 .. Len(A) : reading.got \o SubSeq(A, 1, j) \in Seq(Byte)
  <2> SUFFICES ASSUME NEW j \in 0 .. Len(A) PROVE reading.got \o SubSeq(A, 1, j) \in Seq(Byte)
    OBVIOUS
  <2>1. SubSeq(A, 1, j) \in Seq(Byte)
    BY <1>4, FrontPart
  <2> QED
    BY <1>4, <2>1, ConcatProperties
<1>7. reading' \in Reads /\ reading'.h = h
  <2>1. CASE z > 0 /\ A[z] = NL
    <3>1. reading' = [what |-> "returned", h |-> h, got |-> reading.got \o SubSeq(A, 1, z - 1),
                      over |-> (reading.over \/ m = LUAL_BUFFERSIZE)]
      BY <1>1, <2>1 DEF Turn, A
    <3>2. reading.got \o SubSeq(A, 1, z - 1) \in Seq(Byte)
      BY <1>5, <1>6, <2>1
    <3> QED
      BY <1>2, <3>1, <3>2 DEF Reads
  <2>2. CASE ~(z > 0 /\ A[z] = NL)
    <3>1. reading' = [what |-> "line", h |-> h, got |-> reading.got \o SubSeq(A, 1, z),
                      over |-> (reading.over \/ m = LUAL_BUFFERSIZE)]
      BY <1>1, <2>2 DEF Turn, A
    <3>2. reading.got \o SubSeq(A, 1, z) \in Seq(Byte)
      BY <1>5, <1>6
    <3> QED
      BY <1>2, <3>1, <3>2 DEF Reads
  <2> QED
    BY <2>1, <2>2
<1>8. reading'.h \in Handles /\ IsOpen(reading.h)'
  BY <1>2, <1>3, <1>7 DEF IsOpen
<1> QED
  BY <1>2, <1>3, <1>7, <1>8 DEF VfsTypes

LEMMA VfsInitTypes == VfsInit => VfsTypes
<1> SUFFICES ASSUME VfsInit PROVE VfsTypes
  OBVIOUS
<1>1. <<>> \in Seq(Entries) /\ <<>> \in Seq(Byte) /\ Len(<<>>) = 0
  BY EmptySeq
<1>2. Idle \in Reads /\ Idle.what = "idle"
  BY <1>1 DEF Idle, Reads
<1>3. Closed.entry = 0
  BY DEF Closed
<1>4. file \in [Handles -> Files] /\ \A h \in Handles : file[h] = Closed
  BY ClosedIsFile DEF VfsInit
<1>5. ASSUME NEW h \in Handles PROVE Held(file[h])
  BY <1>1, <1>3, <1>4 DEF VfsInit, Held
<1> QED
  BY <1>1, <1>2, <1>4, <1>5 DEF VfsInit, VfsTypes

\* A step of VfsNext, by its actions.
LEMMA VfsSteps ==
  ASSUME VfsNext
  PROVE  /\ ~wild
         /\ \/ \E h \in Handles, n \in FileNames : fopen(h, n, "r") \/ fopen(h, n, "w")
            \/ \E h \in Handles : fclose(h)
            \/ \E h \in Handles, ch \in DataBytes : fputc(h, ch)
            \/ \E h \in Handles, o \in Offsets : fseek(h, o)
            \/ \E h \in Handles : test_eof(h)
            \/ \E h \in Handles, n \in Nat : read_chars(h, n)
            \/ \E h \in Handles : read_line(h)
            \/ \E n \in FileNames : luaL_loadfile(n)
            \/ ReadLineStep \/ Return
<1>1. 1 \in Nat /\ MaxSize + 2 \in Nat
  BY VfsAssumption DEF VfsAssumption
<1> QED
  BY <1>1 DEF VfsNext

LEMMA VfsNextTypes == VfsTypes /\ [VfsNext]_vfsVars => VfsTypes'
<1> SUFFICES ASSUME VfsTypes, [VfsNext]_vfsVars PROVE VfsTypes'
  OBVIOUS
<1>1. CASE UNCHANGED vfsVars
  BY <1>1 DEF vfsVars, VfsTypes, Held, IsOpen
<1>2. CASE VfsNext
  BY <1>2, VfsSteps, FopenTypes, FcloseTypes, FputcTypes, FseekTypes, TestEofTypes,
     ReadCharsTypes, ReadLineTypes, LoadfileTypes, ReadLineStepTypes, ReturnTypes
<1> QED
  BY <1>1, <1>2

\* Files, handles, names and the read in progress keep their types; a handle
\* that is open leads to a slot of root, one that is closed holds no byte,
\* and a line is read from an open file.
THEOREM VfsTyped == VfsSpec => []VfsTypes
<1> QED
  BY VfsInitTypes, VfsNextTypes, PTL DEF VfsSpec

-----------------------------------------------------------------------------
(* Files and handles belong together.                                      *)

Near(h) == IsOpen(h) => file[h].at <= Len(Data(h)) \/ file[h].at \in Offsets
FilesInv == FilesConsistent /\ \A h \in Handles : Near(h)

NamesApart == \A i, j \in DOMAIN root : i < j => ~IsPrefix(root[j].name, root[i].name)
Leads(h) == IsOpen(h) => file[h].entry = Slot(file[h].name)
DataFits == ~wild => \A i \in DOMAIN root : Len(root[i].data) <= root[i].max
WildSought == wild => \E h \in Handles : \E o \in Offsets : file[h].at = o + 1 /\ o >= GROW
HoldTrue(h) ==
  h \notin moved => (file[h].hold # EOF => file[h].at > 0 /\ Data(h)[file[h].at] = file[h].hold)

LEMMA FilesInvParts ==
  FilesInv <=> /\ NamesApart /\ DataFits /\ WildSought
               /\ \A h \in Handles : Leads(h) /\ HoldTrue(h) /\ Near(h)
  BY DEF FilesInv, FilesConsistent, NamesApart, DataFits, WildSought, Leads, HoldTrue

LEMMA FilesInvPartsNext ==
  FilesInv' <=> /\ NamesApart' /\ DataFits' /\ WildSought'
                /\ \A h \in Handles : Leads(h)' /\ HoldTrue(h)' /\ Near(h)'
  BY DEF FilesInv, FilesConsistent, NamesApart, DataFits, WildSought, Leads, HoldTrue

\* A step that leaves the table alone and moves one FILE in its file.
LEMMA MovedFile ==
  ASSUME VfsTypes, FilesInv, ~wild, NEW h \in Handles, NEW g \in Files,
         root' = root, wild' = wild, file' = [file EXCEPT ![h] = g],
         g.entry = file[h].entry, g.name = file[h].name,
         IsOpen(h) => g.at <= Len(Data(h)) \/ g.at \in Offsets,
         moved \ {h} \subseteq moved',
         h \notin moved' => (g.hold # EOF => g.at > 0 /\ Data(h)[g.at] = g.hold)
  PROVE  FilesInv'
<1>1. /\ NamesApart /\ DataFits
      /\ \A x \in Handles : Leads(x) /\ HoldTrue(x) /\ Near(x)
  BY FilesInvParts
<1>2. file'[h] = g /\ \A x \in Handles \ {h} : file'[x] = file[x]
  BY DEF VfsTypes
<1>3. NamesApart' /\ DataFits' /\ WildSought'
  BY <1>1 DEF NamesApart, DataFits, WildSought
<1>4. ASSUME NEW n PROVE Slot(n)' = Slot(n)
  BY DEF Slot, SelectInSeq
<1>5. Leads(h)' /\ HoldTrue(h)' /\ Near(h)'
  <2>1. Leads(h)'
    <3>1. IsOpen(h)' => IsOpen(h)
      BY <1>2 DEF IsOpen
    <3>2. file'[h].entry = file[h].entry /\ file'[h].name = file[h].name
      BY <1>2
    <3> QED
      BY <1>1, <3>1, <3>2 DEF Leads, Slot, SelectInSeq
  <2>2. HoldTrue(h)'
    BY <1>2 DEF HoldTrue, Data
  <2>3. Near(h)'
    BY <1>2 DEF Near, Data, IsOpen
  <2> QED
    BY <2>1, <2>2, <2>3
<1>6. ASSUME NEW x \in Handles, x # h PROVE Leads(x)' /\ HoldTrue(x)' /\ Near(x)'
  <2>1. file'[x] = file[x] /\ Leads(x) /\ HoldTrue(x) /\ Near(x)
    BY <1>1, <1>2, <1>6
  <2>2. Leads(x)'
    BY <2>1 DEF Leads, IsOpen, Slot, SelectInSeq
  <2>3. HoldTrue(x)'
    BY <1>6, <2>1 DEF HoldTrue, Data
  <2>4. Near(x)'
    BY <2>1 DEF Near, Data, IsOpen
  <2> QED
    BY <2>2, <2>3, <2>4
<1> QED
  BY <1>3, <1>5, <1>6, FilesInvPartsNext

\* A step that leaves all FILEs and the table alone.
LEMMA FilesUnchanged ==
  ASSUME FilesInv, UNCHANGED <<root, file, moved, wild>>
  PROVE  FilesInv'
<1>1. /\ NamesApart /\ DataFits /\ WildSought
      /\ \A x \in Handles : Leads(x) /\ HoldTrue(x) /\ Near(x)
  BY FilesInvParts
<1>2. NamesApart' /\ DataFits' /\ WildSought'
  BY <1>1 DEF NamesApart, DataFits, WildSought
<1>3. ASSUME NEW x \in Handles PROVE Leads(x)' /\ HoldTrue(x)' /\ Near(x)'
  <2>1. Leads(x) /\ HoldTrue(x) /\ Near(x)
    BY <1>1
  <2>2. Leads(x)'
    BY <2>1 DEF Leads, IsOpen, Slot, SelectInSeq
  <2>3. HoldTrue(x)' /\ Near(x)'
    BY <2>1 DEF HoldTrue, Near, Data, IsOpen
  <2> QED
    BY <2>2, <2>3
<1> QED
  BY <1>2, <1>3, FilesInvPartsNext

LEMMA FcloseFiles ==
  ASSUME VfsTypes, FilesInv, ~wild, NEW h \in Handles, fclose(h)
  PROVE  FilesInv'
<1>1. /\ file' = [file EXCEPT ![h] = Closed] /\ moved' = moved \ {h}
      /\ UNCHANGED <<root, wild>>
  BY DEF fclose
<1>2. /\ NamesApart /\ DataFits
      /\ \A x \in Handles : Leads(x) /\ HoldTrue(x) /\ Near(x)
  BY FilesInvParts
<1>3. file'[h] = Closed /\ \A x \in Handles \ {h} : file'[x] = file[x]
  BY <1>1 DEF VfsTypes
<1>4. NamesApart' /\ DataFits' /\ WildSought'
  BY <1>1, <1>2 DEF NamesApart, DataFits, WildSought
<1>5. Leads(h)' /\ HoldTrue(h)' /\ Near(h)'
  BY <1>3 DEF Leads, HoldTrue, Near, IsOpen, Closed
<1>6. ASSUME NEW x \in Handles, x # h PROVE Leads(x)' /\ HoldTrue(x)' /\ Near(x)'
  <2>1. file'[x] = file[x] /\ Leads(x) /\ HoldTrue(x) /\ Near(x)
    BY <1>2, <1>3, <1>6
  <2>2. Leads(x)'
    BY <1>1, <2>1 DEF Leads, IsOpen, Slot, SelectInSeq
  <2>3. HoldTrue(x)'
    BY <1>1, <1>6, <2>1 DEF HoldTrue, Data
  <2>4. Near(x)'
    BY <1>1, <2>1 DEF Near, Data, IsOpen
  <2> QED
    BY <2>2, <2>3, <2>4
<1> QED
  BY <1>4, <1>5, <1>6, FilesInvPartsNext

LEMMA FseekFiles ==
  ASSUME VfsTypes, FilesInv, ~wild, NEW h \in Handles, NEW o \in Offsets, fseek(h, o)
  PROVE  FilesInv'
<1> DEFINE g == [file[h] EXCEPT !.at = o]
<1>1. /\ IsOpen(h) /\ file' = [file EXCEPT ![h] = g] /\ root' = root /\ wild' = wild
      /\ moved' = IF file[h].hold = EOF THEN moved ELSE moved \cup {h}
  BY DEF fseek
<1>2. file[h] \in Files /\ o \in Nat
  BY <1>1, OpenFile, VfsAssumption DEF VfsAssumption
<1>3. /\ g \in Files /\ g.entry = file[h].entry /\ g.name = file[h].name
      /\ g.at = o /\ g.hold = file[h].hold
  BY <1>2, SoughtFile
<1> HIDE DEF g
<1>4. moved \ {h} \subseteq moved' /\ (h \notin moved' => g.hold = EOF)
  BY <1>1, <1>3
<1> QED
  BY <1>1, <1>3, <1>4, MovedFile

LEMMA TestEofFiles ==
  ASSUME VfsTypes, FilesInv, ~wild, NEW h \in Handles, test_eof(h)
  PROVE  FilesInv'
<1> DEFINE f == file[h]
           g == ungetc(fgetc(f), Got(f))
<1>1. /\ IsOpen(h) /\ file' = [file EXCEPT ![h] = g]
      /\ root' = root /\ wild' = wild /\ moved' = moved
  BY DEF test_eof
<1>2. f \in Files /\ f.entry \in 1 .. Len(root) /\ Len(Data(h)) \in Nat
  BY <1>1, OpenFile
<1>3. /\ g \in Files /\ g.entry = f.entry /\ g.name = f.name
      /\ \/ g = f
         \/ g.at \in 1 .. Len(root[f.entry].data) /\ g.hold = root[f.entry].data[g.at]
  <2> HIDE DEF f
  <2> QED
    BY <1>2, GotIs
<1> HIDE DEF g
<1>4. HoldTrue(h) /\ Near(h)
  BY FilesInvParts
<1>5. CASE g = f
  <2>1. g.at <= Len(Data(h)) \/ g.at \in Offsets
    BY <1>1, <1>4, <1>5 DEF Near
  <2>2. h \notin moved' => (g.hold # EOF => g.at > 0 /\ Data(h)[g.at] = g.hold)
    BY <1>1, <1>4, <1>5 DEF HoldTrue
  <2> QED
    BY <1>1, <1>3, <2>1, <2>2, MovedFile
<1>6. CASE g.at \in 1 .. Len(root[f.entry].data) /\ g.hold = root[f.entry].data[g.at]
  <2>1. g.at \in 1 .. Len(Data(h)) /\ Data(h)[g.at] = g.hold
    BY <1>6 DEF Data
  <2>2. g.at <= Len(Data(h)) /\ g.at > 0
    BY <1>2, <2>1
  <2> QED
    BY <1>1, <1>3, <2>1, <2>2, MovedFile
<1> QED
  BY <1>3, <1>5, <1>6

LEMMA ReadCharsFiles ==
  ASSUME VfsTypes, FilesInv, ~wild, NEW h \in Handles, NEW n \in Nat, read_chars(h, n)
  PROVE  FilesInv'
<1> DEFINE f == file[h]
           r == Take(f, n)
           A == Ahead(f)
<1>1. /\ IsOpen(h) /\ file' = [file EXCEPT ![h] = r.file] /\ root' = root /\ wild' = wild
      /\ moved' = IF r.bytes = <<>> THEN moved ELSE moved \ {h}
  BY DEF read_chars, fread, BeginRead
<1>2. f \in Files /\ f.entry \in 1 .. Len(root) /\ A \in Seq(Byte)
  BY <1>1, OpenFile
<1>3. PICK m \in 0 .. Len(A), g \in Files :
         /\ r = [bytes |-> SubSeq(A, 1, m), file |-> g]
         /\ g.entry = f.entry /\ g.name = f.name
         /\ m = 0 => g = f
         /\ m > 0 => g.hold = EOF
         /\ g.at <= Len(root[f.entry].data) \/ g.at = f.at
  <2> HIDE DEF f
  <2> QED
    BY <1>2, TakeTakes
<1>4. r.bytes = SubSeq(A, 1, m) /\ r.file = g
  <2> HIDE DEF r
  <2> QED
    BY <1>3
<1>5. Len(SubSeq(A, 1, m)) = m
  <2> HIDE DEF A
  <2> QED
    BY <1>2, FrontPart
<1> HIDE DEF r
<1>6. HoldTrue(h) /\ Near(h)
  BY FilesInvParts
<1>7. g.at <= Len(Data(h)) \/ g.at \in Offsets
  BY <1>1, <1>3, <1>6 DEF Near, Data
<1>8. moved \ {h} \subseteq moved'
  BY <1>1
<1>9. h \notin moved' => (g.hold # EOF => g.at > 0 /\ Data(h)[g.at] = g.hold)
  <2>1. CASE m = 0
    <3>1. SubSeq(A, 1, m) = <<>> /\ g = f
      BY <1>3, <2>1
    <3> QED
      BY <1>1, <1>4, <1>6, <3>1 DEF HoldTrue
  <2>2. CASE m # 0
    <3>1. m > 0
      <4>1. Len(A) \in Nat
        BY <1>1, OpenFile
      <4> HIDE DEF A
      <4> QED
        BY <2>2, <4>1
    <3> QED
      BY <1>3, <3>1
  <2> QED
    BY <2>1, <2>2
<1>10. file' = [file EXCEPT ![h] = g]
  BY <1>1, <1>4
<1> QED
  BY <1>1, <1>3, <1>7, <1>8, <1>9, <1>10, MovedFile

LEMMA ReadLineStepFiles ==
  ASSUME VfsTypes, FilesInv, ~wild, ReadLineStep
  PROVE  FilesInv'
<1>1. PICK m, z, g : Turn(m, z, g)
  BY TurnOf
<1> DEFINE h == reading.h
           A == LineAhead
<1>2. /\ h \in Handles /\ IsOpen(h) /\ m \in 0 .. Len(A) /\ g \in Files
      /\ root' = root /\ wild' = wild /\ moved' = moved \ {h}
      /\ file' = [file EXCEPT ![h] = g]
      /\ g.entry = file[h].entry /\ g.name = file[h].name
      /\ m = 0 => g = file[h]
      /\ m > 0 => g.hold = EOF
      /\ g.at <= Len(Data(h)) \/ g.at = file[h].at
      /\ A # <<>> => m > 0
  BY <1>1 DEF Turn
<1>3. g.at <= Len(Data(h)) \/ g.at \in Offsets
  <2>1. Near(h)
    BY <1>2, FilesInvParts
  <2> QED
    BY <1>2, <2>1 DEF Near
<1>4. g.hold = EOF
  <2>1. CASE m > 0
    BY <1>2, <2>1
  <2>2. CASE ~(m > 0)
    <3>1. Len(A) \in Nat /\ A = <<>>
      BY <1>2, <2>2, OpenFile DEF LineAhead
    <3>2. m = 0 /\ Len(A) = 0
      <4>1. Len(A) = 0
        BY <3>1
      <4> HIDE DEF A
      <4> QED
        BY <1>2, <4>1
    <3>3. /\ file[h] \in Files /\ file[h].entry \in 1 .. Len(root)
          /\ Len(root[file[h].entry].data) \in Nat
      BY <1>2, OpenFile DEF Data
    <3>4. Len(A) = (IF file[h].hold = EOF THEN 0 ELSE 1)
             + (IF file[h].at < Len(root[file[h].entry].data)
                THEN Len(root[file[h].entry].data) - file[h].at ELSE 0)
      BY <3>3, AheadOf DEF LineAhead
    <3>5. file[h].hold = EOF
      <4>1. file[h].at \in Nat
        BY <3>3 DEF Files
      <4> HIDE DEF A, h
      <4> QED
        BY <3>2, <3>3, <3>4, <4>1
    <3> QED
      BY <1>2, <3>2, <3>5
  <2> QED
    BY <2>1, <2>2
<1>5. moved \ {h} \subseteq moved'
  BY <1>2
<1> HIDE DEF h
<1> QED
  BY <1>2, <1>3, <1>4, <1>5, MovedFile

\* The first slot that fits a name is the only one.
SlotIn(r, n) == SelectInSeq(r, LAMBDA e : strcmpEqual(e.name, n))
LEMMA SlotInIs ==
  ASSUME NEW r \in Seq(Entries), NEW n, NEW s \in 1 .. Len(r), strcmpEqual(r[s].name, n),
         \A i \in 1 .. s - 1 : ~strcmpEqual(r[i].name, n)
  PROVE  SlotIn(r, n) = s
<1> DEFINE I == {i \in 1 .. Len(r) : strcmpEqual(r[i].name, n)}
<1>1. SlotIn(r, n) = IF I # {} THEN Min(I) ELSE 0
  BY DEF SlotIn, SelectInSeq
<1>2. Len(r) \in Nat
  BY LenProperties
<1>3. I \subseteq Int /\ s \in I
  BY <1>2
<1>4. ASSUME NEW i \in I PROVE s <= i
  <2>1. i \in 1 .. Len(r) /\ strcmpEqual(r[i].name, n)
    OBVIOUS
  <2>2. i \in 1 .. s - 1 \/ s <= i
    BY <1>2, <2>1
  <2> QED
    BY <2>1, <2>2
<1>5. Min(I) = s
  <2> HIDE DEF I
  <2> QED
    BY <1>3, <1>4, MinIs
<1> QED
  BY <1>1, <1>3, <1>5

LEMMA SameName ==
  ASSUME NEW n \in FileNames
  PROVE  strcmpEqual(n, n)
<1>1. n \in Seq(Range(n))
  BY VfsAssumption DEF VfsAssumption
<1>2. Len(n) \in Nat
  BY <1>1, LenProperties
<1>3. Len(n) <= Len(n)
  BY <1>2
<1> QED
  BY <1>3 DEF strcmpEqual, IsPrefix

LEMMA FopenFiles ==
  ASSUME VfsTypes, FilesInv, ~wild, NEW h \in Handles, NEW n \in FileNames, NEW mode,
         fopen(h, n, mode)
  PROVE  FilesInv'
<1> DEFINE g(e) == [Closed EXCEPT !.entry = e, !.name = n]
<1>0. \A e \in Nat : /\ g(e) \in Files /\ g(e).entry = e /\ g(e).name = n
                     /\ g(e).at = 0 /\ g(e).hold = EOF
  <2> SUFFICES ASSUME NEW e \in Nat
               PROVE  /\ g(e) \in Files /\ g(e).entry = e /\ g(e).name = n
                      /\ g(e).at = 0 /\ g(e).hold = EOF
    OBVIOUS
  <2>1. g(e) = [entry |-> e, at |-> 0, hold |-> EOF, name |-> n] /\ g(e) \in Files
    BY Opened
  <2> HIDE DEF g
  <2> QED
    BY <2>1
<1> HIDE DEF g
<1>1. /\ Len(root) \in Nat /\ Slot(n) \in 0 .. Len(root) /\ root \in Seq(Entries)
      /\ DOMAIN root = 1 .. Len(root)
  BY SlotIs, LenProperties DEF VfsTypes
<1>2. /\ NamesApart /\ DataFits
      /\ \A x \in Handles : Leads(x) /\ HoldTrue(x) /\ Near(x)
  BY FilesInvParts
<1>3. UNCHANGED <<moved, reading, from, wild>> /\ ~IsOpen(h)
  BY DEF fopen
<1>4. CASE Slot(n) # 0 /\ file' = [file EXCEPT ![h] = g(Slot(n))] /\ UNCHANGED root
  <2>1. Slot(n) \in Nat
    BY <1>1
  <2>2. file'[h] = g(Slot(n)) /\ \A x \in Handles \ {h} : file'[x] = file[x]
    BY <1>4 DEF VfsTypes
  <2>3. NamesApart' /\ DataFits' /\ WildSought'
    BY <1>2, <1>3, <1>4 DEF NamesApart, DataFits, WildSought
  <2>4. Leads(h)' /\ HoldTrue(h)' /\ Near(h)'
    <3>1. /\ file'[h].entry = Slot(n) /\ file'[h].name = n
          /\ file'[h].at = 0 /\ file'[h].hold = EOF
      BY <1>0, <2>1, <2>2
    <3>2. Leads(h)'
      BY <1>4, <3>1 DEF Leads, Slot, SelectInSeq
    <3>3. HoldTrue(h)'
      BY <3>1 DEF HoldTrue
    <3>4. Near(h)'
      <4>1. Len(root[Slot(n)].data) \in Nat
        <5>1. Slot(n) \in 1 .. Len(root)
          BY <1>1, <1>4
        <5>2. root[Slot(n)] \in Entries
          BY <1>1, <5>1, ElementOfSeq
        <5>3. root[Slot(n)].data \in Seq(Byte)
          BY <5>2 DEF Entries
        <5> QED
          BY <5>3, LenProperties
      <4>2. 0 <= Len(root[Slot(n)].data)
        BY <4>1
      <4> QED
        BY <1>4, <3>1, <4>2 DEF Near, Data
    <3> QED
      BY <3>2, <3>3, <3>4
  <2>5. ASSUME NEW x \in Handles, x # h PROVE Leads(x)' /\ HoldTrue(x)' /\ Near(x)'
    <3>1. file'[x] = file[x] /\ Leads(x) /\ HoldTrue(x) /\ Near(x)
      BY <1>2, <2>2, <2>5
    <3>2. Leads(x)'
      BY <1>4, <3>1 DEF Leads, IsOpen, Slot, SelectInSeq
    <3>3. HoldTrue(x)'
      BY <1>3, <1>4, <3>1 DEF HoldTrue, Data
    <3>4. Near(x)'
      BY <1>4, <3>1 DEF Near, Data, IsOpen
    <3> QED
      BY <3>2, <3>3, <3>4
  <2> QED
    BY <2>3, <2>4, <2>5, FilesInvPartsNext
<1>5. CASE /\ Slot(n) = 0
           /\ root' = Append(root, [name |-> n, data |-> <<>>, max |-> 0])
           /\ file' = [file EXCEPT ![h] = g(Len(root'))]
  <2> DEFINE new == [name |-> n, data |-> <<>>, max |-> 0]
             l == Len(root) + 1
             r == Append(root, new)
  <2>1. new \in Entries /\ new.name = n /\ new.data = <<>> /\ new.max = 0
    BY DEF Entries
  <2> HIDE DEF new
  <2>2. /\ r \in Seq(Entries) /\ Len(r) = l /\ r[l] = new
        /\ \A i \in 1 .. Len(root) : r[i] = root[i]
    BY <1>1, <2>1, AppendProperties
  <2>3. DOMAIN r = 1 .. l
    BY <2>2, LenProperties
  <2>4. root' = r
    BY <1>5 DEF new
  <2> HIDE DEF r
  <2>5. l \in Nat /\ l \in 1 .. l /\ l # 0 /\ \A i \in 1 .. l : i \in 1 .. Len(root) \/ i = l
    BY <1>1
  <2>a. l - 1 = Len(root) /\ \A i \in 1 .. Len(root) : i \in 1 .. l /\ i # l /\ i < l
    BY <1>1
  <2> HIDE DEF l
  <2>6. /\ file'[h] = g(l) /\ \A x \in Handles \ {h} : file'[x] = file[x]
    BY <1>5, <2>2, <2>4 DEF VfsTypes
  <2>7. \A i \in 1 .. Len(root) : ~strcmpEqual(root[i].name, n)
    BY <1>5, SlotIs
  <2>8. Slot(n)' = l
    <3>1. strcmpEqual(r[l].name, n)
      BY <2>1, <2>2, SameName
    <3>2. \A i \in 1 .. l - 1 : ~strcmpEqual(r[i].name, n)
      BY <2>2, <2>7, <2>a
    <3>3. l \in 1 .. Len(r)
      BY <2>2, <2>5
    <3>4. SlotIn(r, n) = l
      BY <2>2, <3>1, <3>2, <3>3, SlotInIs
    <3> QED
      BY <2>4, <3>4 DEF Slot, SlotIn, SelectInSeq
  <2>9. ASSUME NEW m, Slot(m) # 0 PROVE Slot(m)' = Slot(m) /\ Slot(m) \in 1 .. Len(root)
    <3> DEFINE s == Slot(m)
    <3>1. /\ s \in 0 .. Len(root) /\ strcmpEqual(root[s].name, m)
          /\ \A i \in 1 .. s - 1 : ~strcmpEqual(root[i].name, m)
      BY <2>9, SlotIs
    <3>2. s # 0
      BY <2>9
    <3> HIDE DEF s
    <3>3. s \in 1 .. Len(root) /\ \A i \in 1 .. s - 1 : i \in 1 .. Len(root)
      BY <1>1, <3>1, <3>2
    <3>4. s \in 1 .. Len(r)
      BY <2>2, <2>a, <3>3
    <3>5. strcmpEqual(r[s].name, m) /\ \A i \in 1 .. s - 1 : ~strcmpEqual(r[i].name, m)
      BY <2>2, <3>1, <3>3
    <3>6. SlotIn(r, m) = s
      BY <2>2, <3>4, <3>5, SlotInIs
    <3>7. Slot(m)' = s
      BY <2>4, <3>6 DEF Slot, SlotIn, SelectInSeq
    <3> QED
      BY <3>3, <3>7 DEF s
  <2>10. NamesApart'
    <3> SUFFICES ASSUME NEW i \in 1 .. l, NEW j \in 1 .. l, i < j
                 PROVE  ~IsPrefix(r[j].name, r[i].name)
      BY <2>3, <2>4 DEF NamesApart
    <3>1. i \in 1 .. Len(root)
      BY <1>1 DEF l
    <3>2. CASE j = l
      <4>1. ~strcmpEqual(root[i].name, n) /\ r[i] = root[i] /\ r[j].name = n
        BY <2>1, <2>2, <2>7, <3>1, <3>2
      <4> QED
        BY <4>1 DEF strcmpEqual
    <3>3. CASE j # l
      <4>1. j \in 1 .. Len(root)
        BY <2>5, <3>3
      <4> QED
        BY <1>1, <1>2, <2>2, <3>1, <4>1 DEF NamesApart
    <3> QED
      BY <3>2, <3>3
  <2>11. DataFits'
    <3> SUFFICES ASSUME NEW i \in 1 .. l PROVE Len(r[i].data) <= r[i].max
      BY <2>3, <2>4 DEF DataFits
    <3>1. CASE i = l
      <4>1. r[i].data = <<>> /\ r[i].max = 0 /\ Len(<<>>) = 0
        BY <2>1, <2>2, <3>1, EmptySeq
      <4> QED
        BY <4>1
    <3>2. CASE i # l
      <4>1. i \in 1 .. Len(root) /\ r[i] = root[i]
        BY <2>2, <2>5, <3>2
      <4> QED
        BY <1>1, <1>2, <4>1 DEF DataFits
    <3> QED
      BY <3>1, <3>2
  <2>12. WildSought'
    BY <1>3 DEF WildSought
  <2>13. Leads(h)' /\ HoldTrue(h)' /\ Near(h)'
    <3>1. /\ file'[h].entry = l /\ file'[h].name = n
          /\ file'[h].at = 0 /\ file'[h].hold = EOF
      BY <1>0, <2>5, <2>6
    <3>2. Leads(h)'
      BY <2>8, <3>1 DEF Leads
    <3>3. HoldTrue(h)'
      BY <3>1 DEF HoldTrue
    <3>4. Near(h)'
      <4>1. r[l].data = <<>> /\ Len(<<>>) = 0
        BY <2>1, <2>2, EmptySeq
      <4>2. 0 <= Len(r[l].data)
        BY <4>1
      <4> QED
        BY <2>4, <3>1, <4>2 DEF Near, Data
    <3> QED
      BY <3>2, <3>3, <3>4
  <2>14. ASSUME NEW x \in Handles, x # h PROVE Leads(x)' /\ HoldTrue(x)' /\ Near(x)'
    <3>1. file'[x] = file[x] /\ Leads(x) /\ HoldTrue(x) /\ Near(x)
      BY <1>2, <2>6, <2>14
    <3>2. CASE ~IsOpen(x)
      <4>1. file[x] = Closed
        BY <3>2 DEF VfsTypes, Held, IsOpen
      <4> QED
        BY <3>1, <4>1 DEF Leads, HoldTrue, Near, IsOpen, Closed
    <3>3. CASE IsOpen(x)
      <4> DEFINE e == file[x].entry
      <4>1. e = Slot(file[x].name) /\ e # 0
        BY <3>1, <3>3 DEF Leads, IsOpen
      <4>2. Slot(file[x].name)' = e /\ e \in 1 .. Len(root)
        <5>0. PICK m : m = file[x].name
          OBVIOUS
        <5>1. Slot(m) = e
          BY <4>1, <5>0
        <5>2. m = file'[x].name
          BY <3>1, <5>0
        <5>3. Slot(m)' = e /\ e \in 1 .. Len(root)
          <6>1. Slot(m) # 0
            BY <4>1, <5>1
          <6> QED
            BY <2>9, <5>1, <6>1
        <5> QED
          BY <5>2, <5>3 DEF Slot, SelectInSeq
      <4>3. r[e] = root[e]
        BY <2>2, <4>2
      <4>4. Leads(x)'
        BY <3>1, <4>2 DEF Leads
      <4>5. HoldTrue(x)'
        BY <1>3, <2>4, <3>1, <4>3 DEF HoldTrue, Data
      <4>6. Near(x)'
        BY <2>4, <3>1, <3>3, <4>3 DEF Near, Data, IsOpen
      <4> QED
        BY <4>4, <4>5, <4>6
    <3> QED
      BY <3>2, <3>3
  <2> QED
    BY <2>10, <2>11, <2>12, <2>13, <2>14, FilesInvPartsNext
<1> QED
  BY <1>4, <1>5 DEF fopen, g

\* A put keeps the data inside the buffer, or was sought.
Putting(len, max, at, newmax, newlen) ==
  /\ len \in Nat /\ max \in Nat /\ at \in Nat /\ len <= max
  /\ newmax = (IF at >= max THEN max + GROW ELSE max)
  /\ newlen = (IF len <= at + 1 THEN at + 1 ELSE len)
LEMMA PutFits ==
  ASSUME NEW len, NEW max, NEW at, NEW newmax, NEW newlen, Putting(len, max, at, newmax, newlen)
  PROVE  /\ ~(at >= newmax) => newlen <= newmax
         /\ at >= newmax => at >= GROW /\ ~(at <= len)
         /\ at + 1 <= newlen /\ len <= newlen
<1> USE DEF Putting
<1>1. GROW \in Nat \ {0}
  BY VfsAssumption DEF VfsAssumption
<1>2. CASE at >= max
  BY <1>1, <1>2
<1>3. CASE ~(at >= max)
  BY <1>1, <1>3
<1> QED
  BY <1>2, <1>3

LEMMA FputcFiles ==
  ASSUME VfsTypes, FilesInv, ~wild, NEW h \in Handles, NEW ch \in DataBytes, fputc(h, ch)
  PROVE  FilesInv'
<1> DEFINE f == file[h]
           at == f.at
           o == at + 1
           g == [f EXCEPT !.at = o]
<1>1. /\ IsOpen(h) /\ file_entry_put(h, ch) /\ file' = [file EXCEPT ![h] = g]
      /\ moved' = moved \cup {x \in Handles : file[x].entry = file[h].entry /\ file[x].hold # EOF}
  BY DEF fputc
<1>2. /\ NamesApart /\ DataFits
      /\ \A x \in Handles : Leads(x) /\ HoldTrue(x) /\ Near(x)
  BY FilesInvParts
<1>3. PICK e : e = f.entry
  OBVIOUS
<1>4. /\ f \in Files /\ e \in 1 .. Len(root) /\ root[e] \in Entries
      /\ root[e].data \in Seq(Byte) /\ Len(root[e].data) \in Nat
  BY <1>1, <1>3, OpenFile DEF Data
<1>5. at \in Nat /\ o \in Nat /\ ch \in Byte /\ root[e].max \in Nat
  BY <1>4 DEF Files, Byte, Entries
<1>6. /\ root \in Seq(Entries) /\ Len(root) \in Nat /\ DOMAIN root = 1 .. Len(root)
  BY LenProperties DEF VfsTypes
<1>7. /\ root' \in Seq(Entries) /\ Len(root') = Len(root)
      /\ \A i \in 1 .. Len(root) : i # e => root'[i] = root[i]
      /\ root'[e].name = root[e].name
      /\ root'[e].data = Written(root[e].data, at, ch)
      /\ root'[e].max = Grown(root[e], at)
      /\ wild' = (at >= root'[e].max)
  BY <1>1, <1>3, PutIs
<1>8. /\ g \in Files /\ g.entry = e /\ g.name = f.name /\ g.at = o /\ g.hold = f.hold
  <2> HIDE DEF f, o
  <2> QED
    BY <1>3, <1>4, <1>5, SoughtFile
<1> HIDE DEF g
<1>9. file'[h] = g /\ \A x \in Handles \ {h} : file'[x] = file[x]
  BY <1>1 DEF VfsTypes
<1> DEFINE len == Len(root[e].data)
           max == root[e].max
           newmax == Grown(root[e], at)
           w == Written(root[e].data, at, ch)
           newlen == Len(w)
<1>10. newlen = (IF len <= at + 1 THEN at + 1 ELSE len) /\ w \in Seq(Byte)
  BY <1>4, <1>5, WrittenIs
<1>11. newmax = (IF at >= max THEN max + GROW ELSE max)
  BY DEF Grown
<1>12. len <= max
  BY <1>2, <1>4, <1>6 DEF DataFits
<1>13. /\ len \in Nat /\ max \in Nat
  BY <1>4, <1>5
<1>14. DOMAIN root' = 1 .. Len(root)
  BY <1>7, LenProperties
<1> HIDE DEF f, at, o, len, max, newmax, newlen, w
<1>15. /\ ~(at >= newmax) => newlen <= newmax
       /\ at >= newmax => at >= GROW /\ ~(at <= len)
       /\ at + 1 <= newlen /\ len <= newlen
  <2>1. Putting(len, max, at, newmax, newlen)
    BY <1>5, <1>10, <1>11, <1>12, <1>13 DEF Putting
  <2> QED
    BY <2>1, PutFits
<1>16. root'[e].data = w /\ Len(root'[e].data) = newlen /\ root'[e].max = newmax
       /\ wild' = (at >= newmax)
  BY <1>7 DEF w, newlen, newmax
<1>17. \A i \in 1 .. Len(root) : root'[i].name = root[i].name
  BY <1>7
<1>18. NamesApart'
  <2> SUFFICES ASSUME NEW i \in 1 .. Len(root), NEW j \in 1 .. Len(root), i < j
               PROVE  ~IsPrefix(root'[j].name, root'[i].name)
    BY <1>14 DEF NamesApart
  <2>1. ~IsPrefix(root[j].name, root[i].name)
    BY <1>2, <1>6 DEF NamesApart
  <2>2. root'[j].name = root[j].name /\ root'[i].name = root[i].name
    BY <1>17
  <2> QED
    BY <2>1, <2>2
<1>19. DataFits'
  <2> SUFFICES ASSUME ~wild', NEW i \in 1 .. Len(root) PROVE Len(root'[i].data) <= root'[i].max
    BY <1>14 DEF DataFits
  <2>1. CASE i = e
    BY <1>15, <1>16, <2>1
  <2>2. CASE i # e
    <3>1. Len(root[i].data) <= root[i].max
      BY <1>2, <1>6 DEF DataFits
    <3>2. root'[i] = root[i]
      BY <1>7, <2>2
    <3> QED
      BY <3>1, <3>2
  <2> QED
    BY <2>1, <2>2
<1>20. WildSought'
  <2> SUFFICES ASSUME wild' PROVE \E x \in Handles : \E p \in Offsets : file'[x].at = p + 1 /\ p >= GROW
    BY DEF WildSought
  <2>1. at >= GROW /\ ~(at <= len)
    BY <1>15, <1>16
  <2>2. at \in Offsets
    <3>1. Near(h) /\ Data(h) = root[e].data
      BY <1>2, <1>3 DEF Data, f
    <3> QED
      BY <1>1, <2>1, <3>1 DEF Near, at, f, len
  <2>3. file'[h].at = at + 1
    BY <1>8, <1>9 DEF o
  <2> QED
    BY <2>1, <2>2, <2>3
<1>21. ASSUME NEW n PROVE Slot(n)' = Slot(n)
  <2> DEFINE I == {i \in 1 .. Len(root) : strcmpEqual(root[i].name, n)}
             J == {i \in 1 .. Len(root') : strcmpEqual(root'[i].name, n)}
  <2>1. I = J
    BY <1>7, <1>17
  <2>2. Slot(n) = IF I # {} THEN Min(I) ELSE 0
    BY DEF Slot, SelectInSeq
  <2>3. Slot(n)' = IF J # {} THEN Min(J) ELSE 0
    BY DEF Slot, SelectInSeq
  <2> HIDE DEF I, J
  <2> QED
    BY <2>1, <2>2, <2>3
<1>22. ASSUME NEW x \in Handles PROVE Leads(x)'
  <2>1. file'[x].entry = file[x].entry /\ file'[x].name = file[x].name
    <3>1. CASE x = h
      BY <1>3, <1>8, <1>9, <3>1 DEF f
    <3>2. CASE x # h
      BY <1>9, <3>2
    <3> QED
      BY <3>1, <3>2
  <2>2. PICK n : n = file[x].name
    OBVIOUS
  <2>3. Slot(n)' = Slot(n)
    BY <1>21
  <2>4. IsOpen(x) => file[x].entry = Slot(n)
    BY <1>2, <2>2 DEF Leads
  <2>5. file'[x].name = n
    BY <2>1, <2>2
  <2>6. Slot(file[x].name)' = Slot(n)'
    BY <2>5 DEF Slot, SelectInSeq
  <2> QED
    BY <2>1, <2>3, <2>4, <2>6 DEF Leads, IsOpen
<1>23. HoldTrue(h)' /\ Near(h)'
  <2>1. HoldTrue(h)'
    <3>1. h \notin moved' => file[h].hold = EOF
      BY <1>1
    <3>2. file'[h].hold = file[h].hold
      BY <1>8, <1>9 DEF f
    <3> QED
      BY <3>1, <3>2 DEF HoldTrue
  <2>2. Near(h)'
    <3>1. file'[h].at = at + 1 /\ file'[h].entry = e
      BY <1>8, <1>9 DEF o
    <3>2. file'[h].at <= Len(root'[e].data)
      BY <1>15, <1>16, <3>1
    <3> QED
      BY <3>1, <3>2 DEF Near, Data
  <2> QED
    BY <2>1, <2>2
<1>24. ASSUME NEW x \in Handles, x # h PROVE HoldTrue(x)' /\ Near(x)'
  <2>1. file'[x] = file[x] /\ HoldTrue(x) /\ Near(x)
    BY <1>2, <1>9, <1>24
  <2>2. CASE ~IsOpen(x)
    <3>1. file[x] = Closed
      BY <2>2 DEF VfsTypes, Held, IsOpen
    <3> QED
      BY <2>1, <3>1 DEF HoldTrue, Near, IsOpen, Closed
  <2>3. CASE IsOpen(x) /\ file[x].entry = e
    <3>1. HoldTrue(x)'
      <4>1. x \notin moved' => file[x].hold = EOF
        BY <1>1, <1>3, <2>3 DEF f
      <4> QED
        BY <2>1, <4>1 DEF HoldTrue
    <3>2. Near(x)'
      <4>1. file[x].at <= len \/ file[x].at \in Offsets
        BY <2>1, <2>3 DEF Near, Data, len
      <4>2. file[x].at \in Nat /\ newlen \in Nat
        <5>1. file[x].at \in Nat
          BY <2>3, OpenFile DEF Files
        <5>2. newlen \in Nat
          BY <1>10, LenProperties DEF newlen
        <5> QED
          BY <5>1, <5>2
      <4>3. file[x].at <= newlen \/ file[x].at \in Offsets
        BY <1>13, <1>15, <4>1, <4>2
      <4> QED
        BY <1>16, <2>1, <2>3, <4>3 DEF Near, Data
    <3> QED
      BY <3>1, <3>2
  <2>4. CASE IsOpen(x) /\ file[x].entry # e
    <3>1. root'[file[x].entry] = root[file[x].entry]
      <4>1. file[x].entry \in 1 .. Len(root)
        BY <2>4, OpenFile
      <4> QED
        BY <1>7, <2>4, <4>1
    <3>2. x \notin moved' => x \notin moved
      BY <1>1
    <3>3. HoldTrue(x)'
      BY <2>1, <3>1, <3>2 DEF HoldTrue, Data
    <3>4. Near(x)'
      BY <2>1, <2>4, <3>1 DEF Near, Data, IsOpen
    <3> QED
      BY <3>3, <3>4
  <2> QED
    BY <2>2, <2>3, <2>4
<1> QED
  BY <1>18, <1>19, <1>20, <1>22, <1>23, <1>24, FilesInvPartsNext

LEMMA VfsInitFiles == VfsInit => FilesInv
<1> SUFFICES ASSUME VfsInit PROVE FilesInv
  OBVIOUS
<1>1. root = <<>> /\ DOMAIN root = {} /\ wild = FALSE
  BY DEF VfsInit
<1>2. \A h \in Handles : file[h] = Closed
  BY DEF VfsInit
<1>3. NamesApart /\ DataFits /\ WildSought
  BY <1>1 DEF NamesApart, DataFits, WildSought
<1>4. ASSUME NEW h \in Handles PROVE Leads(h) /\ HoldTrue(h) /\ Near(h)
  BY <1>2 DEF Leads, HoldTrue, Near, IsOpen, Closed
<1> QED
  BY <1>3, <1>4, FilesInvParts

LEMMA VfsNextFiles == VfsTypes /\ FilesInv /\ [VfsNext]_vfsVars => FilesInv'
<1> SUFFICES ASSUME VfsTypes, FilesInv, [VfsNext]_vfsVars PROVE FilesInv'
  OBVIOUS
<1>1. CASE UNCHANGED vfsVars
  BY <1>1, FilesUnchanged DEF vfsVars
<1>2. CASE VfsNext
  <2>1. ~wild
    BY <1>2, VfsSteps
  <2>2. ASSUME NEW h \in Handles, read_line(h) PROVE FilesInv'
    BY <2>2, FilesUnchanged DEF read_line
  <2>3. ASSUME NEW n \in FileNames, luaL_loadfile(n) PROVE FilesInv'
    BY <2>3, FilesUnchanged DEF luaL_loadfile
  <2>4. ASSUME Return PROVE FilesInv'
    BY <2>4, FilesUnchanged DEF Return
  <2> QED
    BY <1>2, <2>1, <2>2, <2>3, <2>4, VfsSteps, FopenFiles, FcloseFiles, FputcFiles, FseekFiles,
       TestEofFiles, ReadCharsFiles, ReadLineStepFiles
<1> QED
  BY <1>1, <1>2

\* However many files are made, put to, sought and closed: no name in root is
\* the beginning of an earlier one, each handle leads to the file its name
\* leads to, the data of a file stays inside its buffer unless a seek went
\* outside, and a byte that was pushed back is the one in front of the offset
\* as long as nobody sought or put.
THEOREM FilesBelong == VfsSpec => []FilesConsistent
<1>1. FilesInv => FilesConsistent
  BY DEF FilesInv
<1> QED
  BY <1>1, VfsInitTypes, VfsNextTypes, VfsInitFiles, VfsNextFiles, PTL DEF VfsSpec

-----------------------------------------------------------------------------
(* At the end of a file.                                                   *)

LEMMA EndStays == VfsTypes /\ AtEnd /\ [VfsNext]_vfsVars => AtEnd'
<1> SUFFICES ASSUME VfsTypes, AtEnd, [VfsNext]_vfsVars PROVE AtEnd'
  OBVIOUS
<1>1. CASE UNCHANGED vfsVars
  BY <1>1 DEF vfsVars, AtEnd, Ahead
<1>2. CASE VfsNext
  <2>1. reading.what = "line" /\ LineAhead = <<>>
    BY DEF AtEnd, LineAhead
  <2>2. ReadLineStep
    BY <1>2, <2>1, VfsSteps DEF fopen, fclose, fputc, fseek, test_eof, read_chars, read_line,
       BeginRead, luaL_loadfile, Return
  <2>3. PICK m, z, g : Turn(m, z, g)
    BY <2>2, TurnOf
  <2>4. m = 0 /\ z = 0
    <3>1. Len(LineAhead) = 0
      BY <2>1, EmptySeq
    <3>2. m \in 0 .. Len(LineAhead) /\ z \in 0 .. m
      BY <2>3 DEF Turn
    <3> HIDE DEF LineAhead
    <3> QED
      BY <3>1, <3>2
  <2>5. /\ root' = root /\ file' = [file EXCEPT ![reading.h] = g] /\ g = file[reading.h]
        /\ reading.h \in Handles
    BY <2>3, <2>4 DEF Turn
  <2>6. ~(z > 0)
    BY <2>4
  <2>7. reading'.what = "line" /\ reading'.h = reading.h
    BY <2>3, <2>6 DEF Turn
  <2>8. file'[reading.h] = file[reading.h]
    BY <2>5 DEF VfsTypes
  <2> QED
    BY <2>1, <2>5, <2>7, <2>8 DEF AtEnd, LineAhead, Ahead
<1> QED
  BY <1>1, <1>2

\* read_line at the end of a file has nothing ahead of it ever again, however
\* often it calls fgets: it does not return.
THEOREM EndIsForever == VfsSpec => StaysAtEnd
<1>1. VfsSpec => [](AtEnd => []AtEnd)
  BY VfsInitTypes, VfsNextTypes, EndStays, PTL DEF VfsSpec
<1> QED
  BY <1>1 DEF StaysAtEnd

-----------------------------------------------------------------------------
(* Lines.  read_line has handed over the first n bytes of what lay ahead.  *)

Rank(i) == Cardinality({j \in 1 .. i : Kept(j)})
Ranked(n) == \A z \in 1 .. Rank(n) : \E i \in 1 .. n : Kept(i) /\ Rank(i) = z
\* A chunk begins behind n: so many full buffers behind the last newline.
Boundary(n) ==
  \E nl \in 0 .. n, q \in 0 .. n :
    /\ n = nl + q * LUAL_BUFFERSIZE
    /\ nl # 0 => from[nl] = NL
    /\ \A j \in nl + 1 .. n : from[j] # NL
Overlong(i) == i - ChunkStart(i) = LUAL_BUFFERSIZE - 1
Progress(n) ==
  /\ Ahead(file[reading.h]) = SubSeq(from, n + 1, Len(from))
  /\ n # Len(from) => Boundary(n)
  /\ Ranked(n) /\ reading.got = KeptUpTo(n)
  /\ \A i \in 1 .. n : ~(from[i] = NL /\ Kept(i))
  /\ reading.over <=> \E i \in 1 .. n : Overlong(i)
LinesInv ==
  /\ reading.what = "line" => \E n \in 0 .. Len(from) : Progress(n)
  /\ reading.what = "returned" => LinesRead

LEMMA DivIs ==
  ASSUME NEW q \in Nat, NEW b \in Nat \ {0}, NEW r \in 0 .. b - 1, NEW x, x = q * b + r
  PROVE  x \div b = q
  OBVIOUS

\* The next m bytes, with no newline before the last of them, are one chunk.
LEMMA ChunkOf ==
  ASSUME NEW n \in Nat, NEW m \in Nat, Boundary(n), m <= LUAL_BUFFERSIZE,
         \A i \in n + 1 .. n + m - 1 : from[i] # NL,
         NEW i \in n + 1 .. n + m
  PROVE  ChunkStart(i) = n + 1
<1> DEFINE L == LUAL_BUFFERSIZE
           T == {0} \cup {j \in 1 .. i - 1 : from[j] = NL}
<1>1. L \in Nat \ {0} /\ i \in Nat
  BY VfsAssumption DEF VfsAssumption
<1>2. PICK nl \in 0 .. n, q \in 0 .. n :
         /\ n = nl + q * L
         /\ nl # 0 => from[nl] = NL
         /\ \A j \in nl + 1 .. n : from[j] # NL
  BY DEF Boundary
<1> HIDE DEF L
<1>3. nl \in T
  <2>1. CASE nl = 0
    BY <2>1
  <2>2. CASE nl # 0
    <3>1. nl \in 1 .. i - 1
      BY <1>1, <2>2
    <3> QED
      BY <1>2, <2>2, <3>1
  <2> QED
    BY <2>1, <2>2
<1>4. T \subseteq Int
  BY <1>1
<1>5. ASSUME NEW x \in T PROVE x <= nl
  <2>1. CASE x = 0
    BY <2>1
  <2>2. CASE x # 0
    <3>1. x \in 1 .. i - 1 /\ from[x] = NL
      BY <2>2
    <3>2. x \in nl + 1 .. n \/ x \in n + 1 .. n + m - 1 \/ x <= nl
      BY <1>1, <3>1
    <3> QED
      BY <1>2, <3>1, <3>2
  <2> QED
    BY <2>1, <2>2
<1>6. Max(T) = nl
  <2> HIDE DEF T
  <2> QED
    BY <1>3, <1>4, <1>5, MaxIs
<1>7. ChunkStart(i) = nl + 1 + ((i - nl - 1) \div L) * L
  BY <1>6 DEF ChunkStart, L
<1> DEFINE x == i - nl - 1
           r == i - n - 1
<1>8. q \in Nat /\ r \in 0 .. L - 1 /\ x = q * L + r
  <2>1. m <= L
    BY DEF L
  <2>2. r \in 0 .. L - 1
    BY <1>1, <2>1
  <2>3. q * L \in Nat
    BY <1>1
  <2> QED
    BY <1>1, <1>2, <2>2, <2>3
<1> HIDE DEF x, r
<1>9. x \div L = q
  BY <1>1, <1>8, DivIs
<1>10. ChunkStart(i) = nl + 1 + q * L
  BY <1>7, <1>9 DEF x
<1>11. nl + 1 + q * L = n + 1
  <2>1. q * L \in Nat
    BY <1>1, <1>8
  <2> QED
    BY <1>2, <2>1
<1> QED
  BY <1>10, <1>11

\* The next chunk begins behind it.
LEMMA ChunkEnd ==
  ASSUME NEW n \in Nat, NEW m \in Nat \ {0}, Boundary(n), m <= LUAL_BUFFERSIZE,
         \A i \in n + 1 .. n + m - 1 : from[i] # NL,
         m = LUAL_BUFFERSIZE \/ from[n + m] = NL
  PROVE  Boundary(n + m)
<1> DEFINE L == LUAL_BUFFERSIZE
           z == n + m
<1>1. L \in Nat \ {0} /\ z \in Nat /\ z \in 0 .. z /\ 0 \in 0 .. z
  BY VfsAssumption DEF VfsAssumption
<1>2. PICK nl \in 0 .. n, q \in 0 .. n :
         /\ n = nl + q * L
         /\ nl # 0 => from[nl] = NL
         /\ \A j \in nl + 1 .. n : from[j] # NL
  BY DEF Boundary
<1>3. m = L \/ from[z] = NL
  OBVIOUS
<1> HIDE DEF L
<1>4. CASE from[z] = NL
  <2>1. z = z + 0 * L /\ \A j \in z + 1 .. z : from[j] # NL
    BY <1>1
  <2> HIDE DEF z
  <2>2. Boundary(z)
    BY <1>1, <1>4, <2>1 DEF Boundary, L
  <2> QED
    BY <2>2 DEF z
<1>5. CASE from[z] # NL
  <2>1. m = L
    BY <1>3, <1>5
  <2>2. nl \in 0 .. z /\ q + 1 \in 0 .. z
    BY <1>1
  <2>3. z = nl + (q + 1) * L
    <3>1. (q + 1) * L = q * L + L /\ q * L \in Nat
      BY <1>1
    <3> QED
      BY <1>1, <1>2, <2>1, <3>1
  <2>4. \A j \in nl + 1 .. z : from[j] # NL
    <3> SUFFICES ASSUME NEW j \in nl + 1 .. z PROVE from[j] # NL
      OBVIOUS
    <3>1. j \in nl + 1 .. n \/ j \in n + 1 .. n + m - 1 \/ j = z
      OBVIOUS
    <3> QED
      BY <1>2, <1>5, <3>1
  <2> HIDE DEF z
  <2>5. Boundary(z)
    BY <1>2, <2>2, <2>3, <2>4 DEF Boundary, L
  <2> QED
    BY <2>5 DEF z
<1> QED
  BY <1>4, <1>5

\* How many bytes are kept among the first ones.
LEMMA RankIs ==
  ASSUME NEW n \in Nat
  PROVE  IsFiniteSet({j \in 1 .. n : Kept(j)}) /\ Rank(n) \in Nat
<1> DEFINE K == {j \in 1 .. n : Kept(j)}
           S == 1 .. n
<1>1. IsFiniteSet(S)
  BY FS_Interval
<1>2. K \in SUBSET S
  OBVIOUS
<1> HIDE DEF S
<1>3. IsFiniteSet(K)
  <2> HIDE DEF K
  <2> QED
    BY <1>1, <1>2, FS_Subset
<1>4. Cardinality(K) \in Nat
  <2> HIDE DEF K
  <2> QED
    BY <1>3, FS_CardinalityType
<1> QED
  BY <1>3, <1>4 DEF Rank

LEMMA RankGrows ==
  ASSUME NEW n \in Nat, NEW i \in Nat, i <= n
  PROVE  Rank(i) <= Rank(n)
<1> DEFINE K == {j \in 1 .. n : Kept(j)}
           I == {j \in 1 .. i : Kept(j)}
<1>1. IsFiniteSet(K)
  BY RankIs
<1>2. I \in SUBSET K
  <2> SUFFICES ASSUME NEW j \in I PROVE j \in K
    OBVIOUS
  <2>1. j \in 1 .. n
    OBVIOUS
  <2> QED
    BY <2>1
<1>3. Cardinality(I) <= Cardinality(K)
  <2> HIDE DEF K, I
  <2> QED
    BY <1>1, <1>2, FS_Subset
<1> QED
  BY <1>3 DEF Rank

\* z bytes are kept, then none up to p.
LEMMA RankPlus ==
  ASSUME NEW n \in Nat, NEW p \in Nat, NEW z \in 0 .. p,
         \A i \in n + 1 .. n + z : Kept(i), \A i \in n + z + 1 .. n + p : ~Kept(i)
  PROVE  Rank(n + p) = Rank(n) + z
<1> DEFINE K == {j \in 1 .. n : Kept(j)}
           I == n + 1 .. n + z
           W == {j \in 1 .. n + p : Kept(j)}
<1>1. IsFiniteSet(K) /\ Cardinality(K) \in Nat
  BY RankIs DEF Rank
<1>2. IsFiniteSet(I) /\ Cardinality(I) = z
  <2>1. n + 1 \in Int /\ n + z \in Int
    OBVIOUS
  <2>2. IsFiniteSet(I) /\ Cardinality(I) = IF n + 1 > n + z THEN 0 ELSE n + z - (n + 1) + 1
    BY <2>1, FS_Interval
  <2>3. (IF n + 1 > n + z THEN 0 ELSE n + z - (n + 1) + 1) = z
    OBVIOUS
  <2> QED
    BY <2>2, <2>3
<1>3. W = K \cup I
  <2>1. ASSUME NEW j \in W PROVE j \in K \cup I
    <3>1. j \in 1 .. n \/ j \in n + 1 .. n + z \/ j \in n + z + 1 .. n + p
      OBVIOUS
    <3> QED
      BY <3>1
  <2>2. ASSUME NEW j \in K PROVE j \in W
    <3>1. j \in 1 .. n + p
      OBVIOUS
    <3> QED
      BY <3>1
  <2>3. ASSUME NEW j \in I PROVE j \in W
    <3>1. j \in 1 .. n + p /\ j \in n + 1 .. n + z
      OBVIOUS
    <3> QED
      BY <3>1
  <2> HIDE DEF W, K, I
  <2> QED
    BY <2>1, <2>2, <2>3
<1>4. K \cap I = {}
  <2> SUFFICES ASSUME NEW j \in K, j \in I PROVE FALSE
    OBVIOUS
  <2>1. j \in 1 .. n /\ j \in n + 1 .. n + z
    OBVIOUS
  <2> QED
    BY <2>1
<1>5. Cardinality(K \cup I) = Cardinality(K) + Cardinality(I) - Cardinality(K \cap I)
  <2> HIDE DEF K, I
  <2> QED
    BY <1>1, <1>2, FS_Union
<1>6. Cardinality(K \cap I) = 0
  <2> HIDE DEF K, I
  <2> QED
    BY <1>4, FS_EmptySet
<1>7. Rank(n + p) = Cardinality(W) /\ Rank(n) = Cardinality(K)
  BY DEF Rank
<1> HIDE DEF K, I, W
<1>8. Cardinality(W) = Cardinality(K) + z
  BY <1>1, <1>2, <1>3, <1>5, <1>6
<1> QED
  BY <1>7, <1>8

\* No two kept bytes have the same rank.
LEMMA RankLess ==
  ASSUME NEW n \in Nat, NEW i \in Nat, i < n, Kept(n)
  PROVE  Rank(i) < Rank(n)
<1>1. n - 1 \in Nat /\ i <= n - 1 /\ n - 1 + 1 = n
  OBVIOUS
<1> DEFINE o == n - 1
<1>2. o \in Nat /\ i <= o /\ o + 1 = n
  BY <1>1
<1> HIDE DEF o
<1>3. 1 \in Nat /\ 1 \in 0 .. 1
  OBVIOUS
<1>4. \A j \in o + 1 .. o + 1 : Kept(j)
  BY <1>2
<1>5. \A j \in o + 1 + 1 .. o + 1 : ~Kept(j)
  BY <1>2
<1>6. Rank(o + 1) = Rank(o) + 1
  BY <1>2, <1>3, <1>4, <1>5, RankPlus
<1>7. Rank(i) <= Rank(o) /\ Rank(i) \in Nat /\ Rank(o) \in Nat
  BY <1>2, RankGrows, RankIs
<1> QED
  BY <1>2, <1>6, <1>7

LEMMA KeptAt ==
  ASSUME NEW n \in Nat, NEW i \in 1 .. n, Kept(i)
  PROVE  Rank(i) \in 1 .. Rank(n) /\ KeptUpTo(n)[Rank(i)] = from[i]
<1>1. Rank(i) \in 1 .. Rank(n)
  <2>1. i \in Nat /\ 0 \in Nat /\ 0 < i /\ i <= n
    OBVIOUS
  <2>2. Rank(i) <= Rank(n)
    BY <2>1, RankGrows
  <2>3. Rank(0) < Rank(i)
    BY <2>1, RankLess
  <2>4. Rank(i) \in Nat /\ Rank(0) \in Nat /\ Rank(n) \in Nat
    BY <2>1, RankIs
  <2> QED
    BY <2>2, <2>3, <2>4
<1> DEFINE P(x) == Kept(x) /\ Rank(x) = Rank(i)
<1>2. KeptUpTo(n) = [z \in 1 .. Rank(n) |-> from[CHOOSE x \in 1 .. n : Kept(x) /\ Rank(x) = z]]
  BY DEF KeptUpTo, Rank
<1>3. KeptUpTo(n)[Rank(i)] = from[CHOOSE x \in 1 .. n : P(x)]
  BY <1>1, <1>2
<1>4. ASSUME NEW x \in 1 .. n, P(x) PROVE x = i
  <2>1. x \in Nat /\ i \in Nat /\ Kept(x) /\ Rank(x) = Rank(i)
    BY <1>4
  <2>2. Rank(x) \in Nat
    BY <2>1, RankIs
  <2>3. CASE x < i
    BY <2>1, <2>2, <2>3, RankLess
  <2>4. CASE i < x
    BY <2>1, <2>2, <2>4, RankLess
  <2> QED
    BY <2>1, <2>3, <2>4
<1>5. i \in 1 .. n /\ P(i)
  OBVIOUS
<1> HIDE DEF P
<1>6. (CHOOSE x \in 1 .. n : P(x)) = i
  BY <1>4, <1>5
<1> QED
  BY <1>1, <1>3, <1>6

LEMMA KeptSeq ==
  ASSUME NEW n \in Nat, from \in Seq(Byte), n <= Len(from), Ranked(n)
  PROVE  KeptUpTo(n) \in Seq(Byte) /\ Len(KeptUpTo(n)) = Rank(n) /\ Rank(n) \in Nat
<1> DEFINE K == KeptUpTo(n)
           r == Rank(n)
<1>1. r \in Nat /\ Len(from) \in Nat
  BY RankIs, LenProperties
<1>2. K = [z \in 1 .. r |-> from[CHOOSE x \in 1 .. n : Kept(x) /\ Rank(x) = z]]
  BY DEF KeptUpTo, Rank
<1>3. ASSUME NEW z \in 1 .. r PROVE K[z] \in Byte
  <2>1. PICK i \in 1 .. n : Kept(i) /\ Rank(i) = z
    BY DEF Ranked
  <2>2. K[z] = from[i]
    BY <2>1, KeptAt
  <2>3. i \in 1 .. Len(from)
    BY <1>1
  <2> QED
    BY <2>2, <2>3, ElementOfSeq
<1> HIDE DEF r
<1>4. K \in [1 .. r -> Byte]
  <2>1. \A z \in 1 .. r : from[CHOOSE x \in 1 .. n : Kept(x) /\ Rank(x) = z] \in Byte
    BY <1>2, <1>3
  <2> HIDE DEF K
  <2> QED
    BY <1>2, <2>1
<1> HIDE DEF K
<1>5. K \in Seq(Byte) /\ DOMAIN K = 1 .. r
  BY <1>1, <1>4, SeqDef
<1>6. Len(K) = r
  BY <1>1, <1>5, LenProperties
<1> QED
  BY <1>1, <1>5, <1>6 DEF K, r

\* z more bytes are kept: they follow those before them.
LEMMA KeptMore ==
  ASSUME from \in Seq(Byte), NEW n \in Nat, NEW p \in Nat, NEW z \in 0 .. p, n + p <= Len(from),
         \A i \in n + 1 .. n + z : Kept(i), \A i \in n + z + 1 .. n + p : ~Kept(i),
         Ranked(n), NEW t \in Seq(Byte), Len(t) = z, \A j \in 1 .. z : t[j] = from[n + j]
  PROVE  Ranked(n + p) /\ KeptUpTo(n + p) = KeptUpTo(n) \o t
<1> DEFINE r == Rank(n)
           l == n + p
           U == KeptUpTo(l)
           W == KeptUpTo(n)
           V == W \o t
<1>1. r \in Nat /\ Len(from) \in Nat /\ z \in Nat /\ n <= Len(from) /\ l \in Nat /\ l <= Len(from)
  <2>1. r \in Nat /\ Len(from) \in Nat
    BY RankIs, LenProperties
  <2> QED
    BY <2>1
<1>2. Rank(l) = r + z
  BY RankPlus
<1>3. ASSUME NEW j \in 1 .. z
      PROVE  n + j \in 1 .. l /\ Kept(n + j) /\ Rank(n + j) = r + j
  <2>1. n + j \in 1 .. l /\ n + j \in n + 1 .. n + z /\ j \in Nat /\ j \in 0 .. j
    OBVIOUS
  <2>2. \A i \in n + 1 .. n + j : Kept(i)
    <3> SUFFICES ASSUME NEW i \in n + 1 .. n + j PROVE Kept(i)
      OBVIOUS
    <3>1. i \in n + 1 .. n + z
      OBVIOUS
    <3> QED
      BY <3>1
  <2>3. \A i \in n + j + 1 .. n + j : ~Kept(i)
    <3> SUFFICES ASSUME NEW i \in n + j + 1 .. n + j PROVE FALSE
      OBVIOUS
    <3> QED
      BY <2>1
  <2>4. Rank(n + j) = Rank(n) + j
    BY <2>1, <2>2, <2>3, RankPlus
  <2> QED
    BY <2>1, <2>4
<1>4. ASSUME NEW i \in 1 .. n PROVE i \in 1 .. l
  OBVIOUS
<1> HIDE DEF l, r
<1>5. ASSUME NEW x \in 1 .. r
      PROVE  \E i \in 1 .. n : i \in 1 .. l /\ Kept(i) /\ Rank(i) = x
  BY <1>4 DEF Ranked, r
<1>6. ASSUME NEW x \in 1 .. r + z
      PROVE  x \in 1 .. r \/ \E j \in 1 .. z : x = r + j
  <2>1. CASE x <= r
    BY <1>1, <2>1
  <2>2. CASE ~(x <= r)
    <3>1. x - r \in 1 .. z /\ x = r + (x - r)
      BY <1>1, <2>2
    <3> QED
      BY <3>1
  <2> QED
    BY <2>1, <2>2
<1>7. Ranked(l)
  <2> SUFFICES ASSUME NEW x \in 1 .. r + z PROVE \E i \in 1 .. l : Kept(i) /\ Rank(i) = x
    BY <1>2 DEF Ranked
  <2>1. CASE x \in 1 .. r
    BY <1>5, <2>1
  <2>2. CASE \E j \in 1 .. z : x = r + j
    BY <1>3, <2>2
  <2> QED
    BY <1>6, <2>1, <2>2
<1>8. U \in Seq(Byte) /\ Len(U) = r + z
  BY <1>1, <1>2, <1>7, KeptSeq
<1>9. W \in Seq(Byte) /\ Len(W) = r
  BY <1>1, KeptSeq DEF r
<1>10. ASSUME NEW x \in 1 .. r PROVE U[x] = W[x]
  <2>1. PICK i \in 1 .. n : i \in 1 .. l /\ Kept(i) /\ Rank(i) = x
    BY <1>5
  <2>2. U[x] = from[i] /\ W[x] = from[i]
    BY <1>1, <2>1, KeptAt
  <2> QED
    BY <2>2
<1>11. ASSUME NEW j \in 1 .. z PROVE U[r + j] = t[j]
  <2>1. n + j \in 1 .. l /\ Kept(n + j) /\ Rank(n + j) = r + j
    BY <1>3
  <2>2. U[r + j] = from[n + j]
    <3>1. U[Rank(n + j)] = from[n + j]
      BY <1>1, <2>1, KeptAt
    <3> QED
      BY <2>1, <3>1
  <2> QED
    BY <2>2
<1> HIDE DEF U, W
<1>12. /\ V \in Seq(Byte) /\ Len(V) = r + z
       /\ \A x \in 1 .. r + z : V[x] = IF x <= r THEN W[x] ELSE t[x - r]
  <2>1. /\ W \o t \in Seq(Byte) /\ Len(W \o t) = Len(W) + Len(t)
        /\ \A x \in 1 .. Len(W) + Len(t) :
             (W \o t)[x] = IF x <= Len(W) THEN W[x] ELSE t[x - Len(W)]
    BY <1>9, ConcatProperties
  <2>2. Len(W) = r /\ Len(t) = z
    BY <1>9
  <2> QED
    BY <2>1, <2>2
<1> HIDE DEF V
<1>13. ASSUME NEW x \in 1 .. Len(U) PROVE U[x] = V[x]
  <2>0. x \in 1 .. r + z
    BY <1>8
  <2>1. CASE x \in 1 .. r
    <3>1. x <= r
      BY <1>1, <2>1
    <3> QED
      BY <1>10, <1>12, <2>0, <2>1, <3>1
  <2>2. CASE \E j \in 1 .. z : x = r + j
    <3>1. PICK j \in 1 .. z : x = r + j
      BY <2>2
    <3>2. ~(x <= r) /\ x - r = j
      BY <1>1, <3>1
    <3>3. U[x] = t[j]
      BY <1>11, <3>1
    <3> QED
      BY <1>12, <2>0, <3>2, <3>3
  <2> QED
    BY <1>6, <2>0, <2>1, <2>2
<1>14. U = V
  BY <1>8, <1>12, <1>13, SeqEqual
<1> QED
  BY <1>7, <1>14 DEF l, U, V, W

\* What is known of a line depends on what lay ahead of it alone.
LEMMA SameFrom ==
  ASSUME from' = from
  PROVE  /\ \A i : Kept(i)' = Kept(i)
         /\ \A i : ChunkStart(i)' = ChunkStart(i)
         /\ \A n : KeptUpTo(n)' = KeptUpTo(n)
         /\ LineEnds' = LineEnds
<1>1. ASSUME NEW i PROVE ChunkStart(i)' = ChunkStart(i)
  BY DEF ChunkStart
<1>2. ASSUME NEW i PROVE Kept(i)' = Kept(i)
  BY <1>1 DEF Kept
<1>3. ASSUME NEW n PROVE KeptUpTo(n)' = KeptUpTo(n)
  BY DEF KeptUpTo, Kept, ChunkStart
<1>4. LineEnds' = LineEnds
  BY <1>2 DEF LineEnds
<1> QED
  BY <1>1, <1>2, <1>3, <1>4

\* What Progress says of the other bytes, and of what is kept of the next m.
LEMMA NextChunk ==
  ASSUME VfsTypes, NEW n \in 0 .. Len(from), Progress(n), NEW m, NEW z, NEW g, Turn(m, z, g)
  PROVE  /\ n \in Nat /\ Len(from) \in Nat /\ m \in Nat /\ z \in 0 .. m /\ n + m <= Len(from)
         /\ Len(LineAhead) = Len(from) - n /\ LineAhead \in Seq(Byte)
         /\ \A j \in 1 .. m : j \in 1 .. Len(LineAhead) /\ LineAhead[j] = from[n + j]
         /\ \A i \in n + 1 .. n + m - 1 : from[i] # NL
         /\ \A i \in n + 1 .. n + z : Kept(i)
         /\ \A i \in n + z + 1 .. n + m : ~Kept(i)
         /\ (\E i \in 1 .. n + m : Overlong(i)) <=> (reading.over \/ m = LUAL_BUFFERSIZE)
         /\ n + m # Len(from) => Boundary(n + m)
         /\ SubSeq(LineAhead, m + 1, Len(LineAhead)) = SubSeq(from, n + m + 1, Len(from))
<1> DEFINE A == LineAhead
           L == LUAL_BUFFERSIZE
<1>1. L \in Nat \ {0} /\ from \in Seq(Byte) /\ Len(from) \in Nat /\ n \in Nat
  <2>1. from \in Seq(Byte) /\ Len(from) \in Nat
    BY LenProperties DEF VfsTypes
  <2> QED
    BY <2>1, VfsAssumption DEF VfsAssumption
<1>2. /\ m \in 0 .. Len(A) /\ z \in 0 .. m /\ m <= L /\ (A # <<>> => m > 0)
      /\ m = L \/ m = Len(A) \/ A[m] = NL
      /\ \A i \in 1 .. m - 1 : A[i] # NL
      /\ \A i \in 1 .. z : A[i] # "nul"
      /\ z # m => A[z + 1] = "nul"
  BY DEF Turn
<1>3. A = SubSeq(from, n + 1, Len(from))
  BY DEF Progress, LineAhead
<1> HIDE DEF A, L
<1>4. /\ A \in Seq(Byte) /\ Len(A) \in Nat
      /\ Len(A) = IF n < Len(from) THEN Len(from) - n ELSE 0
      /\ \A i \in 1 .. Len(A) : A[i] = from[n + i]
  BY <1>1, <1>3, Rest
<1>5. /\ Len(A) = Len(from) - n /\ m \in Nat /\ n + m <= Len(from) /\ z \in Nat
      /\ \A j \in 1 .. m : j \in 1 .. Len(A)
  BY <1>1, <1>2, <1>4
<1>6. \A j \in 1 .. m : A[j] = from[n + j]
  BY <1>4, <1>5
<1>7. \A i \in n + 1 .. n + m : i - n \in 1 .. m /\ n + (i - n) = i /\ from[i] = A[i - n]
  <2> SUFFICES ASSUME NEW i \in n + 1 .. n + m
               PROVE  i - n \in 1 .. m /\ n + (i - n) = i /\ from[i] = A[i - n]
    OBVIOUS
  <2>1. i - n \in 1 .. m /\ n + (i - n) = i
    BY <1>1, <1>5
  <2> QED
    BY <1>6, <2>1
<1>8. \A i \in n + 1 .. n + m - 1 : from[i] # NL
  <2> SUFFICES ASSUME NEW i \in n + 1 .. n + m - 1 PROVE from[i] # NL
    OBVIOUS
  <2>1. i \in n + 1 .. n + m /\ i - n \in 1 .. m - 1
    BY <1>1, <1>5
  <2> QED
    BY <1>2, <1>7, <2>1
<1>9. m # 0 => n # Len(from) /\ Boundary(n)
  <2>1. m # 0 => n # Len(from)
    BY <1>1, <1>5
  <2> QED
    BY <2>1 DEF Progress
<1>10. ASSUME NEW i \in n + 1 .. n + m PROVE ChunkStart(i) = n + 1
  <2>1. m # 0
    BY <1>1, <1>5
  <2>2. m <= LUAL_BUFFERSIZE
    BY <1>2 DEF L
  <2> QED
    BY <1>1, <1>5, <1>8, <1>9, <2>1, <2>2, ChunkOf
<1>11. ASSUME NEW i \in n + 1 .. n + z PROVE Kept(i)
  <2>1. i \in n + 1 .. n + m
    BY <1>1, <1>2, <1>5
  <2>2. ChunkStart(i) = n + 1
    BY <1>10, <2>1
  <2> SUFFICES ASSUME NEW j \in n + 1 .. i PROVE from[j] # "nul"
    BY <2>2 DEF Kept
  <2>3. j \in n + 1 .. n + m /\ j - n \in 1 .. z
    BY <1>1, <1>2, <1>5
  <2> QED
    BY <1>2, <1>7, <2>3
<1>12. ASSUME NEW i \in n + z + 1 .. n + m PROVE ~Kept(i)
  <2>1. /\ i \in n + 1 .. n + m /\ n + z + 1 \in n + 1 .. i /\ n + z + 1 \in n + 1 .. n + m
        /\ n + z + 1 - n = z + 1 /\ z # m
    BY <1>1, <1>2, <1>5
  <2>2. ChunkStart(i) = n + 1
    BY <1>10, <2>1
  <2>3. from[n + z + 1] = "nul"
    <3>1. z + 1 \in 1 .. m /\ n + (z + 1) = n + z + 1
      BY <1>1, <1>2, <1>5, <2>1
    <3>2. A[z + 1] = from[n + (z + 1)]
      BY <1>6, <3>1
    <3> QED
      BY <1>2, <2>1, <3>1, <3>2
  <2> QED
    BY <2>1, <2>2, <2>3 DEF Kept
<1>13. (\E i \in 1 .. n + m : Overlong(i)) <=> (reading.over \/ m = L)
  <2>1. reading.over <=> \E i \in 1 .. n : Overlong(i)
    BY DEF Progress
  <2>2. ASSUME NEW i \in 1 .. n + m, Overlong(i) PROVE reading.over \/ m = L
    <3>1. CASE i <= n
      <4>1. i \in 1 .. n
        BY <1>1, <3>1
      <4> QED
        BY <2>1, <2>2, <4>1
    <3>2. CASE ~(i <= n)
      <4>1. i \in n + 1 .. n + m
        BY <1>1, <1>5, <3>2
      <4>2. i - (n + 1) = L - 1
        BY <1>10, <2>2, <4>1 DEF Overlong, L
      <4>3. m = L
        BY <1>1, <1>2, <1>5, <4>1, <4>2
      <4> QED
        BY <4>3
    <3> QED
      BY <3>1, <3>2
  <2>3. ASSUME reading.over PROVE \E i \in 1 .. n + m : Overlong(i)
    <3>1. PICK i \in 1 .. n : Overlong(i)
      BY <2>1, <2>3
    <3>2. i \in 1 .. n + m
      BY <1>1, <1>5
    <3> QED
      BY <3>1, <3>2
  <2>4. ASSUME m = L PROVE \E i \in 1 .. n + m : Overlong(i)
    <3> DEFINE i == n + m
    <3>1. i \in n + 1 .. n + m /\ i \in 1 .. n + m /\ i - (n + 1) = L - 1
      BY <1>1, <1>5, <2>4
    <3> HIDE DEF i
    <3>2. ChunkStart(i) = n + 1
      BY <1>10, <3>1
    <3> QED
      BY <3>1, <3>2 DEF Overlong, L
  <2> QED
    BY <2>2, <2>3, <2>4
<1>14. n + m # Len(from) => Boundary(n + m)
  <2> SUFFICES ASSUME n + m # Len(from) PROVE Boundary(n + m)
    OBVIOUS
  <2>1. m # Len(A) /\ m # 0
    <3>1. m # Len(A)
      BY <1>1, <1>5
    <3>2. A = <<>> => Len(A) = 0
      BY EmptySeq
    <3> QED
      BY <1>2, <1>4, <1>5, <3>1, <3>2
  <2>2. m \in Nat \ {0} /\ m <= LUAL_BUFFERSIZE /\ (m = LUAL_BUFFERSIZE \/ from[n + m] = NL)
    <3>1. m \in 1 .. m
      BY <1>5, <2>1
    <3>2. from[n + m] = A[m]
      BY <1>6, <3>1
    <3> QED
      BY <1>2, <1>5, <2>1, <3>2 DEF L
  <2> QED
    BY <1>1, <1>8, <1>9, <2>1, <2>2, ChunkEnd
<1>15. SubSeq(A, m + 1, Len(A)) = SubSeq(from, n + m + 1, Len(from))
  <2> DEFINE U == SubSeq(A, m + 1, Len(A))
             V == SubSeq(from, n + m + 1, Len(from))
  <2>1. /\ U \in Seq(Byte) /\ Len(U) \in Nat
        /\ Len(U) = IF m < Len(A) THEN Len(A) - m ELSE 0
        /\ \A i \in 1 .. Len(U) : U[i] = A[m + i]
    BY <1>4, <1>5, Rest
  <2>2. /\ V \in Seq(Byte) /\ Len(V) \in Nat
        /\ Len(V) = IF n + m < Len(from) THEN Len(from) - (n + m) ELSE 0
        /\ \A i \in 1 .. Len(V) : V[i] = from[n + m + i]
    <3>1. n + m \in Nat
      BY <1>1, <1>5
    <3> QED
      BY <1>1, <3>1, Rest
  <2> HIDE DEF U, V
  <2>3. Len(U) = Len(V)
    BY <1>1, <1>5, <2>1, <2>2
  <2>4. ASSUME NEW i \in 1 .. Len(U) PROVE U[i] = V[i]
    <3>1. i \in 1 .. Len(V) /\ m + i \in 1 .. Len(A) /\ n + (m + i) = n + m + i
      BY <1>1, <1>4, <1>5, <2>1, <2>3
    <3>2. A[m + i] = from[n + (m + i)]
      BY <1>4, <3>1
    <3> QED
      BY <2>1, <2>2, <3>1, <3>2
  <2>5. U = V
    BY <2>1, <2>2, <2>3, <2>4, SeqEqual
  <2> QED
    BY <2>5 DEF U, V
<1> QED
  BY <1>1, <1>2, <1>4, <1>5, <1>6, <1>8, <1>11, <1>12, <1>13, <1>14, <1>15 DEF A, L

\* A turn that finds the end of a line.
LEMMA LineFound ==
  ASSUME VfsTypes, NEW n \in 0 .. Len(from), Progress(n), NEW m, NEW z, NEW g, Turn(m, z, g),
         z > 0, LineAhead[z] = NL
  PROVE  /\ Min(LineEnds) = n + m /\ LineEnds # {}
         /\ reading.got \o SubSeq(LineAhead, 1, z - 1) = KeptUpTo(n + m - 1)
<1> DEFINE A == LineAhead
<1>1. /\ n \in Nat /\ Len(from) \in Nat /\ m \in Nat /\ z \in 0 .. m /\ n + m <= Len(from)
      /\ A \in Seq(Byte) /\ Len(A) = Len(from) - n
      /\ \A j \in 1 .. m : j \in 1 .. Len(A) /\ A[j] = from[n + j]
      /\ \A i \in n + 1 .. n + m - 1 : from[i] # NL
      /\ \A i \in n + 1 .. n + z : Kept(i)
  BY NextChunk
<1>2. /\ \A i \in 1 .. m - 1 : A[i] # NL
      /\ Ranked(n) /\ reading.got = KeptUpTo(n)
      /\ \A i \in 1 .. n : ~(from[i] = NL /\ Kept(i))
      /\ from \in Seq(Byte)
  BY DEF Turn, Progress, VfsTypes
<1>0. A[z] = NL
  OBVIOUS
<1> HIDE DEF A
<1>3. z = m /\ m > 0
  <2>1. z \in 1 .. m - 1 \/ z = m
    BY <1>1
  <2> QED
    BY <1>0, <1>1, <1>2, <2>1
<1> DEFINE l == n + m
<1>4. l \in LineEnds
  <2>1. l \in 1 .. Len(from) /\ l \in n + 1 .. n + z /\ m \in 1 .. m
    BY <1>1, <1>3
  <2>2. from[l] = NL /\ Kept(l) /\ DOMAIN from = 1 .. Len(from)
    <3>1. A[m] = from[n + m]
      BY <1>1, <2>1
    <3> QED
      BY <1>0, <1>1, <1>2, <1>3, <2>1, <3>1, LenProperties
  <2> HIDE DEF l
  <2> QED
    BY <2>1, <2>2 DEF LineEnds
<1>5. LineEnds \subseteq Int
  <2>1. DOMAIN from = 1 .. Len(from)
    BY <1>2, LenProperties
  <2> QED
    BY <1>1, <2>1 DEF LineEnds
<1>6. ASSUME NEW x \in LineEnds PROVE l <= x
  <2>1. x \in 1 .. Len(from) /\ from[x] = NL /\ Kept(x)
    BY <1>2, LenProperties DEF LineEnds
  <2>2. x \in 1 .. n \/ x \in n + 1 .. n + m - 1 \/ l <= x
    BY <1>1, <2>1
  <2> QED
    BY <1>1, <1>2, <2>1, <2>2
<1>7. Min(LineEnds) = l
  <2> HIDE DEF l
  <2> QED
    BY <1>4, <1>5, <1>6, MinIs
<1> DEFINE p == m - 1
           t == SubSeq(A, 1, p)
<1>8. p \in Nat /\ p \in 0 .. p /\ n + p <= Len(from) /\ p \in 0 .. Len(A) /\ z - 1 = p
      /\ n + m - 1 = n + p
  BY <1>1, <1>3
<1>9. /\ \A i \in n + 1 .. n + p : Kept(i)
      /\ \A i \in n + p + 1 .. n + p : ~Kept(i)
  <2>1. \A i \in n + 1 .. n + p : i \in n + 1 .. n + z
    BY <1>1, <1>3
  <2>2. n + p + 1 .. n + p = {}
    BY <1>1, <1>8
  <2> QED
    BY <1>1, <2>1, <2>2
<1>10. t \in Seq(Byte) /\ Len(t) = p /\ \A j \in 1 .. p : t[j] = A[j]
  BY <1>1, <1>8, FrontPart
<1>11. \A j \in 1 .. p : j \in 1 .. m
  BY <1>1
<1> HIDE DEF p, t
<1>12. \A j \in 1 .. p : t[j] = from[n + j]
  BY <1>1, <1>10, <1>11
<1>13. KeptUpTo(n + p) = KeptUpTo(n) \o t
  BY <1>1, <1>2, <1>8, <1>9, <1>10, <1>12, KeptMore
<1> QED
  BY <1>2, <1>4, <1>7, <1>8, <1>13 DEF A, t

\* A turn that does not find it goes on behind its chunk.
LEMMA LineGoesOn ==
  ASSUME VfsTypes, NEW n \in 0 .. Len(from), Progress(n), NEW m, NEW z, NEW g, Turn(m, z, g),
         ~(z > 0 /\ LineAhead[z] = NL)
  PROVE  /\ Ranked(n + m)
         /\ reading.got \o SubSeq(LineAhead, 1, z) = KeptUpTo(n + m)
         /\ \A i \in 1 .. n + m : ~(from[i] = NL /\ Kept(i))
<1> DEFINE A == LineAhead
<1>1. /\ n \in Nat /\ Len(from) \in Nat /\ m \in Nat /\ z \in 0 .. m /\ n + m <= Len(from)
      /\ A \in Seq(Byte) /\ Len(A) = Len(from) - n
      /\ \A j \in 1 .. m : j \in 1 .. Len(A) /\ A[j] = from[n + j]
      /\ \A i \in n + 1 .. n + m - 1 : from[i] # NL
      /\ \A i \in n + 1 .. n + z : Kept(i)
      /\ \A i \in n + z + 1 .. n + m : ~Kept(i)
  BY NextChunk
<1>2. /\ Ranked(n) /\ reading.got = KeptUpTo(n)
      /\ \A i \in 1 .. n : ~(from[i] = NL /\ Kept(i))
      /\ from \in Seq(Byte)
  BY DEF Progress, VfsTypes
<1>0. ~(z > 0 /\ A[z] = NL)
  OBVIOUS
<1> HIDE DEF A
<1> DEFINE t == SubSeq(A, 1, z)
<1>3. z \in 0 .. Len(A) /\ \A j \in 1 .. z : j \in 1 .. m
  BY <1>1
<1>4. t \in Seq(Byte) /\ Len(t) = z /\ \A j \in 1 .. z : t[j] = A[j]
  BY <1>1, <1>3, FrontPart
<1> HIDE DEF t
<1>5. \A j \in 1 .. z : t[j] = from[n + j]
  BY <1>1, <1>3, <1>4
<1>6. Ranked(n + m) /\ KeptUpTo(n + m) = KeptUpTo(n) \o t
  BY <1>1, <1>2, <1>4, <1>5, KeptMore
<1>7. ASSUME NEW i \in 1 .. n + m, from[i] = NL, Kept(i) PROVE FALSE
  <2>1. i \in 1 .. n \/ i \in n + 1 .. n + m - 1 \/ (i = n + m /\ m > 0)
    BY <1>1
  <2>2. i = n + m /\ m > 0
    BY <1>1, <1>2, <1>7, <2>1
  <2>3. i \in n + z + 1 .. n + m \/ z = m
    BY <1>1, <2>2
  <2>4. z = m /\ m \in 1 .. m
    BY <1>1, <1>7, <2>2, <2>3
  <2>5. A[m] = from[n + m]
    BY <1>1, <2>4
  <2> QED
    BY <1>0, <1>7, <2>2, <2>4, <2>5
<1> QED
  BY <1>2, <1>6, <1>7 DEF A, t

LEMMA LinesTurn ==
  ASSUME VfsTypes, LinesInv, ReadLineStep
  PROVE  LinesInv'
<1>1. PICK m, z, g : Turn(m, z, g)
  BY TurnOf
<1>2. reading.what = "line" /\ from' = from /\ root' = root /\ reading.h \in Handles
      /\ file' = [file EXCEPT ![reading.h] = g]
      /\ Ahead(g) = SubSeq(LineAhead, m + 1, Len(LineAhead))
  BY <1>1 DEF Turn
<1>3. PICK n \in 0 .. Len(from) : Progress(n)
  BY <1>2 DEF LinesInv
<1> DEFINE l == n + m
<1>4. /\ n \in Nat /\ Len(from) \in Nat /\ m \in Nat /\ l <= Len(from)
      /\ (\E i \in 1 .. l : Overlong(i)) <=> (reading.over \/ m = LUAL_BUFFERSIZE)
      /\ l # Len(from) => Boundary(l)
      /\ SubSeq(LineAhead, m + 1, Len(LineAhead)) = SubSeq(from, l + 1, Len(from))
  BY <1>1, <1>3, NextChunk
<1>5. l \in 0 .. Len(from)
  BY <1>4
<1>6. /\ \A i : Kept(i)' = Kept(i)
      /\ \A i : ChunkStart(i)' = ChunkStart(i)
      /\ \A i : KeptUpTo(i)' = KeptUpTo(i)
      /\ LineEnds' = LineEnds
  BY <1>2, SameFrom
<1>7. CASE z > 0 /\ LineAhead[z] = NL
  <2>0. /\ Min(LineEnds) = n + m /\ LineEnds # {}
        /\ reading.got \o SubSeq(LineAhead, 1, z - 1) = KeptUpTo(n + m - 1)
    <3>1. z > 0 /\ LineAhead[z] = NL
      BY <1>7
    <3> HIDE DEF LineAhead
    <3> QED
      BY <1>1, <1>3, <3>1, LineFound
  <2>1. /\ Min(LineEnds) = l /\ LineEnds # {}
        /\ reading.got \o SubSeq(LineAhead, 1, z - 1) = KeptUpTo(l - 1)
    <3>1. n + m - 1 = l - 1
      BY <1>4
    <3> HIDE DEF l
    <3>2. l = n + m
      BY DEF l
    <3> QED
      BY <2>0, <3>1, <3>2
  <2>2. /\ reading'.what = "returned"
        /\ reading'.got = reading.got \o SubSeq(LineAhead, 1, z - 1)
        /\ reading'.over = (reading.over \/ m = LUAL_BUFFERSIZE)
    BY <1>1, <1>7 DEF Turn
  <2> HIDE DEF l
  <2>3. reading'.got = KeptUpTo(Min(LineEnds) - 1)
    BY <2>1, <2>2
  <2>4. reading'.over <=> \E i \in 1 .. Min(LineEnds) : i - ChunkStart(i) = LUAL_BUFFERSIZE - 1
    BY <1>4, <2>1, <2>2 DEF Overlong
  <2>5. reading'.got = KeptUpTo(Min(LineEnds) - 1)'
    <3>1. PICK x : x = Min(LineEnds) - 1
      OBVIOUS
    <3>2. x = Min(LineEnds') - 1 /\ KeptUpTo(x)' = KeptUpTo(x)
      BY <1>6, <3>1
    <3>3. reading'.got = KeptUpTo(x)'
      BY <2>3, <3>1, <3>2
    <3> QED
      BY <3>2, <3>3 DEF KeptUpTo
  <2>6. reading'.over <=> \E i \in 1 .. Min(LineEnds') : i - ChunkStart(i)' = LUAL_BUFFERSIZE - 1
    BY <1>6, <2>4
  <2>7. ~AtEnd'
    BY <2>2 DEF AtEnd
  <2>8. LinesRead'
    BY <1>6, <2>1, <2>5, <2>6, <2>7 DEF LinesRead
  <2> QED
    BY <2>2, <2>8 DEF LinesInv
<1>8. CASE ~(z > 0 /\ LineAhead[z] = NL)
  <2>1. /\ Ranked(l)
        /\ reading.got \o SubSeq(LineAhead, 1, z) = KeptUpTo(l)
        /\ \A i \in 1 .. l : ~(from[i] = NL /\ Kept(i))
    BY <1>1, <1>3, <1>8, LineGoesOn
  <2>2. /\ reading'.what = "line" /\ reading'.h = reading.h
        /\ reading'.got = reading.got \o SubSeq(LineAhead, 1, z)
        /\ reading'.over = (reading.over \/ m = LUAL_BUFFERSIZE)
    BY <1>1, <1>8 DEF Turn
  <2> HIDE DEF l
  <2>3. Ahead(file[reading.h])' = SubSeq(from, l + 1, Len(from))
    <3>1. file'[reading.h] = g
      BY <1>2 DEF VfsTypes
    <3>2. Ahead(g) = SubSeq(from, l + 1, Len(from))
      BY <1>2, <1>4
    <3> QED
      BY <1>2, <2>2, <3>1, <3>2 DEF Ahead
  <2>4. l # Len(from') => Boundary(l)'
    BY <1>2, <1>4 DEF Boundary
  <2>5. Ranked(l)'
    BY <1>6, <2>1 DEF Ranked, Rank
  <2>6. reading'.got = KeptUpTo(l)'
    BY <1>6, <2>1, <2>2
  <2>7. \A i \in 1 .. l : ~(from'[i] = NL /\ Kept(i)')
    BY <1>2, <1>6, <2>1
  <2>8. reading'.over <=> \E i \in 1 .. l : Overlong(i)'
    BY <1>4, <1>6, <2>2 DEF Overlong
  <2>9. Progress(l)'
    BY <1>2, <2>3, <2>4, <2>5, <2>6, <2>7, <2>8 DEF Progress
  <2> QED
    BY <1>2, <1>5, <2>2, <2>9 DEF LinesInv
<1> QED
  BY <1>7, <1>8

\* A read of a line begins with nothing.
LEMMA LinesBegin ==
  ASSUME VfsTypes, NEW h \in Handles, read_line(h)
  PROVE  LinesInv'
<1>1. /\ IsOpen(h) /\ root' = root /\ file' = file
      /\ reading' = [what |-> "line", h |-> h, got |-> <<>>, over |-> FALSE]
      /\ from' = Ahead(file[h])
  BY DEF read_line, BeginRead
<1>2. PICK a : a = Ahead(file[h])
  OBVIOUS
<1>3. a \in Seq(Byte) /\ from' = a /\ Len(a) \in Nat
  <2>1. a \in Seq(Byte)
    BY <1>1, <1>2, OpenFile
  <2> QED
    BY <1>1, <1>2, <2>1, LenProperties
<1>4. reading'.what = "line" /\ reading'.h = h /\ reading'.got = <<>> /\ reading'.over = FALSE
  BY <1>1
<1>5. Ahead(file[reading.h])' = SubSeq(from', 0 + 1, Len(from'))
  <2>1. Ahead(file[reading.h])' = a
    BY <1>1, <1>2, <1>4 DEF Ahead
  <2>2. SubSeq(a, 1, Len(a)) = a
    BY <1>3, SubSeqFull
  <2> QED
    BY <1>3, <2>1, <2>2
<1>6. Boundary(0)'
  <2>1. 0 \in 0 .. 0 /\ 0 = 0 + 0 * LUAL_BUFFERSIZE /\ \A j \in 0 + 1 .. 0 : FALSE
    BY VfsAssumption DEF VfsAssumption
  <2> QED
    BY <2>1 DEF Boundary
<1>8. 1 .. Rank(0)' = {}
  <2>1. {j \in 1 .. 0 : Kept(j)'} = {}
    OBVIOUS
  <2>2. Rank(0)' = Cardinality({})
    BY <2>1 DEF Rank
  <2>3. Cardinality({}) = 0
    BY FS_EmptySet
  <2> QED
    BY <2>2, <2>3
<1>9. Ranked(0)'
  BY <1>8 DEF Ranked
<1>10. KeptUpTo(0)' = <<>>
  <2>1. DOMAIN KeptUpTo(0)' = {}
    BY <1>8 DEF KeptUpTo, Rank
  <2>2. KeptUpTo(0)' = [x \in {} |-> 0]
    BY <1>8 DEF KeptUpTo, Rank
  <2>3. <<>> = [x \in {} |-> 0]
    OBVIOUS
  <2> QED
    BY <2>2, <2>3
<1>11. \A i \in 1 .. 0 : FALSE
  OBVIOUS
<1>12. Progress(0)'
  BY <1>4, <1>5, <1>6, <1>9, <1>10, <1>11 DEF Progress
<1>13. 0 \in 0 .. Len(from')
  BY <1>3
<1> QED
  BY <1>4, <1>12, <1>13 DEF LinesInv

LEMMA VfsNextLines == VfsTypes /\ LinesInv /\ [VfsNext]_vfsVars => LinesInv'
<1> SUFFICES ASSUME VfsTypes, LinesInv, [VfsNext]_vfsVars PROVE LinesInv'
  OBVIOUS
<1>1. CASE UNCHANGED vfsVars
  <2>1. UNCHANGED <<root, file, reading, from>>
    BY <1>1 DEF vfsVars
  <2>2. /\ \A i : Kept(i)' = Kept(i)
        /\ \A i : ChunkStart(i)' = ChunkStart(i)
        /\ \A i : KeptUpTo(i)' = KeptUpTo(i)
        /\ LineEnds' = LineEnds
    BY <2>1, SameFrom
  <2>3. ASSUME NEW n, Progress(n) PROVE Progress(n)'
    <3>1. Ranked(n)' /\ (n # Len(from) => Boundary(n)')
      BY <2>1, <2>2, <2>3 DEF Progress, Ranked, Rank, Boundary
    <3>2. Ahead(file[reading.h])' = SubSeq(from, n + 1, Len(from))
      BY <2>1, <2>3 DEF Progress, Ahead
    <3>3. reading'.over <=> \E i \in 1 .. n : Overlong(i)'
      BY <2>1, <2>2, <2>3 DEF Progress, Overlong
    <3>4. reading'.got = KeptUpTo(n)' /\ \A i \in 1 .. n : ~(from'[i] = NL /\ Kept(i)')
      BY <2>1, <2>2, <2>3 DEF Progress
    <3> QED
      BY <2>1, <3>1, <3>2, <3>3, <3>4 DEF Progress
  <2>4. ASSUME LinesRead PROVE LinesRead'
    <3>1. AtEnd' = AtEnd
      BY <2>1 DEF AtEnd, Ahead
    <3>2. KeptUpTo(Min(LineEnds) - 1)' = KeptUpTo(Min(LineEnds) - 1)
      <4>1. PICK x : x = Min(LineEnds) - 1
        OBVIOUS
      <4>2. x = Min(LineEnds') - 1 /\ KeptUpTo(x)' = KeptUpTo(x)
        BY <2>2, <4>1
      <4>3. KeptUpTo(Min(LineEnds) - 1)' = KeptUpTo(x)'
        BY <4>2 DEF KeptUpTo
      <4> QED
        BY <4>1, <4>2, <4>3
    <3>3. KeptUpTo(Len(from))' = KeptUpTo(Len(from))
      <4>1. PICK x : x = Len(from)
        OBVIOUS
      <4>2. x = Len(from') /\ KeptUpTo(x)' = KeptUpTo(x)
        BY <2>1, <2>2, <4>1
      <4>3. KeptUpTo(Len(from))' = KeptUpTo(x)'
        BY <4>2 DEF KeptUpTo
      <4> QED
        BY <4>1, <4>2, <4>3
    <3> QED
      BY <2>1, <2>2, <2>4, <3>1, <3>2, <3>3 DEF LinesRead
  <2> QED
    BY <2>1, <2>3, <2>4 DEF LinesInv
<1>2. CASE VfsNext
  <2>1. ASSUME reading.what = "idle", reading' = reading PROVE LinesInv'
    BY <2>1 DEF LinesInv
  <2>2. ASSUME NEW h \in Handles, NEW n \in FileNames, fopen(h, n, "r") \/ fopen(h, n, "w")
        PROVE  LinesInv'
    BY <2>1, <2>2 DEF fopen
  <2>3. ASSUME NEW h \in Handles, fclose(h) PROVE LinesInv'
    BY <2>1, <2>3 DEF fclose
  <2>4. ASSUME NEW h \in Handles, NEW ch \in DataBytes, fputc(h, ch) PROVE LinesInv'
    BY <2>1, <2>4 DEF fputc
  <2>5. ASSUME NEW h \in Handles, NEW o \in Offsets, fseek(h, o) PROVE LinesInv'
    BY <2>1, <2>5 DEF fseek
  <2>6. ASSUME NEW h \in Handles, test_eof(h) PROVE LinesInv'
    BY <2>1, <2>6 DEF test_eof
  <2>7. ASSUME NEW h \in Handles, NEW n \in Nat, read_chars(h, n) PROVE LinesInv'
    BY <2>7 DEF read_chars, BeginRead, LinesInv
  <2>8. ASSUME NEW n \in FileNames, luaL_loadfile(n) PROVE LinesInv'
    BY <2>8 DEF luaL_loadfile, LinesInv
  <2>9. ASSUME Return PROVE LinesInv'
    BY <2>9 DEF Return, Idle, LinesInv
  <2> QED
    BY <1>2, VfsSteps, <2>2, <2>3, <2>4, <2>5, <2>6, <2>7, <2>8, <2>9, LinesBegin, LinesTurn
<1> QED
  BY <1>1, <1>2

LEMMA LinesInvReads == VfsTypes /\ LinesInv => LinesRead
<1> SUFFICES ASSUME VfsTypes, LinesInv PROVE LinesRead
  OBVIOUS
<1>1. CASE reading.what = "returned"
  BY <1>1 DEF LinesInv
<1>2. CASE reading.what # "returned" /\ ~AtEnd
  BY <1>2 DEF LinesRead
<1>3. CASE AtEnd
  <2>1. reading.what = "line" /\ Ahead(file[reading.h]) = <<>>
    BY <1>3 DEF AtEnd
  <2>2. PICK n \in 0 .. Len(from) : Progress(n)
    BY <2>1 DEF LinesInv
  <2>3. from \in Seq(Byte) /\ Len(from) \in Nat /\ n \in Nat
    <3>1. from \in Seq(Byte) /\ Len(from) \in Nat
      BY LenProperties DEF VfsTypes
    <3> QED
      BY <3>1
  <2> DEFINE rest == SubSeq(from, n + 1, Len(from))
  <2>4. rest = <<>>
    BY <2>1, <2>2 DEF Progress
  <2>5. Len(rest) = IF n < Len(from) THEN Len(from) - n ELSE 0
    BY <2>3, Rest
  <2> HIDE DEF rest
  <2>6. n = Len(from)
    <3>1. Len(rest) = 0
      BY <2>4, EmptySeq
    <3> QED
      BY <2>3, <2>5, <3>1
  <2>7. LineEnds = {}
    <3>1. DOMAIN from = 1 .. n
      BY <2>3, <2>6, LenProperties
    <3> QED
      BY <2>2, <3>1 DEF LineEnds, Progress
  <2>8. reading.got = KeptUpTo(Len(from))
    BY <2>2, <2>6 DEF Progress
  <2> QED
    BY <2>1, <2>7, <2>8 DEF LinesRead
<1> QED
  BY <1>1, <1>2, <1>3

\* However long the files are and whatever bytes they hold: a line that
\* read_line returns is what lies ahead up to the first newline with no NUL in
\* front of it in its chunk, less what a NUL hid; the buffer was filled to its
\* last byte exactly if a chunk is as long as it; and at the end of a file
\* everything has been handed over and no line was there.  With the files as
\* they are told apart above.
THEOREM FilesAreTrue == VfsSpec => []FilesTrue
<1>1. VfsInit => LinesInv
  BY DEF VfsInit, LinesInv, Idle
<1>2. FilesInv => FilesConsistent
  BY DEF FilesInv
<1>3. VfsTypes /\ LinesInv /\ FilesInv => FilesTrue
  BY <1>2, LinesInvReads DEF FilesTrue
<1> QED
  BY <1>1, <1>3, VfsInitTypes, VfsNextTypes, VfsInitFiles, VfsNextFiles, VfsNextLines, PTL
     DEF VfsSpec

-----------------------------------------------------------------------------
(* The keyboard driver                                                     *)

USE KeysAssumption, BoundsAssumption DEF Cells, Chars, NUL, BS, Count

-----------------------------------------------------------------------------
(* Types                                                                   *)

\* Where keyboard_buf_len may be negative, and what bounds drift.
Control ==
  /\ keyboard_buf_len < 0 => pc \in {"count", "wild"}
  /\ pc = "store" => eax >= 0
  /\ drift <= scans

TypeInv == TypeOK /\ Control

\* The driver starts well typed whatever keys are down.
LEMMA TypeInit == Init => TypeInv
<1> SUFFICES ASSUME Init PROVE TypeInv
  OBVIOUS
<1> USE DEF Init
<1>1. /\ held \subseteq Keys /\ last \in Keys
      /\ drift \in -2 .. MaxScans /\ drift <= scans
  BY DEF HeldShifts, Keys, Shifts
<1>2. NUL \in Chars
  OBVIOUS
<1> HIDE DEF Chars, NUL
<1>3. keyboard_buf \in [Cells -> Chars] /\ c \in Chars
  BY <1>2
<1>4. got \in Seq(Chars) /\ typed \in Seq(Chars)
  OBVIOUS
<1>5. /\ erased \in BOOLEAN /\ raced \in BOOLEAN /\ flushed \in BOOLEAN
      /\ pc = "wait"
  OBVIOUS
<1>6. /\ scans \in 0 .. MaxScans /\ shift_pressed \in Int /\ capslock \in {0, 1}
      /\ keyboard_buf_len = 0 /\ eax = 0 /\ count = 0 /\ k = 0
  OBVIOUS
<1> QED
  BY ONLY <1>1, <1>3, <1>4, <1>5, <1>6, BoundsAssumption DEF TypeInv, TypeOK, Control

\* A make code or a break code keeps the types of the user's variables.
LEMMA UserTypes ==
  ASSUME TypeInv, NEW key \in Keys, Make(key) \/ Break(key)
  PROVE  /\ held' \subseteq Keys /\ last' \in Keys
         /\ scans' \in 0 .. MaxScans
         /\ drift' \in -2 .. MaxScans /\ drift' <= scans'
  BY DEF TypeInv, TypeOK, Control, Make, Break, Scan

\* A character that is stored, or not, keeps the types of the buffer.
LEMMA StoreTypes ==
  ASSUME TypeInv, NEW char \in Chars, NEW n,
         keyboard_buf_len < KEYBOARD_BUF_SIZE => n \in 0 .. KEYBOARD_BUF_SIZE,
         pc # "overrun",
         Store(char, n)
  PROVE  /\ keyboard_buf' \in [Cells -> Chars]
         /\ keyboard_buf_len' \in -1 .. KEYBOARD_BUF_SIZE
         /\ keyboard_buf_len' < 0 => keyboard_buf_len < 0
         /\ pc' \in {pc, "overrun"}
         /\ keyboard_buf_len' < 0 => pc' = pc
         /\ typed' \in Seq(Chars) /\ raced' \in BOOLEAN
<1> USE DEF TypeInv, TypeOK, Control, Store, buffer
<1> HIDE DEF Chars, NUL, BS
<1>1. CASE keyboard_buf_len = KEYBOARD_BUF_SIZE
  BY <1>1
<1>2. CASE keyboard_buf_len # KEYBOARD_BUF_SIZE
  <2>1. keyboard_buf' \in [Cells -> Chars]
    BY <1>2
  <2>2. typed' = Append(typed, char) /\ typed \in Seq(Chars)
    BY <1>2
  <2>3. typed' \in Seq(Chars)
    BY <2>2
  <2>4. raced' \in BOOLEAN
    BY <1>2
  <2>5. keyboard_buf_len' = n /\ n \in 0 .. KEYBOARD_BUF_SIZE /\ pc' = pc
    BY <1>2
  <2> QED
    BY <2>1, <2>3, <2>4, <2>5
<1> QED
  BY <1>1, <1>2

\* No scan code leaves the types.
LEMMA TypeInterrupt == TypeInv /\ KeyboardInterrupt => TypeInv'
<1> SUFFICES ASSUME TypeInv, KeyboardInterrupt PROVE TypeInv'
  OBVIOUS
<1>1. CASE \E key \in Keys : MakeShift(key)
  <2>1. PICK key \in Keys : MakeShift(key)
    BY <1>1
  <2> QED
    BY <2>1, UserTypes
    DEF MakeShift, TypeInv, TypeOK, Control, buffer, getter, fate
<1>2. CASE MakeCapsLock
  BY <1>2, UserTypes
  DEF MakeCapsLock, CapsStep, Keys, TypeInv, TypeOK, Control, buffer, getter, fate
<1>3. CASE MakeBackspace
  <2>1. Store(BS, keyboard_buf_len + 1) /\ Make(Backspace) /\ pc # "overrun"
    BY <1>3 DEF MakeBackspace, Make, Scan
  <2>2. keyboard_buf_len < KEYBOARD_BUF_SIZE
          => keyboard_buf_len + 1 \in 0 .. KEYBOARD_BUF_SIZE
    BY DEF TypeInv, TypeOK
  <2> HIDE DEF Chars, Cells, BS
  <2>3. BS \in Chars
    BY DEF Chars
  <2>4. /\ keyboard_buf' \in [Cells -> Chars]
        /\ keyboard_buf_len' \in -1 .. KEYBOARD_BUF_SIZE
        /\ keyboard_buf_len' < 0 => keyboard_buf_len < 0
        /\ pc' \in {pc, "overrun"}
        /\ keyboard_buf_len' < 0 => pc' = pc
        /\ typed' \in Seq(Chars) /\ raced' \in BOOLEAN
    BY <2>1, <2>2, <2>3, StoreTypes
  <2>5. /\ held' \subseteq Keys /\ last' \in Keys
        /\ scans' \in 0 .. MaxScans
        /\ drift' \in -2 .. MaxScans /\ drift' <= scans'
    BY <2>1, UserTypes DEF Keys
  <2>6. erased' \in BOOLEAN
    BY <1>3 DEF MakeBackspace, TypeInv, TypeOK
  <2> QED
    BY <1>3, <2>4, <2>5, <2>6
    DEF MakeBackspace, TypeInv, TypeOK, Control, shift, getter
<1>4. CASE \E key \in Keys : MakeChar(key)
  <2>1. PICK key \in Keys : MakeChar(key)
    BY <1>4
  <2> DEFINE char == kbdus(key, Half(shift_pressed))
             n    == LenAfter(keyboard_buf_len)
  <2>2. Store(char, n) /\ Make(key) /\ pc # "overrun"
    BY <2>1 DEF MakeChar, Make, Scan
  <2>3. keyboard_buf_len < KEYBOARD_BUF_SIZE => n \in 0 .. KEYBOARD_BUF_SIZE
    BY DEF TypeInv, TypeOK, LenAfter
  <2>4. char \in Chars
    BY <2>1 DEF MakeChar, kbdus, Half
  <2> HIDE DEF char, n, Chars, Cells
  <2>5. /\ keyboard_buf' \in [Cells -> Chars]
        /\ keyboard_buf_len' \in -1 .. KEYBOARD_BUF_SIZE
        /\ keyboard_buf_len' < 0 => keyboard_buf_len < 0
        /\ pc' \in {pc, "overrun"}
        /\ keyboard_buf_len' < 0 => pc' = pc
        /\ typed' \in Seq(Chars) /\ raced' \in BOOLEAN
    BY <2>2, <2>3, <2>4, StoreTypes
  <2>6. /\ held' \subseteq Keys /\ last' \in Keys
        /\ scans' \in 0 .. MaxScans
        /\ drift' \in -2 .. MaxScans /\ drift' <= scans'
    BY <2>2, UserTypes
  <2>7. flushed' \in BOOLEAN
    BY <2>1 DEF MakeChar, TypeInv, TypeOK
  <2> QED
    BY <2>1, <2>5, <2>6, <2>7
    DEF MakeChar, TypeInv, TypeOK, Control, shift, getter
<1>5. CASE \E key \in Keys : Release(key)
  <2>1. PICK key \in Keys : Release(key)
    BY <1>5
  <2> QED
    BY <2>1, UserTypes
    DEF Release, TypeInv, TypeOK, Control, buffer, getter, fate
<1> QED
  BY <1>1, <1>2, <1>3, <1>4, <1>5 DEF KeyboardInterrupt

\* No step of the getter leaves the types.
LEMMA TypeMainline == TypeInv /\ Mainline => TypeInv'
<1> SUFFICES ASSUME TypeInv, Mainline PROVE TypeInv'
  OBVIOUS
<1> USE DEF TypeInv, TypeOK, Control, user, shift, fate
<1>1. CASE Wait
  BY <1>1 DEF Wait, buffer, getter
<1>2. CASE ReadFirst
  BY <1>2 DEF ReadFirst, buffer
<1>3. CASE LoadLen
  BY <1>3 DEF LoadLen, buffer
<1>4. CASE StoreLen
  BY <1>4 DEF StoreLen
<1>5. CASE CallMemcpy
  BY <1>5 DEF CallMemcpy, buffer
<1>6. CASE CopyByte
  <2>1. keyboard_buf' \in [Cells -> Chars]
    BY <1>6 DEF CopyByte, Moved
  <2> QED
    BY <1>6, <2>1 DEF CopyByte
<1>7. CASE ReturnChar
  BY <1>7 DEF ReturnChar, buffer, getter
<1> QED
  BY <1>1, <1>2, <1>3, <1>4, <1>5, <1>6, <1>7 DEF Mainline

\* Types are kept by every step.
LEMMA TypeStep == TypeInv /\ [Next]_vars => TypeInv'
<1>1. TypeInv /\ UNCHANGED vars => TypeInv'
  BY DEF vars, user, shift, buffer, getter, fate, TypeInv, TypeOK, Control
<1> QED
  BY <1>1, TypeInterrupt, TypeMainline DEF Next

\* For every buffer size and keyboard, the driver keeps its types: a single
\* cell in front of keyboard_buf is the furthest it strays before an overrun.
THEOREM KeyboardTypes == Spec => []TypeOK
<1>1. TypeInv => TypeOK
  BY DEF TypeInv
<1> QED
  BY TypeInit, TypeStep, <1>1, PTL DEF Spec

-----------------------------------------------------------------------------
(* The shift counter                                                       *)

\* Boot: no key counted, and drift owes the shifts that are held.
LEMMA ShiftInit == Init => ShiftAccounting
  BY DEF Init, ShiftAccounting, HeldShifts

\* A press of a shift adds one to both sides, a repeat adds one to drift, a
\* release takes one off, caps lock moves with its own flag.
LEMMA ShiftStep == TypeInv /\ ShiftAccounting /\ [Next]_vars => ShiftAccounting'
<1> SUFFICES ASSUME TypeInv, ShiftAccounting, [Next]_vars
             PROVE  ShiftAccounting'
  OBVIOUS
<1>0. drift \in Int /\ shift_pressed \in Int /\ capslock \in {0, 1}
  BY DEF TypeInv, TypeOK
<1> USE <1>0 DEF ShiftAccounting, HeldShifts
<1>9. /\ CapsLock \notin Shifts /\ Backspace \notin Shifts
       /\ \A key \in CharKeys \cup BareKeys : key \notin Shifts
  OBVIOUS
<1>1. CASE \E key \in Keys : MakeShift(key)
  <2>1. PICK key \in Keys : MakeShift(key)
    BY <1>1
  <2> QED
    BY <2>1 DEF MakeShift, Make, Shifts
<1>2. CASE MakeCapsLock
  <2>1. HeldShifts(held') = HeldShifts(held) /\ drift' = drift
    BY <1>2, <1>9 DEF MakeCapsLock, Make, Shifts
  <2>2. CASE capslock = 0
    <3>1. capslock' = 1 /\ shift_pressed' = shift_pressed + 1
      BY <1>2, <2>2 DEF MakeCapsLock, CapsStep
    <3> QED
      BY <2>1, <2>2, <3>1
  <2>3. CASE capslock = 1
    <3>1. capslock' = 0 /\ shift_pressed' = shift_pressed - 1
      BY <1>2, <2>3 DEF MakeCapsLock, CapsStep
    <3> QED
      BY <2>1, <2>3, <3>1
  <2> QED
    BY <2>2, <2>3
<1>3. CASE MakeBackspace
  BY <1>3, <1>9 DEF MakeBackspace, Make, Shifts, shift
<1>4. CASE \E key \in Keys : MakeChar(key)
  <2>1. PICK key \in Keys : MakeChar(key)
    BY <1>4
  <2> QED
    BY <2>1 DEF MakeChar, Make, Shifts, shift
<1>5. CASE \E key \in Keys : Release(key)
  <2>1. PICK key \in Keys : Release(key)
    BY <1>5
  <2> QED
    BY <2>1 DEF Release, Break, Shifts
<1>6. CASE Mainline \/ UNCHANGED vars
  BY <1>6 DEF Mainline, Wait, ReadFirst, LoadLen, StoreLen, CallMemcpy,
              CopyByte, ReturnChar, vars, user, shift
<1> QED
  BY <1>1, <1>2, <1>3, <1>4, <1>5, <1>6 DEF Next, KeyboardInterrupt

\* Whatever keys exist and in whatever order they are pressed, repeated and
\* released, the counter of keyboard_interrupt is off by exactly drift.
THEOREM KeyboardShift == Spec => []ShiftAccounting
  BY TypeInit, TypeStep, ShiftInit, ShiftStep, PTL DEF Spec

-----------------------------------------------------------------------------
(* The end of the buffer                                                   *)

\* Only a backspace fills the buffer.
FullNeedsBackspace ==
  keyboard_buf_len = KEYBOARD_BUF_SIZE \/ pc = "overrun" => erased

\* The buffer starts empty.
LEMMA FullInit == Init => FullNeedsBackspace
  BY DEF Init, FullNeedsBackspace

\* A character other than a backspace leaves the buffer less than full, and so
\* does every step of the getter.
LEMMA FullStep ==
  TypeInv /\ FullNeedsBackspace /\ [Next]_vars => FullNeedsBackspace'
<1> SUFFICES ASSUME TypeInv, FullNeedsBackspace, [Next]_vars
             PROVE  FullNeedsBackspace'
  OBVIOUS
<1> USE DEF FullNeedsBackspace
<1>0. /\ keyboard_buf_len \in -1 .. KEYBOARD_BUF_SIZE
      /\ eax \in -1 .. KEYBOARD_BUF_SIZE /\ erased \in BOOLEAN
  BY DEF TypeInv, TypeOK
<1>1. CASE \E key \in Keys : MakeShift(key) \/ Release(key)
  BY <1>1 DEF MakeShift, Release, buffer, fate
<1>2. CASE MakeCapsLock
  BY <1>2 DEF MakeCapsLock, buffer, fate
<1>3. CASE MakeBackspace
  BY <1>0, <1>3 DEF MakeBackspace, Store, buffer, Make, Scan
<1>4. CASE \E key \in Keys : MakeChar(key)
  <2>1. PICK key \in Keys : MakeChar(key)
    BY <1>4
  <2> QED
    BY <1>0, <2>1 DEF MakeChar, Store, LenAfter, buffer
<1>5. CASE Wait \/ ReadFirst \/ LoadLen \/ CallMemcpy \/ CopyByte \/ ReturnChar
  BY <1>5 DEF Wait, ReadFirst, LoadLen, CallMemcpy, CopyByte, ReturnChar,
              buffer, fate
<1>6. CASE StoreLen
  BY <1>0, <1>6 DEF StoreLen, fate
<1>7. CASE UNCHANGED vars
  BY <1>7 DEF vars, buffer, fate
<1> QED
  BY <1>1, <1>2, <1>3, <1>4, <1>5, <1>6, <1>7
  DEF Next, KeyboardInterrupt, Mainline

\* For every buffer size, whatever the reader does meanwhile, a write beyond
\* keyboard_buf has a backspace in the last cell behind it.
THEOREM KeyboardOverrun == Spec => []OverrunNeedsBackspace
<1>1. FullNeedsBackspace => OverrunNeedsBackspace
  BY DEF FullNeedsBackspace, OverrunNeedsBackspace
<1> QED
  BY TypeInit, TypeStep, FullInit, FullStep, <1>1, PTL DEF Spec

-----------------------------------------------------------------------------
(* stdin gets what was typed, in order                                     *)

\* The characters that have left the buffer: those that stdin has been handed,
\* and the one in the getter's hand.
TakenOut == Len(got) + Len(InHand)

\* What the cells and the locals of the getter are when nothing has raced: the
\* cells of Waiting hold the end of typed, and c its first character that stdin
\* has not seen.
InOrder ==
  /\ Len(typed) = TakenOut + keyboard_buf_len
  /\ \A n \in 1 .. Len(got) : got[n] = typed[n]
  /\ \A n \in 0 .. keyboard_buf_len - 1 : keyboard_buf[Cell(n)] = typed[TakenOut + n + 1]
  /\ pc \in {"load", "store", "count", "copy"} => c = typed[Len(got) + 1]
  /\ keyboard_buf_len >= 0
  /\ pc \in {"read", "load"} => keyboard_buf_len > 0
  /\ pc = "store" => eax > 0 /\ eax = keyboard_buf_len
  /\ pc = "count" => keyboard_buf_len < KEYBOARD_BUF_SIZE
  /\ pc = "copy" /\ k < count => count = keyboard_buf_len /\ count < KEYBOARD_BUF_SIZE
  /\ pc # "wild"

InOrderInv == ~raced /\ ~flushed /\ pc # "overrun" => InOrder

\* Nothing has been typed when the driver starts.
LEMMA InOrderInit == Init => InOrderInv
  BY DEF Init, InOrderInv, InOrder, TakenOut, InHand

\* What InOrder says of the state, in terms that need no more definitions.
LEMMA InOrderFacts ==
  ASSUME TypeInv, InOrder
  PROVE  /\ keyboard_buf \in [Cells -> Chars] /\ c \in Chars
         /\ typed \in Seq(Chars) /\ got \in Seq(Chars)
         /\ Len(typed) \in Nat /\ Len(got) \in Nat
         /\ keyboard_buf_len \in 0 .. KEYBOARD_BUF_SIZE
         /\ eax \in Int /\ count \in Int /\ k \in Nat
         /\ pc = "copy" => k <= count
         /\ TakenOut = Len(got) + Len(InHand) /\ TakenOut \in Nat
         /\ Len(InHand) = IF pc \in {"count", "copy"} THEN 1 ELSE 0
<1> HIDE DEF Chars, NUL, BS
<1> QED
  BY DEF TypeInv, TypeOK, InOrder, TakenOut, InHand

\* A character that is stored outside the shift becomes the last one waiting.
LEMMA InOrderStore ==
  ASSUME TypeInv, InOrder, NEW char \in Chars, Store(char, keyboard_buf_len + 1),
         ~raced', pc' # "overrun", UNCHANGED <<getter, got>>
  PROVE  InOrder'
<1> HIDE DEF Chars, NUL, BS
<1>1. /\ keyboard_buf' = [keyboard_buf EXCEPT ![keyboard_buf_len] = char]
      /\ keyboard_buf_len' = keyboard_buf_len + 1
      /\ typed' = Append(typed, char)
      /\ UNCHANGED <<pc, c, eax, count, k, got>>
      /\ ~InShift
      /\ keyboard_buf_len # KEYBOARD_BUF_SIZE
  BY DEF Store, getter
<1> USE InOrderFacts
<1>2. TakenOut' = TakenOut
  BY <1>1 DEF TakenOut, InHand
<1>3. /\ \A n \in 0 .. keyboard_buf_len : Cell(n) = n
      /\ \A n \in 0 .. keyboard_buf_len : Cell(n)' = n
  BY <1>1 DEF Cell, Shifting, InShift
<1>4. /\ Len(typed') = Len(typed) + 1
      /\ \A n \in 1 .. Len(typed) : typed'[n] = typed[n]
      /\ typed'[Len(typed) + 1] = char
  BY <1>1, AppendProperties
<1>5. \A n \in 0 .. keyboard_buf_len :
        keyboard_buf'[n] = IF n = keyboard_buf_len THEN char ELSE keyboard_buf[n]
  BY <1>1
<1>6. Len(typed) = TakenOut + keyboard_buf_len
  BY DEF InOrder
<1>7. \A n \in 0 .. keyboard_buf_len : keyboard_buf'[n] = typed'[TakenOut + n + 1]
  <2> TAKE n \in 0 .. keyboard_buf_len
  <2>1. CASE n = keyboard_buf_len
    BY <1>4, <1>5, <1>6, <2>1
  <2>2. CASE n \in 0 .. keyboard_buf_len - 1
    <3>1. keyboard_buf[n] = typed[TakenOut + n + 1]
      BY <1>3, <2>2 DEF InOrder
    <3>2. TakenOut + n + 1 \in 1 .. Len(typed)
      BY <1>6, <2>2
    <3> QED
      BY <1>4, <1>5, <2>2, <3>1, <3>2
  <2> QED
    BY <2>1, <2>2
<1>8. \A n \in 0 .. keyboard_buf_len' - 1 :
        keyboard_buf'[Cell(n)'] = typed'[TakenOut' + n + 1]
  <2> SUFFICES ASSUME NEW n \in 0 .. keyboard_buf_len
               PROVE  keyboard_buf'[Cell(n)'] = typed'[TakenOut' + n + 1]
    <3>1. 0 .. keyboard_buf_len' - 1 = 0 .. keyboard_buf_len
      BY <1>1
    <3> QED
      BY <3>1
  <2>1. Cell(n)' = n
    BY <1>3
  <2> QED
    BY <1>2, <1>7, <2>1
<1>9. /\ \A n \in 1 .. Len(got) : got[n] = typed'[n]
      /\ pc \in {"load", "store", "count", "copy"} => c = typed'[Len(got) + 1]
  <2>1. Len(got) <= Len(typed)
    BY <1>6
  <2>2. ASSUME pc \in {"load", "store", "count", "copy"}
        PROVE  Len(got) + 1 \in 1 .. Len(typed) /\ c = typed[Len(got) + 1]
    <3>1. TakenOut = Len(got) + 1 \/ keyboard_buf_len > 0
      BY <2>2 DEF InOrder
    <3>2. c = typed[Len(got) + 1]
      BY <2>2 DEF InOrder
    <3> QED
      BY <1>6, <3>1, <3>2
  <2>3. \A n \in 1 .. Len(got) : got[n] = typed[n]
    BY DEF InOrder
  <2> QED
    BY <1>4, <2>1, <2>2, <2>3
<1>10. Len(typed') = TakenOut' + keyboard_buf_len'
  BY <1>1, <1>2, <1>4, <1>6
<1>11. pc \notin {"store", "count", "wild"} /\ ~(pc = "copy" /\ k < count)
  BY <1>1 DEF InOrder, InShift
<1>12. keyboard_buf_len' >= 0 /\ keyboard_buf_len' > 0
  BY <1>1
<1> QED
  BY <1>1, <1>8, <1>9, <1>10, <1>11, <1>12 DEF InOrder

\* No scan code disturbs the order, unless it races, fills or overruns.
LEMMA InOrderInterrupt ==
  ASSUME TypeInv, InOrder, KeyboardInterrupt, ~raced', ~flushed', pc' # "overrun"
  PROVE  InOrder'
<1>1. CASE \E key \in Keys : MakeShift(key) \/ Release(key)
  BY <1>1 DEF MakeShift, Release, buffer, getter, fate, InOrder, TakenOut, InHand,
              Cell, Shifting
<1>2. CASE MakeCapsLock
  BY <1>2 DEF MakeCapsLock, buffer, getter, fate, InOrder, TakenOut, InHand, Cell,
              Shifting
<1>3. CASE MakeBackspace
  <2>1. Store(BS, keyboard_buf_len + 1) /\ UNCHANGED <<getter, got>>
    BY <1>3 DEF MakeBackspace
  <2>2. BS \in Chars
    OBVIOUS
  <2> QED
    BY <2>1, <2>2, InOrderStore
<1>4. CASE \E key \in Keys : MakeChar(key)
  <2>1. PICK key \in Keys : MakeChar(key)
    BY <1>4
  <2> DEFINE char == kbdus(key, Half(shift_pressed))
  <2>2. Store(char, LenAfter(keyboard_buf_len)) /\ UNCHANGED <<getter, got>>
    BY <2>1 DEF MakeChar
  <2>3. LenAfter(keyboard_buf_len) = keyboard_buf_len + 1
    BY <2>1 DEF MakeChar, LenAfter
  <2>4. char \in Chars
    BY <2>1 DEF MakeChar, kbdus, Half
  <2> HIDE DEF char
  <2> QED
    BY <2>2, <2>3, <2>4, InOrderStore
<1> QED
  BY <1>1, <1>2, <1>3, <1>4 DEF KeyboardInterrupt

\* No step of the getter disturbs the order.
LEMMA InOrderMainline ==
  ASSUME TypeInv, InOrder, Mainline PROVE InOrder'
<1> HIDE DEF Chars, NUL, BS
<1> USE InOrderFacts
<1>a. /\ ~Shifting => \A n \in 0 .. keyboard_buf_len : Cell(n) = n
      /\ pc = "count" => \A n \in 0 .. keyboard_buf_len : Cell(n) = n + 1
  BY DEF Cell, Shifting
<1>1. CASE Wait
  BY <1>1 DEF Wait, Available, buffer, getter, fate, InOrder, TakenOut, InHand, Cell, Shifting
<1>2. CASE ReadFirst
  <2>1. /\ UNCHANGED <<keyboard_buf, keyboard_buf_len, eax, count, k, got, typed>>
        /\ pc = "read" /\ pc' = "load" /\ c' = keyboard_buf[0]
    BY <1>2 DEF ReadFirst, buffer, fate
  <2>2. TakenOut' = TakenOut /\ TakenOut = Len(got)
    BY <2>1 DEF TakenOut, InHand
  <2>3. c' = typed[Len(got) + 1]
    <3>1. 0 \in 0 .. keyboard_buf_len - 1
      BY <2>1 DEF InOrder
    <3>2. keyboard_buf[Cell(0)] = typed[TakenOut + 0 + 1]
      BY <3>1 DEF InOrder
    <3>3. Cell(0) = 0
      BY <2>1 DEF Cell, Shifting
    <3> QED
      BY <2>1, <2>2, <3>2, <3>3
  <2> QED
    BY <2>1, <2>2, <2>3 DEF InOrder, Cell, Shifting
<1>3. CASE LoadLen
  BY <1>3 DEF LoadLen, buffer, fate, InOrder, TakenOut, InHand, Cell, Shifting
<1>4. CASE StoreLen
  <2>1. /\ UNCHANGED <<keyboard_buf, c, count, k, got, typed>>
        /\ pc = "store" /\ pc' = "count"
        /\ keyboard_buf_len' = keyboard_buf_len - 1 /\ keyboard_buf_len > 0
    BY <1>4 DEF StoreLen, fate, InOrder
  <2>2. TakenOut' = TakenOut + 1
    BY <2>1 DEF TakenOut, InHand
  <2>3. \A n \in 0 .. keyboard_buf_len - 2 : Cell(n)' = n + 1
    BY <2>1 DEF Cell, Shifting
  <2>4. \A n \in 0 .. keyboard_buf_len - 2 :
          keyboard_buf[n + 1] = typed[TakenOut + (n + 1) + 1]
    <3> TAKE n \in 0 .. keyboard_buf_len - 2
    <3>1. n + 1 \in 0 .. keyboard_buf_len - 1 /\ Cell(n + 1) = n + 1
      BY <2>1 DEF Cell, Shifting
    <3>2. keyboard_buf[Cell(n + 1)] = typed[TakenOut + (n + 1) + 1]
      BY <3>1 DEF InOrder
    <3> QED
      BY <3>1, <3>2
  <2>5. \A n \in 0 .. keyboard_buf_len' - 1 : keyboard_buf'[Cell(n)'] = typed'[TakenOut' + n + 1]
    <3> SUFFICES ASSUME NEW n \in 0 .. keyboard_buf_len - 2
                 PROVE  keyboard_buf'[Cell(n)'] = typed'[TakenOut' + n + 1]
      BY <2>1
    <3>1. Cell(n)' = n + 1 /\ keyboard_buf[n + 1] = typed[TakenOut + (n + 1) + 1]
      BY <2>3, <2>4
    <3>2. TakenOut' + n + 1 = TakenOut + (n + 1) + 1
      BY <2>2
    <3> QED
      BY <2>1, <3>1, <3>2
  <2>6. Len(typed') = TakenOut' + keyboard_buf_len'
    <3>1. Len(typed) = TakenOut + keyboard_buf_len
      BY DEF InOrder
    <3>2. TakenOut \in Nat /\ keyboard_buf_len \in Nat
      BY <2>1
    <3> QED
      BY ONLY <2>1, <2>2, <3>1, <3>2
  <2>7. keyboard_buf_len' >= 0 /\ keyboard_buf_len' < KEYBOARD_BUF_SIZE
    BY <2>1
  <2> QED
    BY <2>1, <2>5, <2>6, <2>7 DEF InOrder
<1>5. CASE CallMemcpy
  <2>1. /\ UNCHANGED <<keyboard_buf, keyboard_buf_len, c, eax, got, typed>>
        /\ pc = "count" /\ count' = keyboard_buf_len /\ k' = 0 /\ pc' = "copy"
    BY <1>5 DEF CallMemcpy, buffer, fate, InOrder
  <2>2. TakenOut' = TakenOut
    BY <2>1 DEF TakenOut, InHand
  <2>3. \A n \in 0 .. keyboard_buf_len - 1 : Cell(n)' = Cell(n)
    BY <2>1 DEF Cell, Shifting
  <2> QED
    BY <2>1, <2>2, <2>3 DEF InOrder
<1>6. CASE CopyByte
  <2>1. /\ UNCHANGED <<keyboard_buf_len, pc, c, eax, count, got, typed>>
        /\ pc = "copy" /\ k < count /\ k' = k + 1
        /\ count = keyboard_buf_len /\ count < KEYBOARD_BUF_SIZE
    BY <1>6 DEF CopyByte, fate, InOrder
  <2>2. keyboard_buf' = [keyboard_buf EXCEPT ![k] = keyboard_buf[k + 1]]
    BY <1>6, <2>1 DEF CopyByte, Moved
  <2>3. TakenOut' = TakenOut
    BY <2>1 DEF TakenOut, InHand
  <2>4. \A n \in 0 .. count - 1 : Cell(n) = IF n < k THEN n ELSE n + 1
    BY <2>1 DEF Cell, Shifting
  <2>5. \A n \in 0 .. count - 1 : Cell(n)' = IF n <= k THEN n ELSE n + 1
    BY <2>1 DEF Cell, Shifting
  <2>6. \A n \in 0 .. count - 1 :
          keyboard_buf'[IF n <= k THEN n ELSE n + 1] = keyboard_buf[IF n < k THEN n ELSE n + 1]
    BY <2>1, <2>2
  <2>7. \A n \in 0 .. count - 1 : keyboard_buf'[Cell(n)'] = keyboard_buf[Cell(n)]
    BY <2>4, <2>5, <2>6
  <2> QED
    BY <2>1, <2>3, <2>7 DEF InOrder
<1>7. CASE ReturnChar
  <2>1. /\ UNCHANGED <<keyboard_buf, keyboard_buf_len, typed>>
        /\ pc = "copy" /\ k = count /\ pc' = "wait" /\ got' = Append(got, c)
    BY <1>7 DEF ReturnChar, buffer, fate
  <2>2. /\ Len(got') = Len(got) + 1
        /\ \A n \in 1 .. Len(got) : got'[n] = got[n]
        /\ got'[Len(got) + 1] = c
    BY <2>1, AppendProperties
  <2>3. TakenOut' = TakenOut
    BY <2>1, <2>2 DEF TakenOut, InHand
  <2>4. \A n \in 0 .. keyboard_buf_len - 1 : Cell(n)' = Cell(n)
    BY <2>1 DEF Cell, Shifting
  <2>5. \A n \in 1 .. Len(got') : got'[n] = typed[n]
    BY <2>1, <2>2 DEF InOrder
  <2> QED
    BY <2>1, <2>3, <2>4, <2>5 DEF InOrder
<1> QED
  BY <1>1, <1>2, <1>3, <1>4, <1>5, <1>6, <1>7 DEF Mainline

\* Every step keeps the order, and none forgets that it was lost.
LEMMA InOrderStep == TypeInv /\ InOrderInv /\ [Next]_vars => InOrderInv'
<1> SUFFICES ASSUME TypeInv, InOrderInv, [Next]_vars,
                    ~raced', ~flushed', pc' # "overrun"
             PROVE  InOrder'
  BY DEF InOrderInv
<1>1. CASE KeyboardInterrupt
  <2>1. ~raced /\ ~flushed /\ pc # "overrun"
    BY <1>1 DEF KeyboardInterrupt, MakeShift, MakeChar, Release, MakeCapsLock,
                MakeBackspace, Make, Break, Scan, Store, fate, buffer, TypeInv, TypeOK
  <2> QED
    BY <1>1, <2>1, InOrderInterrupt DEF InOrderInv
<1>2. CASE Mainline
  <2>1. ~raced /\ ~flushed /\ pc # "overrun"
    BY <1>2 DEF Mainline, Wait, ReadFirst, LoadLen, StoreLen, CallMemcpy, CopyByte,
                ReturnChar, fate
  <2> QED
    BY <1>2, <2>1, InOrderMainline DEF InOrderInv
<1>3. CASE UNCHANGED vars
  BY <1>3 DEF vars, buffer, getter, fate, InOrderInv, InOrder, TakenOut, InHand, Cell,
              Shifting
<1> QED
  BY <1>1, <1>2, <1>3 DEF Next

\* The cells and locals, read in order, are the characters that were typed.
LEMMA InOrderIsStdinInOrder ==
  ASSUME TypeInv, InOrder PROVE typed = got \o InHand \o Waiting
<1> HIDE DEF Chars, NUL, BS
<1> USE InOrderFacts
<1>1. /\ \A n \in 1 .. keyboard_buf_len : Cell(n - 1) \in Cells
      /\ keyboard_buf_len \in Nat
  BY DEF Cell, Shifting, InOrder
<1>2. Waiting \in Seq(Chars) /\ Len(Waiting) = keyboard_buf_len
  BY <1>1 DEF Waiting
<1>3. InHand \in Seq(Chars)
  BY DEF InHand
<1> DEFINE out == got \o InHand
<1>4. /\ out \in Seq(Chars) /\ Len(out) = TakenOut
      /\ \A n \in 1 .. TakenOut : out[n] = IF n <= Len(got) THEN got[n] ELSE InHand[n - Len(got)]
  BY <1>3, ConcatProperties
<1>5. \A n \in 1 .. TakenOut : out[n] = typed[n]
  BY <1>4 DEF InHand, InOrder
<1> HIDE DEF out
<1>6. /\ out \o Waiting \in Seq(Chars)
      /\ Len(out \o Waiting) = TakenOut + keyboard_buf_len
      /\ \A n \in 1 .. TakenOut + keyboard_buf_len :
           (out \o Waiting)[n] = IF n <= TakenOut THEN out[n] ELSE Waiting[n - TakenOut]
  BY ONLY <1>2, <1>4, ConcatProperties
<1>7. \A n \in 1 .. keyboard_buf_len : Waiting[n] = typed[TakenOut + n]
  <2> TAKE n \in 1 .. keyboard_buf_len
  <2>1. n - 1 \in 0 .. keyboard_buf_len - 1
    OBVIOUS
  <2>2. keyboard_buf[Cell(n - 1)] = typed[TakenOut + (n - 1) + 1]
    BY <2>1 DEF InOrder
  <2>3. TakenOut + (n - 1) + 1 = TakenOut + n
    OBVIOUS
  <2> QED
    BY <2>2, <2>3 DEF Waiting
<1>8. Len(typed) = TakenOut + keyboard_buf_len
  BY DEF InOrder
<1>9. \A n \in 1 .. Len(typed) : typed[n] = (out \o Waiting)[n]
  <2> TAKE n \in 1 .. Len(typed)
  <2>1. CASE n <= TakenOut
    BY <1>5, <1>6, <1>8, <2>1
  <2>2. CASE n > TakenOut
    <3>1. n - TakenOut \in 1 .. keyboard_buf_len /\ TakenOut + (n - TakenOut) = n
      BY <1>8, <2>2
    <3>2. Waiting[n - TakenOut] = typed[n]
      BY <1>7, <3>1
    <3>3. n \in 1 .. TakenOut + keyboard_buf_len /\ ~(n <= TakenOut)
      BY <1>8, <2>2
    <3> QED
      BY <1>6, <3>2, <3>3
  <2>3. n <= TakenOut \/ n > TakenOut
    <3>1. n \in Nat /\ TakenOut \in Nat
      OBVIOUS
    <3> QED
      BY ONLY <3>1
  <2> QED
    BY <2>1, <2>2, <2>3
<1>10. typed = out \o Waiting
  BY <1>6, <1>8, <1>9, SeqEqual
<1> QED
  BY <1>10 DEF out

\* For every keyboard and buffer size: until a key hits the damaging window of a
\* get, fills the buffer or overruns it, stdin gets exactly the characters typed,
\* in order, and every other one is waiting in the buffer.
THEOREM KeyboardInOrder == Spec => []StdinInOrder
<1>1. TypeInv /\ InOrderInv => StdinInOrder
  BY InOrderIsStdinInOrder DEF InOrderInv, StdinInOrder
<1> QED
  BY TypeInit, TypeStep, InOrderInit, InOrderStep, <1>1, PTL DEF Spec
=============================================================================
