------------------------------- MODULE GcProofs -------------------------------
(***************************************************************************)
(* Proofs about the collector of Lua: nothing that the program can reach is *)
(* freed, for every number of objects, places and steps of the sweep.      *)
(*                                                                         *)
(* GcInv says what holds between any two steps: what is alive refers only  *)
(* to what is alive; while objects are marked, a marked one that is on no  *)
(* list refers only to marked ones; while they are swept, what is not yet  *)
(* as new is still ahead of the sweep.                                      *)
(***************************************************************************)
EXTENDS Gc, FiniteSetTheorems, NaturalsInduction, WellFoundedInduction, TLAPS

-----------------------------------------------------------------------------
(* What a state is.                                                        *)

Kinds == {"free", "table", "weak", "closure", "upval", "thread", "udata", "string"}
Colors == {"white0", "white1", "gray", "black"}
Whites == {"white0", "white1"}
Phases == {"pause", "propagate", "sweepstring", "sweep", "finalize"}
Names == Ids \cup {0}
Slots == Places \cup {0}
Objects ==
  [kind : Kinds, color : Colors, val : Names, slot : Slots, th : Names,
   gc : BOOLEAN, final : BOOLEAN]
States ==
  [obj : [Ids -> Objects], rootgc : Seq(Ids), strt : SUBSET Ids, tmudata : Seq(Ids),
   gray : Seq(Ids), grayagain : Seq(Ids), weak : Seq(Ids), currentwhite : Whites,
   gcstate : Phases, sweepgc : Names, stack : [Places -> Names]]

\* What a place may hold, and what an object that is alive refers to.
Alive(s, o) == Exists(s, o) /\ ~isdead(s, o)
Value(s, v) == v = 0 \/ (v \in Ids /\ Alive(s, v) /\ s.obj[v].kind # "upval")
Refers(s, o) ==
  LET v == s.obj[o].val IN
  /\ s.obj[o].kind = "string" => v = 0
  /\ s.obj[o].kind = "closure" => v # 0 /\ Alive(s, v) /\ s.obj[v].kind = "upval"
  /\ s.obj[o].kind = "udata" => v # 0 /\ Alive(s, v) /\ s.obj[v].kind \in {"table", "weak"}
  /\ s.obj[o].kind = "upval" => Value(s, Held(s, o))
  /\ s.obj[o].kind \in {"table", "weak", "thread"} => Value(s, v)
RootsAlive(s) ==
  /\ s.obj[Main].kind = "thread" /\ Alive(s, Main) /\ s.obj[Main].val = 0
  /\ s.obj[GlobalTable].kind = "table" /\ Alive(s, GlobalTable)
  /\ \A i \in Places : Value(s, s.stack[i])
AllRefer(s) == \A o \in Ids : Alive(s, o) => Refers(s, o)

\* What belongs to a list, and what is on none; E: what is being freed.
InRootgc(s, o) ==
  Exists(s, o) /\ s.obj[o].kind # "string" /\ ~IsOpenUpval(s, o) /\ o \notin ToSet(s.tmudata)
RootLists(s, E) ==
  /\ IsInjective(s.rootgc)
  /\ \A o \in Ids : o \in ToSet(s.rootgc) <=> InRootgc(s, o) /\ o \notin E
  /\ \A o \in Ids : o \in s.strt <=> s.obj[o].kind = "string"
  /\ IsInjective(s.tmudata)
  /\ \A o \in ToSet(s.tmudata) : Alive(s, o) /\ s.obj[o].kind = "udata"
\* An open upvalue is the only one of its place.
OpenApart(s) ==
  \A u \in Ids : IsOpenUpval(s, u) =>
    /\ s.obj[u].th \in Ids /\ s.obj[s.obj[u].th].kind = "thread"
    /\ \A v \in Ids : IsOpenUpval(s, v) /\ s.obj[v].th = s.obj[u].th
                        /\ s.obj[v].slot = s.obj[u].slot => u = v
Blacks == {"table", "closure", "upval", "udata"}
BlackKinds(s) ==
  \A o \in Ids : s.obj[o].color = "black" => s.obj[o].kind \in Blacks /\ ~IsOpenUpval(s, o)
\* What holds no value of its own, dead or alive.
Plain(s) ==
  \A o \in Ids : s.obj[o].kind = "string" \/ IsOpenUpval(s, o) => s.obj[o].val = 0
Graph(s) ==
  /\ s \in States /\ RootsAlive(s) /\ AllRefer(s) /\ OpenApart(s) /\ BlackKinds(s)
  /\ Plain(s)

\* The lists of a cycle that is marking.
Traversed == {"table", "weak", "closure", "thread"}
ListsApart(s) ==
  /\ IsInjective(s.gray) /\ IsInjective(s.grayagain) /\ IsInjective(s.weak)
  /\ \A o \in ToSet(s.gray) : o \notin ToSet(s.grayagain) /\ o \notin ToSet(s.weak)
  /\ \A o \in ToSet(s.grayagain) : o \notin ToSet(s.weak)
Listed(s, o) == o \in ToSet(s.gray) \/ o \in ToSet(s.grayagain) \/ o \in ToSet(s.weak)
GrayLists(s) ==
  /\ ListsApart(s)
  /\ \A o \in Ids : Listed(s, o) => s.obj[o].color = "gray"
  /\ \A o \in ToSet(s.gray) : s.obj[o].kind \in Traversed
  /\ \A o \in ToSet(s.grayagain) : s.obj[o].kind \in {"table", "thread"}
  /\ \A o \in ToSet(s.weak) : s.obj[o].kind = "weak"
  /\ \A o \in Ids : s.obj[o].color = "gray" /\ s.obj[o].kind \in Traversed => Listed(s, o)
\* Besides the members of X, no userdata and no closed upvalue is gray, and
\* what is marked and not to be traversed refers to marked objects.
Leaf(s, o) == s.obj[o].kind = "udata" \/ (s.obj[o].kind = "upval" /\ ~IsOpenUpval(s, o))
NoGrayLeaf(s, X) == \A o \in Ids : Leaf(s, o) /\ o \notin X => s.obj[o].color # "gray"
Done(s, o) == \A p \in Ids : p \in Strong(s, o) => ~iswhite(s, p)
Closed(s, X) ==
  \A o \in Ids : o \notin X /\ Exists(s, o) /\ ~iswhite(s, o) /\ o \notin ToSet(s.gray)
                   /\ s.obj[o].kind # "weak" => Done(s, o)
NoneDead(s) == \A o \in Ids : Exists(s, o) => ~isdead(s, o)
Marked(s, X) ==
  Graph(s) /\ NoneDead(s) /\ GrayLists(s) /\ NoGrayLeaf(s, X) /\ Closed(s, X)
\* What is traversed again before the sweep.
GrayUpvals(s) == {o \in Ids : IsOpenUpval(s, o) /\ s.obj[o].color = "gray"}
Again(s) == ToSet(s.grayagain) \cup GrayUpvals(s) \cup ToSet(s.tmudata)
Marking(s) == Marked(s, Again(s)) /\ ~iswhite(s, Main)

\* What the sweep has not reached.
After(q, z) ==
  {q[j] : j \in {j \in DOMAIN q : \A i \in DOMAIN q : q[i] = z => i < j}}
Ahead(s, o) == s.gcstate \in {"sweepstring", "sweep"} /\ o \in After(s.rootgc, s.sweepgc)
ToSweep(s, o) ==
  \/ o \in ToSet(s.tmudata)
  \/ s.obj[o].kind = "string" /\ s.gcstate = "sweepstring"
  \/ Ahead(s, o)
  \/ IsOpenUpval(s, o) /\ Ahead(s, s.obj[o].th)
AsNew(s, E) ==
  \A o \in Ids : Exists(s, o) /\ o \notin E => s.obj[o].color = s.currentwhite \/ ToSweep(s, o)
Sweeping(s, E) ==
  /\ AsNew(s, E)
  /\ s.gcstate \in {"sweepstring", "sweep"} => s.sweepgc = 0 \/ s.sweepgc \in ToSet(s.rootgc)
\* Between two steps of the collector, and in a full collection.
InvBut(s, E) ==
  /\ Graph(s) /\ RootLists(s, E)
  /\ IF s.gcstate = "propagate" THEN Marking(s) ELSE Sweeping(s, E)
CollectorInv(s) == InvBut(s, {})
NothingPending(s) == s.gcstate \in {"pause", "propagate"} => s.tmudata = <<>>
GcInv == CollectorInv(g) /\ NothingPending(g)

-----------------------------------------------------------------------------
(* Numbers, repetitions and lists.                                         *)

\* A set of natural numbers has a smallest element.
LEMMA LeastOf ==
  ASSUME NEW T, T \subseteq Nat, T # {}
  PROVE  Min(T) \in T /\ \A n \in T : Min(T) <= n
<1> DEFINE R == OpToRel(<, Nat)
<1>1. R = {ss \in Nat \X Nat : ss[1] < ss[2]}
  BY DEF OpToRel
<1>2. IsWellFoundedOn(R, Nat)
  BY NatLessThanWellFounded
<1> HIDE DEF R
<1>3. PICK m \in T : \A n \in T : ~(<<n, m>> \in R)
  BY <1>2, WFMin
<1>4. \A n \in T : m <= n
  <2> SUFFICES ASSUME NEW n \in T PROVE m <= n
    OBVIOUS
  <2>1. m \in Nat /\ n \in Nat /\ ~(<<n, m>> \in R)
    BY <1>3
  <2>2. ~(n < m)
    BY <2>1, <1>1
  <2> QED
    BY <2>1, <2>2
<1> QED
  BY <1>3, <1>4 DEF Min

\* What the first member of a family has, and each passes on, the last has.
LEMMA PassedOn ==
  ASSUME NEW k \in Nat, NEW m, NEW T,
         m[0] \in T[0], \A i \in 1 .. k : m[i - 1] \in T[i - 1] => m[i] \in T[i]
  PROVE  \A i \in 0 .. k : m[i] \in T[i]
<1> DEFINE Bad == {i \in 0 .. k : m[i] \notin T[i]}
<1> SUFFICES ASSUME Bad # {} PROVE FALSE
  OBVIOUS
<1>1. Bad \subseteq Nat
  OBVIOUS
<1>2. Min(Bad) \in Bad /\ \A i \in Bad : Min(Bad) <= i
  <2> HIDE DEF Bad
  <2> QED
    BY <1>1, LeastOf
<1>3. PICK i : i = Min(Bad)
  OBVIOUS
<1>4. i \in 0 .. k /\ m[i] \notin T[i] /\ \A j \in Bad : i <= j
  BY <1>2, <1>3
<1> HIDE DEF Bad
<1>5. i # 0
  BY <1>4
<1>6. i \in 1 .. k /\ i - 1 \in 0 .. k /\ ~(i <= i - 1)
  BY <1>4, <1>5
<1>7. m[i - 1] \in T[i - 1]
  BY <1>4, <1>6 DEF Bad
<1> QED
  BY <1>4, <1>6, <1>7

\* A repetition whose steps stay within a family of sets exists: Step[i] is
\* the i-th step.
Within(k, T, Step) == \A i \in 1 .. k : \A x \in T[i - 1] : Step[i][x] \in T[i]
Repeats(k, T, Step, s, m) ==
  /\ m = [i \in 0 .. k |-> IF i = 0 THEN s ELSE Step[i][m[i - 1]]]
  /\ \A i \in 0 .. k : m[i] \in T[i]
LEMMA Repeated ==
  ASSUME NEW k \in Nat, NEW T, NEW Step, NEW s, s \in T[0], Within(k, T, Step)
  PROVE  \E m : Repeats(k, T, Step, s, m)
<1> DEFINE Upto(m, j) == m = [i \in 0 .. j |-> IF i = 0 THEN s ELSE Step[i][m[i - 1]]]
           Bad == {j \in 0 .. k : ~\E m : Upto(m, j)}
<1>1. \A j \in 0 .. k : \E m : Upto(m, j)
  <2> SUFFICES ASSUME Bad # {} PROVE FALSE
    OBVIOUS
  <2>1. Bad \subseteq Nat
    OBVIOUS
  <2>2. Min(Bad) \in Bad /\ \A i \in Bad : Min(Bad) <= i
    <3> HIDE DEF Bad
    <3> QED
      BY <2>1, LeastOf
  <2>3. PICK j : j = Min(Bad)
    OBVIOUS
  <2>4. j \in 0 .. k /\ (~\E m : Upto(m, j)) /\ \A i \in Bad : j <= i
    BY <2>2, <2>3
  <2>5. j # 0
    <3>1. Upto([i \in {0} |-> s], 0)
      BY SMT
    <3> QED
      BY <3>1, <2>4
  <2>6. j \in 1 .. k /\ j - 1 \in 0 .. k /\ ~(j <= j - 1)
    BY <2>4, <2>5
  <2>7. PICK m : Upto(m, j - 1)
    BY <2>4, <2>6
  <2> DEFINE w == [i \in 0 .. j |-> IF i = j THEN Step[j][m[j - 1]] ELSE m[i]]
  <2>8. \A i \in 0 .. j : w[i] = IF i = 0 THEN s ELSE Step[i][w[i - 1]]
    <3> SUFFICES ASSUME NEW i \in 0 .. j PROVE w[i] = IF i = 0 THEN s ELSE Step[i][w[i - 1]]
      OBVIOUS
    <3>1. CASE i = 0
      BY <3>1, <2>6, <2>7
    <3>2. CASE i # 0 /\ i # j
      <4>1. i \in 0 .. j - 1 /\ i - 1 \in 0 .. j /\ i - 1 # j /\ i # j
        BY <3>2, <2>6
      <4>2. w[i] = m[i] /\ w[i - 1] = m[i - 1]
        BY <4>1
      <4>3. m[i] = Step[i][m[i - 1]]
        BY <2>7, <4>1, <3>2
      <4> QED
        BY <4>2, <4>3, <3>2
    <3>3. CASE i = j
      <4>1. j - 1 \in 0 .. j /\ j - 1 # j /\ j \in 0 .. j
        BY <2>6
      <4>2. w[j - 1] = m[j - 1] /\ w[j] = Step[j][m[j - 1]]
        BY <4>1
      <4> QED
        BY <3>3, <4>2, <2>5
    <3> QED
      BY <3>1, <3>2, <3>3
  <2>9. Upto(w, j)
    BY <2>8
  <2> QED
    BY <2>9, <2>4
<1>2. PICK m : Upto(m, k)
  <2>1. k \in 0 .. k
    OBVIOUS
  <2> HIDE DEF Upto
  <2> QED
    BY <1>1, <2>1
<1>3. m[0] = s /\ \A i \in 1 .. k : m[i] = Step[i][m[i - 1]]
  BY <1>2
<1>4. \A i \in 1 .. k : m[i - 1] \in T[i - 1] => m[i] \in T[i]
  BY <1>3 DEF Within
<1>5. \A i \in 0 .. k : m[i] \in T[i]
  <2> HIDE DEF Upto
  <2> QED
    BY <1>3, <1>4, PassedOn
<1> QED
  BY <1>2, <1>5 DEF Repeats

LEMMA Constants ==
  /\ Main \in Ids /\ GlobalTable \in Ids /\ 0 \notin Ids /\ Ids \subseteq Nat
  /\ IsFiniteSet(Ids) /\ StackSlots \in Nat /\ 1 \in Places /\ StackSlots \in Places
  /\ MaxObjects \in Nat /\ MaxObjects >= 3 /\ Dynamic \subseteq Ids
  /\ Ids = 1 .. MaxObjects + 2 /\ GCSWEEPMAX \in Nat \ {0} /\ StackSlots # 1
<1>1. MaxObjects \in Nat /\ StackSlots \in Nat /\ GCSWEEPMAX \in Nat /\ GCSWEEPMAX # 0
      /\ MaxObjects >= 3 /\ StackSlots >= 2
  BY GcAssumption
<1>2. IsFiniteSet(1 .. MaxObjects + 2)
  BY <1>1, FS_Interval
<1> QED
  BY <1>1, <1>2 DEF Main, GlobalTable, Ids, Places, Dynamic

\* A list of objects with one more in front.
LEMMA PushIs ==
  ASSUME NEW q \in Seq(Ids), NEW o \in Ids
  PROVE  /\ <<o>> \o q \in Seq(Ids) /\ Len(<<o>> \o q) = Len(q) + 1
         /\ \A p : p \in ToSet(<<o>> \o q) <=> p = o \/ p \in ToSet(q)
         /\ IsInjective(q) /\ o \notin ToSet(q) => IsInjective(<<o>> \o q)
<1> DEFINE w == <<o>> \o q
<1>1. w \in Seq(Ids) /\ Len(w) = Len(q) + 1 /\ Len(q) \in Nat
  OBVIOUS
<1>2. \A i \in 1 .. Len(q) + 1 : w[i] = IF i = 1 THEN o ELSE q[i - 1]
  OBVIOUS
<1>3. DOMAIN w = 1 .. Len(q) + 1 /\ DOMAIN q = 1 .. Len(q)
  BY <1>1
<1> HIDE DEF w
<1>4. ASSUME NEW p PROVE p \in ToSet(w) <=> p = o \/ p \in ToSet(q)
  <2>1. ASSUME p \in ToSet(w) PROVE p = o \/ p \in ToSet(q)
    <3>1. PICK i \in 1 .. Len(q) + 1 : w[i] = p
      BY <2>1, <1>3 DEF ToSet
    <3>2. CASE i = 1
      BY <3>1, <3>2, <1>2
    <3>3. CASE i # 1
      <4>1. i - 1 \in 1 .. Len(q) /\ w[i] = q[i - 1]
        BY <1>1, <1>2, <3>3
      <4> QED
        BY <4>1, <3>1, <1>3 DEF ToSet
    <3> QED
      BY <3>2, <3>3
  <2>2. o \in ToSet(w)
    <3>1. 1 \in 1 .. Len(q) + 1
      BY <1>1
    <3> QED
      BY <3>1, <1>2, <1>3 DEF ToSet
  <2>3. ASSUME p \in ToSet(q) PROVE p \in ToSet(w)
    <3>1. PICK i \in 1 .. Len(q) : q[i] = p
      BY <2>3, <1>3 DEF ToSet
    <3>2. i + 1 \in 1 .. Len(q) + 1 /\ i + 1 # 1 /\ (i + 1) - 1 = i
      BY <1>1
    <3>3. w[i + 1] = p
      BY <3>1, <3>2, <1>2
    <3> QED
      BY <3>2, <3>3, <1>3 DEF ToSet
  <2> QED
    BY <2>1, <2>2, <2>3
<1>5. ASSUME IsInjective(q), o \notin ToSet(q) PROVE IsInjective(w)
  <2> SUFFICES ASSUME NEW i \in 1 .. Len(q) + 1, NEW j \in 1 .. Len(q) + 1, w[i] = w[j]
               PROVE  i = j
    BY <1>3 DEF IsInjective
  <2>1. \A n \in 1 .. Len(q) + 1 : n # 1 => n - 1 \in 1 .. Len(q) /\ w[n] = q[n - 1] /\ w[n] # o
    <3> SUFFICES ASSUME NEW n \in 1 .. Len(q) + 1, n # 1
                 PROVE  n - 1 \in 1 .. Len(q) /\ w[n] = q[n - 1] /\ w[n] # o
      OBVIOUS
    <3>1. n - 1 \in 1 .. Len(q) /\ w[n] = q[n - 1]
      BY <1>1, <1>2
    <3> QED
      BY <3>1, <1>3, <1>5 DEF ToSet
  <2>2. CASE i = 1 \/ j = 1
    BY <2>1, <2>2, <1>2
  <2>3. CASE i # 1 /\ j # 1
    <3>1. q[i - 1] = q[j - 1] /\ i - 1 \in DOMAIN q /\ j - 1 \in DOMAIN q
      BY <2>1, <2>3, <1>3
    <3>2. i - 1 = j - 1
      BY <3>1, <1>5 DEF IsInjective
    <3> QED
      BY <3>2
  <2> QED
    BY <2>2, <2>3
<1> QED
  BY <1>1, <1>4, <1>5 DEF w

\* A list without its first object.
LEMMA PopIs ==
  ASSUME NEW q \in Seq(Ids), q # <<>>
  PROVE  /\ Head(q) \in Ids /\ Tail(q) \in Seq(Ids) /\ Len(q) = Len(Tail(q)) + 1
         /\ Head(q) \in ToSet(q) /\ \A p \in ToSet(Tail(q)) : p \in ToSet(q)
         /\ IsInjective(q) => IsInjective(Tail(q)) /\ Head(q) \notin ToSet(Tail(q))
                                /\ \A p \in ToSet(q) : p # Head(q) => p \in ToSet(Tail(q))
<1> DEFINE w == Tail(q)
<1>1. w \in Seq(Ids) /\ Len(q) = Len(w) + 1 /\ Len(w) \in Nat /\ Head(q) = q[1] /\ q[1] \in Ids
  OBVIOUS
<1>2. \A i \in 1 .. Len(w) : w[i] = q[i + 1]
  OBVIOUS
<1>3. DOMAIN w = 1 .. Len(w) /\ DOMAIN q = 1 .. Len(w) + 1
  BY <1>1
<1> HIDE DEF w
<1>4. \A p \in ToSet(w) : p \in ToSet(q)
  BY <1>1, <1>2, <1>3 DEF ToSet
<1>5. q[1] \in ToSet(q)
  BY <1>1, <1>3 DEF ToSet
<1>6. ASSUME IsInjective(q)
      PROVE  IsInjective(w) /\ q[1] \notin ToSet(w) /\ \A p \in ToSet(q) : p # q[1] => p \in ToSet(w)
  <2>1. \A i, j \in 1 .. Len(w) + 1 : q[i] = q[j] => i = j
    BY <1>3, <1>6 DEF IsInjective
  <2>2. IsInjective(w)
    <3> SUFFICES ASSUME NEW i \in 1 .. Len(w), NEW j \in 1 .. Len(w), w[i] = w[j] PROVE i = j
      BY <1>3 DEF IsInjective
    <3>1. i + 1 \in 1 .. Len(w) + 1 /\ j + 1 \in 1 .. Len(w) + 1
      BY <1>1
    <3>2. i + 1 = j + 1
      BY <3>1, <2>1, <1>2
    <3> QED
      BY <3>2
  <2>3. q[1] \notin ToSet(w)
    <3> SUFFICES ASSUME NEW i \in 1 .. Len(w), w[i] = q[1] PROVE FALSE
      BY <1>3 DEF ToSet
    <3>1. i + 1 \in 1 .. Len(w) + 1 /\ 1 \in 1 .. Len(w) + 1 /\ i + 1 # 1
      BY <1>1
    <3> QED
      BY <3>1, <2>1, <1>2
  <2>4. ASSUME NEW p \in ToSet(q), p # q[1] PROVE p \in ToSet(w)
    <3>1. PICK i \in 1 .. Len(w) + 1 : q[i] = p
      BY <1>3 DEF ToSet
    <3>2. i # 1
      BY <3>1, <2>4
    <3>3. i - 1 \in 1 .. Len(w) /\ (i - 1) + 1 = i
      BY <3>2, <1>1
    <3>4. w[i - 1] = p
      BY <3>1, <3>3, <1>2
    <3> QED
      BY <3>3, <3>4, <1>3 DEF ToSet
  <2> QED
    BY <2>2, <2>3, <2>4
<1> QED
  BY <1>1, <1>4, <1>5, <1>6 DEF w

\* Two lists, one behind the other.
LEMMA JoinIs ==
  ASSUME NEW q \in Seq(Ids), NEW w \in Seq(Ids)
  PROVE  /\ q \o w \in Seq(Ids)
         /\ \A p : p \in ToSet(q \o w) <=> p \in ToSet(q) \/ p \in ToSet(w)
         /\ IsInjective(q) /\ IsInjective(w) /\ (\A p \in ToSet(q) : p \notin ToSet(w))
              => IsInjective(q \o w)
<1> DEFINE b == q \o w
           m == Len(q)
           n == Len(w)
<1>1. b \in Seq(Ids) /\ Len(b) = m + n /\ m \in Nat /\ n \in Nat
  OBVIOUS
<1>2. \A i \in 1 .. m + n : b[i] = IF i <= m THEN q[i] ELSE w[i - m]
  OBVIOUS
<1>3. DOMAIN b = 1 .. m + n /\ DOMAIN q = 1 .. m /\ DOMAIN w = 1 .. n
  BY <1>1
<1> HIDE DEF b, m, n
<1>4. \A i \in 1 .. m : i \in 1 .. m + n /\ b[i] = q[i]
  BY <1>1, <1>2
<1>5. \A i \in 1 .. n : i + m \in 1 .. m + n /\ b[i + m] = w[i]
  <2> SUFFICES ASSUME NEW i \in 1 .. n PROVE i + m \in 1 .. m + n /\ b[i + m] = w[i]
    OBVIOUS
  <2>1. i + m \in 1 .. m + n /\ ~(i + m <= m) /\ (i + m) - m = i
    BY <1>1
  <2> QED
    BY <2>1, <1>2
<1>6. \A i \in 1 .. m + n : (i \in 1 .. m /\ b[i] = q[i]) \/ (i - m \in 1 .. n /\ b[i] = w[i - m])
  BY <1>1, <1>2
<1>7. ASSUME NEW p PROVE p \in ToSet(b) <=> p \in ToSet(q) \/ p \in ToSet(w)
  <2>1. ASSUME p \in ToSet(b) PROVE p \in ToSet(q) \/ p \in ToSet(w)
    BY <2>1, <1>3, <1>6 DEF ToSet
  <2>2. ASSUME p \in ToSet(q) PROVE p \in ToSet(b)
    BY <2>2, <1>3, <1>4 DEF ToSet
  <2>3. ASSUME p \in ToSet(w) PROVE p \in ToSet(b)
    <3>1. PICK i \in 1 .. n : w[i] = p
      BY <2>3, <1>3 DEF ToSet
    <3> QED
      BY <3>1, <1>3, <1>5 DEF ToSet
  <2> QED
    BY <2>1, <2>2, <2>3
<1>8. ASSUME IsInjective(q), IsInjective(w), \A p \in ToSet(q) : p \notin ToSet(w)
      PROVE  IsInjective(b)
  <2> SUFFICES ASSUME NEW i \in 1 .. m + n, NEW j \in 1 .. m + n, b[i] = b[j] PROVE i = j
    BY <1>3 DEF IsInjective
  <2>1. \A x \in 1 .. m : \A y \in 1 .. n : q[x] # w[y]
    BY <1>3, <1>8 DEF ToSet
  <2>2. \A x, y \in 1 .. m : q[x] = q[y] => x = y
    BY <1>3, <1>8 DEF IsInjective
  <2>3. \A x, y \in 1 .. n : w[x] = w[y] => x = y
    BY <1>3, <1>8 DEF IsInjective
  <2>4. CASE i \in 1 .. m /\ b[i] = q[i]
    <3>1. j \in 1 .. m /\ b[j] = q[j]
      BY <2>1, <2>4, <1>6
    <3> QED
      BY <3>1, <2>4, <2>2
  <2>5. CASE i - m \in 1 .. n /\ b[i] = w[i - m]
    <3>1. j - m \in 1 .. n /\ b[j] = w[j - m]
      BY <2>1, <2>5, <1>6
    <3>2. i - m = j - m
      BY <3>1, <2>5, <2>3
    <3> QED
      BY <3>2, <1>1
  <2> QED
    BY <2>4, <2>5, <1>6
<1> QED
  BY <1>1, <1>7, <1>8 DEF b

LEMMA EmptyIs == <<>> \in Seq(Ids) /\ IsInjective(<<>>) /\ \A p : p \notin ToSet(<<>>)
BY DEF IsInjective, ToSet

-----------------------------------------------------------------------------
(* Painting.                                                               *)

LEMMA FieldsOf ==
  ASSUME NEW s \in States
  PROVE  /\ \A o \in Ids : /\ s.obj[o] \in Objects /\ s.obj[o].kind \in Kinds
                           /\ s.obj[o].color \in Colors /\ s.obj[o].val \in Names
                           /\ s.obj[o].slot \in Slots /\ s.obj[o].th \in Names
                           /\ s.obj[o].gc \in BOOLEAN /\ s.obj[o].final \in BOOLEAN
         /\ s.obj \in [Ids -> Objects] /\ s.rootgc \in Seq(Ids) /\ s.strt \subseteq Ids
         /\ s.tmudata \in Seq(Ids) /\ s.gray \in Seq(Ids) /\ s.grayagain \in Seq(Ids)
         /\ s.weak \in Seq(Ids) /\ s.currentwhite \in Whites /\ s.gcstate \in Phases
         /\ s.sweepgc \in Names /\ s.stack \in [Places -> Names]
BY DEF States, Objects

\* The same objects, referring to the same ones and in the same place of the
\* collection; colours and the lists of marked objects may differ.
SameGraph(s, r) ==
  /\ s \in States /\ r \in States
  /\ r.rootgc = s.rootgc /\ r.strt = s.strt /\ r.tmudata = s.tmudata
  /\ r.currentwhite = s.currentwhite /\ r.gcstate = s.gcstate /\ r.sweepgc = s.sweepgc
  /\ r.stack = s.stack
  /\ \A o \in Ids : /\ r.obj[o].kind = s.obj[o].kind /\ r.obj[o].val = s.obj[o].val
                    /\ r.obj[o].slot = s.obj[o].slot /\ r.obj[o].th = s.obj[o].th
SameLists(s, r) == r.gray = s.gray /\ r.grayagain = s.grayagain /\ r.weak = s.weak
OnlyPaints(s, r, o, c) ==
  r.obj[o].color = c /\ \A p \in Ids : p # o => r.obj[p].color = s.obj[p].color

LEMMA PaintedIs ==
  ASSUME NEW s \in States, NEW o \in Ids, NEW c \in Colors
  PROVE  /\ SameGraph(s, Painted(s, o, c)) /\ SameLists(s, Painted(s, o, c))
         /\ OnlyPaints(s, Painted(s, o, c), o, c)
<1> DEFINE e == [s.obj[o] EXCEPT !.color = c]
           ob == [s.obj EXCEPT ![o] = e]
           r == [s EXCEPT !.obj = ob]
<1>1. e \in Objects /\ e.color = c /\ e.kind = s.obj[o].kind /\ e.val = s.obj[o].val
      /\ e.slot = s.obj[o].slot /\ e.th = s.obj[o].th
  BY DEF States, Objects
<1>2. Painted(s, o, c) = r
  BY DEF Painted
<1> HIDE DEF e
<1>3. ob \in [Ids -> Objects] /\ ob[o] = e /\ \A p \in Ids : p # o => ob[p] = s.obj[p]
  BY <1>1 DEF States
<1> HIDE DEF ob
<1>4. r \in States
  BY <1>3 DEF States
<1>5. /\ r.obj = ob /\ r.rootgc = s.rootgc /\ r.strt = s.strt /\ r.tmudata = s.tmudata
      /\ r.currentwhite = s.currentwhite /\ r.gcstate = s.gcstate /\ r.sweepgc = s.sweepgc
      /\ r.stack = s.stack /\ r.gray = s.gray /\ r.grayagain = s.grayagain /\ r.weak = s.weak
  BY DEF States
<1> HIDE DEF r
<1> QED
  BY <1>1, <1>2, <1>3, <1>4, <1>5 DEF SameGraph, SameLists, OnlyPaints

\* Painted twice: the second paint counts.
LEMMA PaintedOver ==
  ASSUME NEW s \in States, NEW o \in Ids, NEW c \in Colors, NEW d \in Colors
  PROVE  Painted(Painted(s, o, c), o, d) = Painted(s, o, d)
<1> DEFINE e == [s.obj[o] EXCEPT !.color = c]
           ob == [s.obj EXCEPT ![o] = e]
           r == [s EXCEPT !.obj = ob]
<1>1. Painted(s, o, c) = r /\ Painted(s, o, d) = [s EXCEPT !.obj = [s.obj EXCEPT ![o] = [s.obj[o] EXCEPT !.color = d]]]
  BY DEF Painted
<1>2. Painted(r, o, d) = [r EXCEPT !.obj = [r.obj EXCEPT ![o] = [r.obj[o] EXCEPT !.color = d]]]
  BY DEF Painted
<1>3. r.obj = ob /\ ob[o] = e
  BY DEF States
<1>4. [e EXCEPT !.color = d] = [s.obj[o] EXCEPT !.color = d]
  BY DEF States, Objects
<1>5. [ob EXCEPT ![o] = [s.obj[o] EXCEPT !.color = d]] = [s.obj EXCEPT ![o] = [s.obj[o] EXCEPT !.color = d]]
  BY DEF States
<1> HIDE DEF e
<1> DEFINE ob2 == [s.obj EXCEPT ![o] = [s.obj[o] EXCEPT !.color = d]]
<1>6. Painted(r, o, d) = [r EXCEPT !.obj = ob2]
  BY <1>2, <1>3, <1>4, <1>5
<1> HIDE DEF ob, ob2
<1>7. [r EXCEPT !.obj = ob2] = [s EXCEPT !.obj = ob2]
  BY DEF States
<1> QED
  BY <1>1, <1>6, <1>7 DEF ob2

\* What a repainting leaves as it is.
LEMMA SameIs ==
  ASSUME NEW s, NEW r, SameGraph(s, r), OpenApart(s)
  PROVE  \A o \in Ids : /\ Exists(r, o) <=> Exists(s, o)
                        /\ IsOpenUpval(r, o) <=> IsOpenUpval(s, o)
                        /\ Strong(r, o) = Strong(s, o)
                        /\ Held(r, o) = Held(s, o)
                        /\ InRootgc(r, o) <=> InRootgc(s, o)
                        /\ Leaf(r, o) <=> Leaf(s, o)
<1> SUFFICES ASSUME NEW o \in Ids
             PROVE  /\ Exists(r, o) <=> Exists(s, o)
                    /\ IsOpenUpval(r, o) <=> IsOpenUpval(s, o)
                    /\ Strong(r, o) = Strong(s, o)
                    /\ Held(r, o) = Held(s, o)
                    /\ InRootgc(r, o) <=> InRootgc(s, o)
                    /\ Leaf(r, o) <=> Leaf(s, o)
  OBVIOUS
<1>1. Exists(r, o) <=> Exists(s, o)
  BY DEF Exists, SameGraph
<1>2. IsOpenUpval(r, o) <=> IsOpenUpval(s, o)
  BY DEF IsOpenUpval, SameGraph
<1>3. Held(r, o) = Held(s, o)
  <2>1. IsOpenUpval(s, o) => s.obj[o].th \in Ids
    BY DEF OpenApart
  <2> QED
    BY <1>2, <2>1 DEF Held, UpvalSlot, SameGraph
<1>4. Strong(r, o) = Strong(s, o)
  <2>1. s.obj[o].val \in Ids \cup {0}
    BY DEF SameGraph, States, Objects, Names
  <2>2. Kind(r, s.obj[o].val) = Kind(s, s.obj[o].val)
    BY <2>1 DEF Kind, SameGraph
  <2>3. r.obj[o].kind = s.obj[o].kind /\ r.obj[o].val = s.obj[o].val /\ r.stack = s.stack
    BY DEF SameGraph
  <2> QED
    BY <2>2, <2>3, <1>3 DEF Strong
<1>5. InRootgc(r, o) <=> InRootgc(s, o)
  BY <1>1, <1>2 DEF InRootgc, SameGraph
<1>6. Leaf(r, o) <=> Leaf(s, o)
  BY <1>2 DEF Leaf, SameGraph
<1> QED
  BY <1>1, <1>2, <1>3, <1>4, <1>5, <1>6

\* A repainting that spares the living, and the dead, leaves a graph one.
LEMMA GraphSame ==
  ASSUME NEW s, NEW r, Graph(s), SameGraph(s, r), BlackKinds(r),
         \A o \in Ids : Alive(r, o) <=> Alive(s, o)
  PROVE  Graph(r)
<1>1. s \in States /\ r \in States /\ OpenApart(s)
  BY DEF Graph, SameGraph
<1>2. \A o \in Ids : /\ Exists(r, o) <=> Exists(s, o)
                     /\ IsOpenUpval(r, o) <=> IsOpenUpval(s, o)
                     /\ Held(r, o) = Held(s, o)
                     /\ r.obj[o].kind = s.obj[o].kind /\ r.obj[o].val = s.obj[o].val
                     /\ r.obj[o].slot = s.obj[o].slot /\ r.obj[o].th = s.obj[o].th
  BY <1>1, SameIs DEF SameGraph
<1>3. \A v : Value(s, v) => Value(r, v)
  BY <1>2 DEF Value
<1>4. Main \in Ids /\ GlobalTable \in Ids /\ \A o \in Ids : s.obj[o].val \in Names
  BY <1>1, FieldsOf, Constants
<1>5. RootsAlive(r)
  <2>1. RootsAlive(s) /\ r.stack = s.stack
    BY DEF Graph, SameGraph
  <2> QED
    BY <1>2, <1>3, <1>4, <2>1 DEF RootsAlive
<1>6. AllRefer(r)
  <2> SUFFICES ASSUME NEW o \in Ids, Alive(r, o) PROVE Refers(r, o)
    BY DEF AllRefer
  <2>1. Refers(s, o)
    BY DEF Graph, AllRefer
  <2>2. \A v \in Names : v # 0 => v \in Ids
    BY DEF Names
  <2> QED
    BY <2>1, <2>2, <1>2, <1>3, <1>4 DEF Refers
<1>7. Plain(r)
  BY <1>2 DEF Graph, Plain
<1>8. OpenApart(r)
  BY <1>1, <1>2 DEF OpenApart
<1> QED
  BY <1>1, <1>5, <1>6, <1>7, <1>8 DEF Graph

\* No colour is that of the dead.
LEMMA GraphPainted ==
  ASSUME NEW s, NEW r, Graph(s), NoneDead(s), SameGraph(s, r), BlackKinds(r),
         \A o \in Ids : Exists(s, o) => r.obj[o].color # otherwhite(s)
  PROVE  Graph(r) /\ NoneDead(r)
<1>1. otherwhite(r) = otherwhite(s)
  BY DEF otherwhite, SameGraph
<1>2. \A o \in Ids : Exists(r, o) <=> Exists(s, o)
  BY DEF Exists, SameGraph
<1>3. NoneDead(r)
  BY <1>1, <1>2 DEF NoneDead, isdead
<1>4. \A o \in Ids : Alive(r, o) <=> Alive(s, o)
  BY <1>2, <1>3 DEF NoneDead, Alive
<1>5. Graph(r)
  BY <1>4, GraphSame
<1> QED
  BY <1>3, <1>5

-----------------------------------------------------------------------------
(* One object is marked.                                                    *)

LEMMA Colours ==
  ASSUME NEW s \in States
  PROVE  /\ otherwhite(s) \in Whites /\ otherwhite(s) # s.currentwhite
         /\ \A o : iswhite(s, o) <=> s.obj[o].color \in Whites
         /\ \A o : isdead(s, o) <=> s.obj[o].color = otherwhite(s)
BY DEF otherwhite, iswhite, isdead, States, Whites

\* Marks are not taken back, and there are fewer to make.
Darker(s, r) ==
  /\ SameGraph(s, r) /\ \A p \in Ids : ~iswhite(s, p) => ~iswhite(r, p)
  /\ \A p \in Ids : s.obj[p].color = "black" => r.obj[p].color = "black"
  /\ MarksLeft(r) <= MarksLeft(s)
SameUpvals(s, r) ==
  \A p \in Ids : s.obj[p].kind = "upval" => r.obj[p].color = s.obj[p].color
SameAgain(s, r) == r.grayagain = s.grayagain /\ r.weak = s.weak

LEMMA MarksLeftNat ==
  ASSUME NEW s \in States
  PROVE  MarksLeft(s) \in Nat /\ Len(s.gray) <= MarksLeft(s)
<1> DEFINE W == {o \in Ids : iswhite(s, o)}
<1>1. IsFiniteSet(W)
  BY Constants, FS_Subset
<1>2. Cardinality(W) \in Nat
  BY <1>1, FS_CardinalityType
<1>3. Len(s.gray) \in Nat
  BY FieldsOf
<1>4. MarksLeft(s) = Len(s.gray) + Cardinality(W)
  BY DEF MarksLeft
<1> HIDE DEF W
<1> QED
  BY <1>2, <1>3, <1>4

\* The list may grow by as many objects as are no longer white.
LEMMA FewerWhites ==
  ASSUME NEW s \in States, NEW r \in States,
         \A p \in Ids : ~iswhite(s, p) => ~iswhite(r, p)
  PROVE  /\ Len(r.gray) <= Len(s.gray) => MarksLeft(r) <= MarksLeft(s)
         /\ Len(r.gray) + 1 <= Len(s.gray) => MarksLeft(r) + 1 <= MarksLeft(s)
         /\ \A o \in Ids : iswhite(s, o) /\ ~iswhite(r, o) /\ Len(r.gray) <= Len(s.gray) + 1
                             => MarksLeft(r) <= MarksLeft(s)
<1> DEFINE W == {p \in Ids : iswhite(s, p)}
           V == {p \in Ids : iswhite(r, p)}
           w == Cardinality(W)
           v == Cardinality(V)
           m == Len(s.gray)
           n == Len(r.gray)
<1>1. IsFiniteSet(W) /\ V \subseteq W
  BY Constants, FS_Subset
<1>2. IsFiniteSet(V) /\ v <= w /\ v \in Nat /\ w \in Nat
  <2> HIDE DEF V, W
  <2> QED
    BY <1>1, FS_Subset, FS_CardinalityType
<1>3. m \in Nat /\ n \in Nat /\ MarksLeft(s) = m + w /\ MarksLeft(r) = n + v
  BY FieldsOf DEF MarksLeft
<1>4. ASSUME NEW o \in Ids, iswhite(s, o), ~iswhite(r, o)
      PROVE  v + 1 <= w
  <2>1. o \in W /\ V \subseteq W \ {o}
    BY <1>1, <1>4
  <2> HIDE DEF V, W
  <2>2. Cardinality(W \ {o}) = w - 1 /\ IsFiniteSet(W \ {o})
    BY <1>1, <2>1, FS_RemoveElement
  <2>3. v <= w - 1
    BY <2>1, <2>2, FS_Subset
  <2> QED
    BY <2>3, <1>2
<1> HIDE DEF V, W, v, w, m, n
<1>5. n <= m => MarksLeft(r) <= MarksLeft(s)
  BY <1>2, <1>3
<1>6. n + 1 <= m => MarksLeft(r) + 1 <= MarksLeft(s)
  BY <1>2, <1>3
<1>7. v + 1 <= w /\ n <= m + 1 => MarksLeft(r) <= MarksLeft(s)
  BY <1>2, <1>3
<1> QED
  BY <1>4, <1>5, <1>6, <1>7 DEF m, n

\* A string, an upvalue or a userdata is painted: it is on no list.
LEMMA MarkedOne ==
  ASSUME NEW s, NEW r, NEW X, NEW o \in Ids, NEW c \in {"gray", "black"}, Marked(s, X),
         SameGraph(s, r), SameLists(s, r), OnlyPaints(s, r, o, c),
         s.obj[o].kind \in {"string", "upval", "udata"},
         IF c = "black" THEN Leaf(s, o) ELSE iswhite(s, o)
  PROVE  /\ Marked(r, X \cup {o}) /\ Darker(s, r) /\ SameAgain(s, r)
         /\ s.obj[o].kind # "upval" => SameUpvals(s, r)
<1>1. s \in States /\ r \in States /\ Graph(s) /\ NoneDead(s) /\ OpenApart(s)
  BY DEF Marked, Graph, SameGraph
<1>2. otherwhite(s) \in Whites /\ c \notin Whites
  BY <1>1, Colours DEF Whites
<1>3. \A p \in Ids : /\ Exists(r, p) <=> Exists(s, p)
                     /\ IsOpenUpval(r, p) <=> IsOpenUpval(s, p)
                     /\ Strong(r, p) = Strong(s, p)
                     /\ Leaf(r, p) <=> Leaf(s, p)
                     /\ r.obj[p].kind = s.obj[p].kind
  BY <1>1, SameIs DEF SameGraph
<1>4. r.obj[o].color = c /\ \A p \in Ids : p # o => r.obj[p].color = s.obj[p].color
  BY DEF OnlyPaints
<1>5. BlackKinds(r)
  <2> SUFFICES ASSUME NEW p \in Ids, r.obj[p].color = "black"
               PROVE  r.obj[p].kind \in Blacks /\ ~IsOpenUpval(r, p)
    BY DEF BlackKinds
  <2>1. CASE p = o
    <3>1. Leaf(s, o)
      BY <2>1, <1>4
    <3>2. s.obj[o].kind \in Blacks /\ ~IsOpenUpval(s, o)
      BY <3>1 DEF Leaf, Blacks, IsOpenUpval
    <3> QED
      BY <3>2, <2>1, <1>3
  <2>2. CASE p # o
    <3>1. s.obj[p].color = "black"
      BY <2>2, <1>4
    <3> QED
      BY <3>1, <1>1, <1>3 DEF BlackKinds, Graph
  <2> QED
    BY <2>1, <2>2
<1>6. \A p \in Ids : Exists(s, p) => r.obj[p].color # otherwhite(s)
  BY <1>1, <1>2, <1>4 DEF NoneDead, isdead
<1>7. Graph(r) /\ NoneDead(r)
  BY <1>1, <1>5, <1>6, GraphPainted
<1>8. \A p \in Ids : ~iswhite(s, p) => ~iswhite(r, p)
  BY <1>1, <1>2, <1>4, Colours
<1>9. r.gray = s.gray /\ r.grayagain = s.grayagain /\ r.weak = s.weak
  BY DEF SameLists
<1>10. GrayLists(s)
  BY DEF Marked
<1>11. GrayLists(r)
  <2>1. ~Listed(s, o)
    <3>1. \A q \in Seq(Ids) : \A p \in ToSet(q) : p \in Ids
      BY DEF ToSet
    <3> QED
      BY <1>10 DEF GrayLists, Listed, Traversed
  <2>2. ListsApart(r) /\ \A p : Listed(r, p) <=> Listed(s, p)
    BY <1>9, <1>10 DEF GrayLists, ListsApart, Listed
  <2>3. \A p \in Ids : Listed(r, p) => r.obj[p].color = "gray"
    BY <2>1, <2>2, <1>4, <1>10 DEF GrayLists
  <2>4. \A p \in Ids : r.obj[p].color = "gray" /\ r.obj[p].kind \in Traversed => Listed(r, p)
    BY <2>2, <1>3, <1>4, <1>10 DEF GrayLists, Traversed
  <2>5. (\A p \in ToSet(s.gray) : p \in Ids) /\ (\A p \in ToSet(s.grayagain) : p \in Ids)
        /\ \A p \in ToSet(s.weak) : p \in Ids
    BY <1>1, FieldsOf DEF ToSet
  <2> QED
    BY <2>2, <2>3, <2>4, <2>5, <1>3, <1>9, <1>10 DEF GrayLists
<1>12. NoGrayLeaf(r, X \cup {o})
  BY <1>3, <1>4 DEF NoGrayLeaf, Marked
<1>13. Closed(r, X \cup {o})
  <2> SUFFICES ASSUME NEW p \in Ids, p \notin X \cup {o}, Exists(r, p), ~iswhite(r, p),
                      p \notin ToSet(r.gray), r.obj[p].kind # "weak"
               PROVE  Done(r, p)
    BY DEF Closed
  <2>1. p # o /\ p \notin X /\ Exists(s, p) /\ s.obj[p].kind # "weak" /\ p \notin ToSet(s.gray)
    BY <1>3, <1>9
  <2>2. ~iswhite(s, p)
    BY <2>1, <1>4 DEF iswhite
  <2>3. Done(s, p)
    BY <2>1, <2>2 DEF Closed, Marked
  <2> QED
    BY <2>3, <1>3, <1>8 DEF Done
<1>14. Darker(s, r)
  <2>1. Len(r.gray) <= Len(s.gray)
    BY <1>1, <1>9, FieldsOf
  <2>2. \A p \in Ids : s.obj[p].color = "black" => r.obj[p].color = "black"
    BY <1>4 DEF iswhite
  <2> QED
    BY <2>1, <2>2, <1>1, <1>8, FewerWhites DEF Darker
<1> QED
  BY <1>4, <1>7, <1>9, <1>11, <1>12, <1>13, <1>14 DEF Marked, SameAgain, SameUpvals

\* What refers to marked objects needs no exception.
LEMMA Released ==
  ASSUME NEW s, NEW X, NEW o \in Ids, Marked(s, X \cup {o}), Done(s, o),
         s.obj[o].color = "gray" => ~Leaf(s, o)
  PROVE  Marked(s, X)
BY DEF Marked, NoGrayLeaf, Closed

LEMMA SameChain ==
  ASSUME NEW s, NEW r, NEW w
  PROVE  /\ SameGraph(s, r) /\ SameGraph(r, w) => SameGraph(s, w)
         /\ Darker(s, r) /\ Darker(r, w) => Darker(s, w)
         /\ SameAgain(s, r) /\ SameAgain(r, w) => SameAgain(s, w)
         /\ SameUpvals(s, r) /\ SameUpvals(r, w) /\ SameGraph(s, r) => SameUpvals(s, w)
         /\ s \in States => SameGraph(s, s) /\ Darker(s, s) /\ SameAgain(s, s) /\ SameUpvals(s, s)
<1>1. SameGraph(s, r) /\ SameGraph(r, w) => SameGraph(s, w)
  BY DEF SameGraph
<1>2. Darker(s, r) /\ Darker(r, w) => Darker(s, w)
  <2> SUFFICES ASSUME Darker(s, r), Darker(r, w) PROVE Darker(s, w)
    OBVIOUS
  <2>1. s \in States /\ r \in States /\ w \in States
    BY DEF Darker, SameGraph
  <2>2. MarksLeft(s) \in Nat /\ MarksLeft(r) \in Nat /\ MarksLeft(w) \in Nat
    BY <2>1, MarksLeftNat
  <2>3. MarksLeft(r) <= MarksLeft(s) /\ MarksLeft(w) <= MarksLeft(r)
    BY DEF Darker
  <2>4. MarksLeft(w) <= MarksLeft(s)
    BY <2>2, <2>3
  <2> QED
    BY <2>4, <1>1 DEF Darker
<1>3. s \in States => SameGraph(s, s) /\ Darker(s, s)
  <2> SUFFICES ASSUME s \in States PROVE SameGraph(s, s) /\ Darker(s, s)
    OBVIOUS
  <2>1. MarksLeft(s) <= MarksLeft(s)
    BY MarksLeftNat
  <2> QED
    BY <2>1 DEF SameGraph, Darker
<1> QED
  BY <1>1, <1>2, <1>3 DEF SameAgain, SameUpvals, SameGraph

\* The lists that only a marking collection uses.
ListsSet(r, w, q1, q2, q3) == w = [r EXCEPT !.gray = q1, !.grayagain = q2, !.weak = q3]
LEMMA WithLists ==
  ASSUME NEW r \in States, NEW q1 \in Seq(Ids), NEW q2 \in Seq(Ids), NEW q3 \in Seq(Ids),
         NEW w, ListsSet(r, w, q1, q2, q3)
  PROVE  /\ w.gray = q1 /\ w.grayagain = q2 /\ w.weak = q3 /\ w.obj = r.obj
         /\ SameGraph(r, w)
<1>1. w \in States
  BY DEF States, ListsSet
<1>2. w.gray = q1 /\ w.grayagain = q2 /\ w.weak = q3 /\ w.obj = r.obj
  BY DEF States, ListsSet
<1>3. w.rootgc = r.rootgc /\ w.strt = r.strt /\ w.tmudata = r.tmudata
      /\ w.currentwhite = r.currentwhite /\ w.gcstate = r.gcstate /\ w.sweepgc = r.sweepgc
      /\ w.stack = r.stack
  BY DEF States, ListsSet
<1> QED
  BY <1>1, <1>2, <1>3 DEF SameGraph

\* A white object joins the list.
LEMMA PushGrayMarks ==
  ASSUME NEW s, NEW X, NEW o \in Ids, Marked(s, X), iswhite(s, o), s.obj[o].kind \in Traversed
  PROVE  LET r == PushGray(s, o)
         IN  /\ Marked(r, X) /\ Darker(s, r) /\ SameAgain(s, r) /\ SameUpvals(s, r)
             /\ ~iswhite(r, o)
<1> DEFINE r == PushGray(s, o)
           p0 == Painted(s, o, "gray")
           q == <<o>> \o s.gray
<1>1. s \in States /\ Graph(s) /\ NoneDead(s) /\ OpenApart(s) /\ GrayLists(s) /\ Exists(s, o)
  BY DEF Marked, Graph, Exists, Traversed
<1>2. SameGraph(s, p0) /\ SameLists(s, p0) /\ OnlyPaints(s, p0, o, "gray") /\ p0 \in States
  BY <1>1, PaintedIs DEF Colors, SameGraph
<1>3. r = [p0 EXCEPT !.gray = <<o>> \o @]
  BY DEF PushGray
<1>4. p0.gray = s.gray /\ p0.grayagain = s.grayagain /\ p0.weak = s.weak
  BY <1>2 DEF SameLists
<1>5. s.gray \in Seq(Ids) /\ s.grayagain \in Seq(Ids) /\ s.weak \in Seq(Ids)
  BY <1>1, FieldsOf
<1>6. q \in Seq(Ids) /\ Len(q) = Len(s.gray) + 1
      /\ (\A p : p \in ToSet(q) <=> p = o \/ p \in ToSet(s.gray))
      /\ (IsInjective(s.gray) /\ o \notin ToSet(s.gray) => IsInjective(q))
  BY <1>5, PushIs
<1> HIDE DEF p0
<1>7. ListsSet(p0, r, q, s.grayagain, s.weak)
  BY <1>2, <1>3, <1>4 DEF States, ListsSet
<1> HIDE DEF q, r
<1>8. r.gray = q /\ r.grayagain = s.grayagain /\ r.weak = s.weak /\ r.obj = p0.obj
      /\ SameGraph(p0, r)
  BY <1>2, <1>5, <1>6, <1>7, WithLists
<1>9. SameGraph(s, r) /\ r \in States
  BY <1>2, <1>8, SameChain DEF SameGraph
<1>10. r.obj[o].color = "gray" /\ \A p \in Ids : p # o => r.obj[p].color = s.obj[p].color
  BY <1>2, <1>8 DEF OnlyPaints
<1>11. \A p \in Ids : /\ Exists(r, p) <=> Exists(s, p)
                      /\ IsOpenUpval(r, p) <=> IsOpenUpval(s, p)
                      /\ Strong(r, p) = Strong(s, p)
                      /\ Leaf(r, p) <=> Leaf(s, p)
                      /\ r.obj[p].kind = s.obj[p].kind
  BY <1>1, <1>9, SameIs DEF SameGraph
<1>12. otherwhite(s) \in Whites /\ "gray" \notin Whites
  BY <1>1, Colours DEF Whites
<1>13. BlackKinds(r)
  BY <1>1, <1>10, <1>11 DEF BlackKinds, Graph
<1>14. \A p \in Ids : Exists(s, p) => r.obj[p].color # otherwhite(s)
  BY <1>1, <1>10, <1>12 DEF NoneDead, isdead
<1>15. Graph(r) /\ NoneDead(r)
  BY <1>1, <1>9, <1>13, <1>14, GraphPainted
<1>16. \A p \in Ids : ~iswhite(s, p) => ~iswhite(r, p)
  BY <1>1, <1>9, <1>10, <1>12, Colours
<1>17. ~iswhite(r, o)
  BY <1>9, <1>10, <1>12, Colours
<1>18. ~Listed(s, o)
  BY <1>1 DEF GrayLists, iswhite
<1>19. GrayLists(r)
  <2>1. ListsApart(r)
    BY <1>1, <1>6, <1>8, <1>18 DEF GrayLists, ListsApart, Listed
  <2>2. \A p : Listed(r, p) <=> p = o \/ Listed(s, p)
    BY <1>6, <1>8 DEF Listed
  <2>3. \A p \in Ids : Listed(r, p) => r.obj[p].color = "gray"
    BY <2>2, <1>1, <1>10 DEF GrayLists
  <2>4. \A p \in Ids : r.obj[p].color = "gray" /\ r.obj[p].kind \in Traversed => Listed(r, p)
    BY <2>2, <1>1, <1>10, <1>11 DEF GrayLists
  <2>5. (\A p \in ToSet(s.gray) : p \in Ids) /\ (\A p \in ToSet(s.grayagain) : p \in Ids)
        /\ \A p \in ToSet(s.weak) : p \in Ids
    BY <1>5 DEF ToSet
  <2>6. \A p \in ToSet(r.gray) : r.obj[p].kind \in Traversed
    BY <2>5, <1>1, <1>6, <1>8, <1>11 DEF GrayLists
  <2>7. (\A p \in ToSet(r.grayagain) : r.obj[p].kind \in {"table", "thread"})
        /\ \A p \in ToSet(r.weak) : r.obj[p].kind = "weak"
    BY <2>5, <1>1, <1>8, <1>11 DEF GrayLists
  <2> QED
    BY <2>1, <2>3, <2>4, <2>6, <2>7 DEF GrayLists
<1>20. NoGrayLeaf(r, X)
  <2>1. ~Leaf(s, o)
    BY DEF Leaf, Traversed
  <2> QED
    BY <2>1, <1>10, <1>11 DEF NoGrayLeaf, Marked
<1>21. Closed(r, X)
  <2> SUFFICES ASSUME NEW p \in Ids, p \notin X, Exists(r, p), ~iswhite(r, p),
                      p \notin ToSet(r.gray), r.obj[p].kind # "weak"
               PROVE  Done(r, p)
    BY DEF Closed
  <2>1. p # o /\ Exists(s, p) /\ s.obj[p].kind # "weak" /\ p \notin ToSet(s.gray)
    BY <1>6, <1>8, <1>11
  <2>2. ~iswhite(s, p)
    BY <2>1, <1>10 DEF iswhite
  <2>3. Done(s, p)
    BY <2>1, <2>2 DEF Closed, Marked
  <2> QED
    BY <2>3, <1>11, <1>16 DEF Done
<1>22. Darker(s, r)
  <2>1. Len(r.gray) <= Len(s.gray) + 1
    BY <1>5, <1>6, <1>8
  <2>2. \A p \in Ids : s.obj[p].color = "black" => r.obj[p].color = "black"
    BY <1>10 DEF iswhite
  <2> QED
    BY <2>1, <2>2, <1>1, <1>9, <1>16, <1>17, FewerWhites DEF Darker
<1>23. SameAgain(s, r) /\ SameUpvals(s, r)
  BY <1>8, <1>10 DEF SameAgain, SameUpvals, Traversed
<1> QED
  BY <1>15, <1>17, <1>19, <1>20, <1>21, <1>22, <1>23 DEF Marked, r

Marks(s, r, X) == Marked(r, X) /\ Darker(s, r) /\ SameAgain(s, r)
MarksOn(s, r, X, o) == Marks(s, r, X) /\ SameUpvals(s, r) /\ (o # 0 => ~iswhite(r, o))

\* What is marked refers to objects that exist.
LEMMA MarkedRefers ==
  ASSUME NEW s, NEW X, Marked(s, X), NEW o \in Ids, Exists(s, o)
  PROVE  /\ Refers(s, o) /\ s.obj[o].val \in Names /\ s \in States
         /\ \A v : Value(s, v) => v \in Names /\ (v # 0 => v \in Ids /\ Exists(s, v)
                                                     /\ s.obj[v].kind # "upval")
         /\ \A v \in Ids : Alive(s, v) => Exists(s, v)
<1>1. s \in States /\ AllRefer(s) /\ NoneDead(s)
  BY DEF Marked, Graph
<1>2. Alive(s, o)
  BY <1>1 DEF Alive, NoneDead
<1>3. s.obj[o].val \in Names
  BY <1>1, FieldsOf
<1> QED
  BY <1>1, <1>2, <1>3 DEF AllRefer, Value, Alive, Names

LEMMA MarkTraversedMarks ==
  ASSUME NEW s, NEW X, NEW o \in Names, Marked(s, X),
         o # 0 => s.obj[o].kind \in Traversed \cup {"string"}
  PROVE  MarksOn(s, MarkTraversed(s, o), X, o)
<1>1. s \in States /\ OpenApart(s)
  BY DEF Marked, Graph
<1>2. CASE o = 0 \/ ~iswhite(s, o)
  <2>1. MarkTraversed(s, o) = s
    BY <1>2 DEF MarkTraversed
  <2> QED
    BY <1>1, <1>2, <2>1, SameChain DEF MarksOn, Marks
<1>3. CASE o # 0 /\ iswhite(s, o) /\ s.obj[o].kind \in Traversed
  <2>1. o \in Ids /\ MarkTraversed(s, o) = PushGray(s, o)
    BY <1>3 DEF MarkTraversed, Traversed, Names
  <2> QED
    BY <1>3, <2>1, PushGrayMarks DEF MarksOn, Marks
<1>4. CASE o # 0 /\ iswhite(s, o) /\ s.obj[o].kind = "string"
  <2> DEFINE r == Painted(s, o, "gray")
  <2>1. o \in Ids /\ MarkTraversed(s, o) = r
    BY <1>4 DEF MarkTraversed, Names
  <2>2. SameGraph(s, r) /\ SameLists(s, r) /\ OnlyPaints(s, r, o, "gray")
    BY <1>1, <2>1, PaintedIs DEF Colors
  <2> HIDE DEF r
  <2>3. Marked(r, X \cup {o}) /\ Darker(s, r) /\ SameAgain(s, r) /\ SameUpvals(s, r)
    BY <1>4, <2>1, <2>2, MarkedOne
  <2>4. Strong(s, o) = {s.obj[o].val} /\ Exists(s, o) /\ ~Leaf(s, o)
    BY <1>4 DEF Strong, Exists, Leaf
  <2>5. s.obj[o].val = 0
    BY <1>4, <2>1, <2>4, MarkedRefers DEF Refers
  <2>6. Done(r, o) /\ ~Leaf(r, o)
    BY <1>1, <2>1, <2>2, <2>4, <2>5, SameIs, Constants DEF Done
  <2>7. Marked(r, X)
    BY <2>1, <2>3, <2>6, Released
  <2>8. ~iswhite(r, o)
    BY <2>2 DEF OnlyPaints, iswhite
  <2> QED
    BY <2>1, <2>3, <2>7, <2>8 DEF MarksOn, Marks
<1> QED
  BY <1>2, <1>3, <1>4

LEMMA MarksChain ==
  ASSUME NEW s, NEW r, NEW w, NEW X, NEW o, SameGraph(s, r), Darker(s, r), SameAgain(s, r),
         SameUpvals(s, r), MarksOn(r, w, X, o)
  PROVE  MarksOn(s, w, X, o) /\ \A p \in Ids : ~iswhite(r, p) => ~iswhite(w, p)
<1>1. Darker(r, w) /\ SameAgain(r, w) /\ SameUpvals(r, w)
  BY DEF MarksOn, Marks
<1>2. Darker(s, w) /\ SameAgain(s, w) /\ SameUpvals(s, w)
  BY <1>1, SameChain
<1> QED
  BY <1>1, <1>2 DEF MarksOn, Marks, Darker

\* More may be excepted.
LEMMA MarkedMore ==
  ASSUME NEW s, NEW X, NEW Y, Marked(s, X), X \subseteq Y
  PROVE  Marked(s, Y)
BY DEF Marked, NoGrayLeaf, Closed

\* A userdata is marked with its environment, even one that was marked.
LEMMA MarkUdataMarks ==
  ASSUME NEW s, NEW X, NEW o \in Ids, Marked(s, X \cup {o}), s.obj[o].kind = "udata"
  PROVE  MarksOn(s, MarkUdata(s, o), X, o)
<1> DEFINE p0 == Painted(s, o, "black")
           v == s.obj[o].val
           r == MarkTraversed(p0, v)
<1>1. s \in States /\ OpenApart(s) /\ Exists(s, o) /\ Leaf(s, o)
  BY DEF Marked, Graph, Exists, Leaf
<1>2. SameGraph(s, p0) /\ SameLists(s, p0) /\ OnlyPaints(s, p0, o, "black")
  BY <1>1, PaintedIs DEF Colors
<1>3. MarkUdata(s, o) = r
  <2>1. p0.obj[o].val = v
    BY <1>2 DEF SameGraph
  <2> QED
    BY <2>1 DEF MarkUdata
<1> HIDE DEF p0
<1>4. Marked(p0, X \cup {o}) /\ Darker(s, p0) /\ SameAgain(s, p0) /\ SameUpvals(s, p0)
  <2>1. Marked(p0, (X \cup {o}) \cup {o}) /\ Darker(s, p0) /\ SameAgain(s, p0) /\ SameUpvals(s, p0)
    BY <1>1, <1>2, MarkedOne
  <2>2. (X \cup {o}) \cup {o} = X \cup {o}
    OBVIOUS
  <2> QED
    BY <2>1, <2>2
<1>5. v \in Ids /\ s.obj[v].kind \in {"table", "weak"}
  BY <1>1, MarkedRefers DEF Refers, Names
<1>6. v \in Names /\ p0.obj[v].kind \in Traversed \cup {"string"}
  BY <1>2, <1>5 DEF Names, SameGraph, Traversed
<1>7. MarksOn(p0, r, X \cup {o}, v)
  BY <1>4, <1>6, MarkTraversedMarks
<1> HIDE DEF r
<1>8. MarksOn(s, r, X \cup {o}, v) /\ \A p \in Ids : ~iswhite(p0, p) => ~iswhite(r, p)
  BY <1>2, <1>4, <1>7, MarksChain
<1>9. ~iswhite(r, o)
  BY <1>2, <1>8 DEF OnlyPaints, iswhite
<1>10. Marked(r, X \cup {o}) /\ SameGraph(s, r) /\ ~iswhite(r, v) /\ Leaf(r, o)
  BY <1>1, <1>5, <1>8, SameIs, Constants DEF MarksOn, Marks, Darker
<1>11. Strong(s, o) = {v}
  BY DEF Strong
<1>12. Strong(r, o) = {v}
  BY <1>1, <1>10, <1>11, SameIs
<1>13. Done(r, o)
  BY <1>10, <1>12 DEF Done
<1>14. r.obj[o].color # "gray"
  BY <1>2, <1>7 DEF OnlyPaints, MarksOn, Marks, Darker
<1>15. Marked(r, X)
  BY <1>10, <1>13, <1>14, Released
<1> QED
  BY <1>3, <1>8, <1>9, <1>15 DEF MarksOn, Marks

\* markvalue: what is no upvalue.
LEMMA markvalueMarks ==
  ASSUME NEW s, NEW X, NEW o \in Names, Marked(s, X),
         o # 0 => Exists(s, o) /\ s.obj[o].kind # "upval"
  PROVE  MarksOn(s, markvalue(s, o), X, o)
<1>1. CASE o # 0 /\ iswhite(s, o) /\ s.obj[o].kind = "udata"
  <2>1. Marked(s, X \cup {o})
    BY MarkedMore
  <2> QED
    BY <1>1, <2>1, MarkUdataMarks DEF markvalue, Names
<1>2. CASE ~(o # 0 /\ iswhite(s, o) /\ s.obj[o].kind = "udata")
  <2>1. markvalue(s, o) = MarkTraversed(s, o) /\ s \in States
    BY <1>2 DEF markvalue, Marked, Graph
  <2>2. CASE o # 0 /\ ~iswhite(s, o)
    <3>1. MarkTraversed(s, o) = s
      BY <2>2 DEF MarkTraversed
    <3> QED
      BY <2>1, <2>2, <3>1, SameChain DEF MarksOn, Marks
  <2>3. CASE ~(o # 0 /\ ~iswhite(s, o))
    <3>1. o # 0 => s.obj[o].kind \in Kinds
      BY <2>1, FieldsOf DEF Names
    <3>2. o # 0 => s.obj[o].kind \in Traversed \cup {"string"}
      BY <1>2, <2>3, <3>1 DEF Kinds, Exists, Traversed
    <3> QED
      BY <2>1, <3>2, MarkTraversedMarks
  <2> QED
    BY <2>2, <2>3
<1> QED
  BY <1>1, <1>2

\* An upvalue is marked with its value.
LEMMA MarkUpvalMarks ==
  ASSUME NEW s, NEW X, NEW o \in Ids, Marked(s, X), s.obj[o].kind = "upval", iswhite(s, o)
  PROVE  Marks(s, MarkUpval(s, o), X) /\ ~iswhite(MarkUpval(s, o), o)
<1> DEFINE p0 == Painted(s, o, "gray")
           v == Held(s, o)
           m == markvalue(p0, v)
           r == Painted(m, o, "black")
<1>1. s \in States /\ OpenApart(s) /\ Exists(s, o)
  BY DEF Marked, Graph, Exists
<1>2. SameGraph(s, p0) /\ SameLists(s, p0) /\ OnlyPaints(s, p0, o, "gray")
  BY <1>1, PaintedIs DEF Colors
<1>3. MarkUpval(s, o) = IF IsOpenUpval(s, o) THEN m ELSE r
  BY DEF MarkUpval
<1> HIDE DEF p0
<1>4. Marked(p0, X \cup {o}) /\ Darker(s, p0) /\ SameAgain(s, p0)
  BY <1>2, MarkedOne
<1>5. v \in Names /\ (v # 0 => v \in Ids /\ Exists(s, v) /\ s.obj[v].kind # "upval")
  BY <1>1, MarkedRefers DEF Refers
<1>6. v # 0 => Exists(p0, v) /\ p0.obj[v].kind # "upval"
  BY <1>1, <1>2, <1>5, SameIs DEF SameGraph
<1> HIDE DEF v
<1>7. MarksOn(p0, m, X \cup {o}, v)
  BY <1>4, <1>5, <1>6, markvalueMarks
<1> HIDE DEF m
<1>8. Marked(m, X \cup {o}) /\ Darker(p0, m) /\ SameAgain(p0, m) /\ SameUpvals(p0, m)
      /\ (v # 0 => ~iswhite(m, v)) /\ SameGraph(p0, m)
  BY <1>7 DEF MarksOn, Marks, Darker
<1>9. Darker(s, m) /\ SameAgain(s, m) /\ SameGraph(s, m) /\ m \in States
  BY <1>2, <1>4, <1>8, SameChain DEF Darker, SameGraph
<1>10. m.obj[o].color = "gray"
  BY <1>2, <1>8 DEF SameUpvals, OnlyPaints, SameGraph
<1>11. Strong(s, o) = {v}
  BY DEF Strong, v
<1>12. Strong(m, o) = {v} /\ (Leaf(m, o) <=> ~IsOpenUpval(s, o)) /\ (Leaf(s, o) <=> ~IsOpenUpval(s, o))
       /\ OpenApart(m)
  <2>1. Leaf(s, o) <=> ~IsOpenUpval(s, o)
    BY DEF Leaf
  <2>2. OpenApart(m)
    BY <1>8 DEF Marked, Graph
  <2> QED
    BY <2>1, <2>2, <1>1, <1>9, <1>11, SameIs
<1>13. Done(m, o)
  BY <1>8, <1>12, Constants DEF Done
<1>14. CASE IsOpenUpval(s, o)
  <2>1. ~iswhite(m, o)
    BY <1>10 DEF iswhite
  <2>2. Marked(m, X)
    BY <1>8, <1>12, <1>13, <1>14, Released
  <2> QED
    BY <1>3, <1>9, <1>14, <2>1, <2>2 DEF Marks
<1>15. CASE ~IsOpenUpval(s, o)
  <2>1. SameGraph(m, r) /\ SameLists(m, r) /\ OnlyPaints(m, r, o, "black")
    BY <1>9, PaintedIs DEF Colors
  <2> HIDE DEF r
  <2>2. m.obj[o].kind = "upval"
    BY <1>9 DEF SameGraph
  <2>3. Marked(r, (X \cup {o}) \cup {o}) /\ Darker(m, r) /\ SameAgain(m, r)
    BY <1>8, <1>12, <1>15, <2>1, <2>2, MarkedOne
  <2>4. Marked(r, X \cup {o})
    <3>1. (X \cup {o}) \cup {o} = X \cup {o}
      OBVIOUS
    <3> QED
      BY <2>3, <3>1
  <2>5. \A p \in Ids : ~iswhite(m, p) => ~iswhite(r, p)
    BY <2>3 DEF Darker
  <2>6. Done(r, o)
    BY <1>12, <1>13, <2>1, <2>5, SameIs DEF Done
  <2>7. r.obj[o].color = "black"
    BY <2>1 DEF OnlyPaints
  <2>8. Marked(r, X)
    BY <2>4, <2>6, <2>7, Released
  <2>9. Darker(s, r) /\ SameAgain(s, r)
    BY <1>9, <2>3, SameChain
  <2> QED
    BY <1>3, <1>15, <2>7, <2>8, <2>9 DEF Marks, iswhite
<1> QED
  BY <1>14, <1>15

LEMMA reallymarkobjectMarks ==
  ASSUME NEW s, NEW X, NEW o \in Ids, Marked(s, X), Exists(s, o), iswhite(s, o)
  PROVE  Marks(s, reallymarkobject(s, o), X) /\ ~iswhite(reallymarkobject(s, o), o)
<1>1. CASE s.obj[o].kind = "upval"
  BY <1>1, MarkUpvalMarks DEF reallymarkobject
<1>2. CASE s.obj[o].kind # "upval"
  BY <1>2, markvalueMarks, Constants DEF reallymarkobject, MarksOn, Names
<1> QED
  BY <1>1, <1>2

LEMMA markobjectMarks ==
  ASSUME NEW s, NEW X, NEW o \in Ids, Marked(s, X), Exists(s, o)
  PROVE  Marks(s, markobject(s, o), X) /\ ~iswhite(markobject(s, o), o)
<1>1. CASE iswhite(s, o)
  BY <1>1, reallymarkobjectMarks DEF markobject
<1>2. CASE ~iswhite(s, o)
  <2>1. s \in States /\ markobject(s, o) = s
    BY <1>2 DEF markobject, Marked, Graph
  <2> QED
    BY <1>2, <2>1, SameChain DEF Marks
<1> QED
  BY <1>1, <1>2

-----------------------------------------------------------------------------
(* Objects are traversed.                                                  *)

\* The first object of the list is taken off it and painted c; it joins the
\* lists that are traversed again, or none.
Takes(s, t, o, c) ==
  /\ SameGraph(s, t) /\ OnlyPaints(s, t, o, c) /\ o = Head(s.gray) /\ t.gray = Tail(s.gray)
  /\ \/ /\ c = "black" /\ s.obj[o].kind \in {"table", "closure"}
        /\ t.grayagain = s.grayagain /\ t.weak = s.weak
     \/ /\ c = "gray" /\ s.obj[o].kind = "weak"
        /\ t.grayagain = s.grayagain /\ t.weak = <<o>> \o s.weak
     \/ /\ c = "gray" /\ s.obj[o].kind = "thread"
        /\ t.grayagain = <<o>> \o s.grayagain /\ t.weak = s.weak

\* A step of the traversal: one mark less is to be made.
Traverses(s, r) ==
  /\ SameGraph(s, r) /\ MarksLeft(r) + 1 <= MarksLeft(s)
  /\ \A p \in Ids : ~iswhite(s, p) => ~iswhite(r, p)
  /\ \A p \in ToSet(s.grayagain) : p \in ToSet(r.grayagain)

LEMMA TakesMarks ==
  ASSUME NEW s, NEW t, NEW X, NEW o, NEW c, Marked(s, X), s.gray # <<>>, Takes(s, t, o, c)
  PROVE  o \in Ids /\ Marked(t, X \cup {o}) /\ Traverses(s, t) /\ SameUpvals(s, t)
<1>1. s \in States /\ t \in States /\ Graph(s) /\ NoneDead(s) /\ OpenApart(s) /\ GrayLists(s)
  BY DEF Marked, Graph, Takes, SameGraph
<1>2. s.gray \in Seq(Ids) /\ s.grayagain \in Seq(Ids) /\ s.weak \in Seq(Ids)
  BY <1>1, FieldsOf
<1>3. IsInjective(s.gray) /\ IsInjective(s.grayagain) /\ IsInjective(s.weak)
  BY <1>1 DEF GrayLists, ListsApart
<1>4. /\ o \in Ids /\ t.gray \in Seq(Ids) /\ Len(s.gray) = Len(t.gray) + 1 /\ o \in ToSet(s.gray)
      /\ IsInjective(t.gray) /\ o \notin ToSet(t.gray)
      /\ (\A p \in ToSet(t.gray) : p \in ToSet(s.gray))
      /\ \A p \in ToSet(s.gray) : p # o => p \in ToSet(t.gray)
  BY <1>2, <1>3, PopIs DEF Takes
<1>5. /\ \A p : p \in ToSet(<<o>> \o s.weak) <=> p = o \/ p \in ToSet(s.weak)
      /\ o \notin ToSet(s.weak) => IsInjective(<<o>> \o s.weak)
      /\ \A p : p \in ToSet(<<o>> \o s.grayagain) <=> p = o \/ p \in ToSet(s.grayagain)
      /\ o \notin ToSet(s.grayagain) => IsInjective(<<o>> \o s.grayagain)
  BY <1>2, <1>3, <1>4, PushIs
<1>6. o \notin ToSet(s.grayagain) /\ o \notin ToSet(s.weak) /\ s.obj[o].color = "gray"
      /\ s.obj[o].kind \in Traversed
  BY <1>1, <1>4 DEF GrayLists, ListsApart, Listed
<1>7. c \in {"black", "gray"} /\ t.obj[o].color = c
      /\ \A p \in Ids : p # o => t.obj[p].color = s.obj[p].color
  BY DEF Takes, OnlyPaints
<1>8. \A p \in Ids : /\ Exists(t, p) <=> Exists(s, p)
                     /\ IsOpenUpval(t, p) <=> IsOpenUpval(s, p)
                     /\ Strong(t, p) = Strong(s, p)
                     /\ Leaf(t, p) <=> Leaf(s, p)
                     /\ t.obj[p].kind = s.obj[p].kind
  BY <1>1, SameIs DEF SameGraph, Takes
<1>9. otherwhite(s) \in Whites /\ c \notin Whites
  BY <1>1, <1>7, Colours DEF Whites
<1>10. BlackKinds(t)
  <2>1. BlackKinds(s)
    BY <1>1 DEF Graph
  <2>2. c = "black" => s.obj[o].kind \in {"table", "closure"}
    BY DEF Takes
  <2>3. c = "black" => s.obj[o].kind \in Blacks /\ ~IsOpenUpval(s, o)
    BY <2>2 DEF Blacks, IsOpenUpval
  <2> SUFFICES ASSUME NEW p \in Ids, t.obj[p].color = "black"
               PROVE  t.obj[p].kind \in Blacks /\ ~IsOpenUpval(t, p)
    BY DEF BlackKinds
  <2>4. CASE p = o
    BY <2>3, <2>4, <1>7, <1>8
  <2>5. CASE p # o
    <3>1. s.obj[p].color = "black"
      BY <2>5, <1>7
    <3> QED
      BY <3>1, <2>1, <1>8 DEF BlackKinds
  <2> QED
    BY <2>4, <2>5
<1>11. \A p \in Ids : Exists(s, p) => t.obj[p].color # otherwhite(s)
  BY <1>1, <1>7, <1>9 DEF NoneDead, isdead
<1>12. Graph(t) /\ NoneDead(t)
  BY <1>1, <1>10, <1>11, GraphPainted DEF Takes
<1>13. \A p \in Ids : ~iswhite(s, p) => ~iswhite(t, p)
  BY <1>1, <1>7, <1>9, Colours
<1>14. GrayLists(t)
  <2>1. CASE c = "black" /\ s.obj[o].kind \in {"table", "closure"}
             /\ t.grayagain = s.grayagain /\ t.weak = s.weak
    <3>1. ListsApart(t)
      BY <2>1, <1>1, <1>4 DEF GrayLists, ListsApart
    <3>2. \A p : Listed(t, p) <=> Listed(s, p) /\ p # o
      BY <2>1, <1>4, <1>6 DEF Listed
    <3>3. \A p \in Ids : Listed(t, p) => t.obj[p].color = "gray"
      BY <3>2, <1>1, <1>7 DEF GrayLists
    <3>4. \A p \in Ids : t.obj[p].color = "gray" /\ t.obj[p].kind \in Traversed => Listed(t, p)
      BY <2>1, <3>2, <1>1, <1>7, <1>8 DEF GrayLists
    <3>5. (\A p \in ToSet(s.gray) : p \in Ids) /\ (\A p \in ToSet(s.grayagain) : p \in Ids)
          /\ \A p \in ToSet(s.weak) : p \in Ids
      BY <1>2 DEF ToSet
    <3>6. (\A p \in ToSet(t.gray) : t.obj[p].kind \in Traversed)
          /\ (\A p \in ToSet(t.grayagain) : t.obj[p].kind \in {"table", "thread"})
          /\ \A p \in ToSet(t.weak) : t.obj[p].kind = "weak"
      BY <2>1, <3>5, <1>1, <1>4, <1>8 DEF GrayLists
    <3> QED
      BY <3>1, <3>3, <3>4, <3>6 DEF GrayLists
  <2>2. CASE c = "gray" /\ s.obj[o].kind = "weak"
             /\ t.grayagain = s.grayagain /\ t.weak = <<o>> \o s.weak
    <3>1. ListsApart(t)
      BY <2>2, <1>1, <1>4, <1>5, <1>6 DEF GrayLists, ListsApart
    <3>2. \A p : Listed(t, p) <=> Listed(s, p)
      BY <2>2, <1>4, <1>5, <1>6 DEF Listed
    <3>3. \A p \in Ids : Listed(t, p) => t.obj[p].color = "gray"
      BY <2>2, <3>2, <1>1, <1>7 DEF GrayLists
    <3>4. \A p \in Ids : t.obj[p].color = "gray" /\ t.obj[p].kind \in Traversed => Listed(t, p)
      BY <2>2, <3>2, <1>1, <1>4, <1>7, <1>8 DEF GrayLists, Listed
    <3>5. (\A p \in ToSet(s.gray) : p \in Ids) /\ (\A p \in ToSet(s.grayagain) : p \in Ids)
          /\ \A p \in ToSet(s.weak) : p \in Ids
      BY <1>2 DEF ToSet
    <3>6. (\A p \in ToSet(t.gray) : t.obj[p].kind \in Traversed)
          /\ (\A p \in ToSet(t.grayagain) : t.obj[p].kind \in {"table", "thread"})
          /\ \A p \in ToSet(t.weak) : t.obj[p].kind = "weak"
      BY <2>2, <3>5, <1>1, <1>4, <1>5, <1>8 DEF GrayLists
    <3> QED
      BY <3>1, <3>3, <3>4, <3>6 DEF GrayLists
  <2>3. CASE c = "gray" /\ s.obj[o].kind = "thread"
             /\ t.grayagain = <<o>> \o s.grayagain /\ t.weak = s.weak
    <3>1. ListsApart(t)
      BY <2>3, <1>1, <1>4, <1>5, <1>6 DEF GrayLists, ListsApart
    <3>2. \A p : Listed(t, p) <=> Listed(s, p)
      BY <2>3, <1>4, <1>5, <1>6 DEF Listed
    <3>3. \A p \in Ids : Listed(t, p) => t.obj[p].color = "gray"
      BY <2>3, <3>2, <1>1, <1>7 DEF GrayLists
    <3>4. \A p \in Ids : t.obj[p].color = "gray" /\ t.obj[p].kind \in Traversed => Listed(t, p)
      BY <2>3, <3>2, <1>1, <1>4, <1>7, <1>8 DEF GrayLists, Listed
    <3>5. (\A p \in ToSet(s.gray) : p \in Ids) /\ (\A p \in ToSet(s.grayagain) : p \in Ids)
          /\ \A p \in ToSet(s.weak) : p \in Ids
      BY <1>2 DEF ToSet
    <3>6. (\A p \in ToSet(t.gray) : t.obj[p].kind \in Traversed)
          /\ (\A p \in ToSet(t.grayagain) : t.obj[p].kind \in {"table", "thread"})
          /\ \A p \in ToSet(t.weak) : t.obj[p].kind = "weak"
      BY <2>3, <3>5, <1>1, <1>4, <1>5, <1>8 DEF GrayLists
    <3> QED
      BY <3>1, <3>3, <3>4, <3>6 DEF GrayLists
  <2> QED
    BY <2>1, <2>2, <2>3 DEF Takes
<1>15. NoGrayLeaf(t, X \cup {o})
  BY <1>7, <1>8 DEF NoGrayLeaf, Marked
<1>16. Closed(t, X \cup {o})
  <2> SUFFICES ASSUME NEW p \in Ids, p \notin X \cup {o}, Exists(t, p), ~iswhite(t, p),
                      p \notin ToSet(t.gray), t.obj[p].kind # "weak"
               PROVE  Done(t, p)
    BY DEF Closed
  <2>1. p # o /\ p \notin X /\ Exists(s, p) /\ s.obj[p].kind # "weak" /\ p \notin ToSet(s.gray)
    BY <1>4, <1>8
  <2>2. ~iswhite(s, p)
    BY <2>1, <1>7 DEF iswhite
  <2>3. Done(s, p)
    BY <2>1, <2>2 DEF Closed, Marked
  <2> QED
    BY <2>3, <1>8, <1>13 DEF Done
<1>17. MarksLeft(t) + 1 <= MarksLeft(s)
  <2>1. Len(t.gray) + 1 <= Len(s.gray)
    BY <1>2, <1>4
  <2> QED
    BY <2>1, <1>1, <1>13, FewerWhites
<1>18. \A p \in ToSet(s.grayagain) : p \in ToSet(t.grayagain)
  BY <1>5 DEF Takes
<1>19. SameUpvals(s, t)
  BY <1>6, <1>7 DEF SameUpvals, Traversed
<1> QED
  BY <1>4, <1>12, <1>13, <1>14, <1>15, <1>16, <1>17, <1>18, <1>19 DEF Marked, Traverses, Takes

\* The head of the list, off it.
Off(s) == [Painted(s, Head(s.gray), "black") EXCEPT !.gray = Tail(@)]
ToWeak(s) == [Painted(Off(s), Head(s.gray), "gray") EXCEPT !.weak = <<Head(s.gray)>> \o @]
ToGrayagain(s) ==
  [Painted(Off(s), Head(s.gray), "gray") EXCEPT !.grayagain = <<Head(s.gray)>> \o @]

LEMMA OffIs ==
  ASSUME NEW s \in States, s.gray # <<>>
  PROVE  /\ Head(s.gray) \in Ids /\ SameGraph(s, Off(s)) /\ OnlyPaints(s, Off(s), Head(s.gray), "black")
         /\ Off(s).gray = Tail(s.gray) /\ Off(s).grayagain = s.grayagain /\ Off(s).weak = s.weak
         /\ Tail(s.gray) \in Seq(Ids)
<1> DEFINE o == Head(s.gray)
           p0 == Painted(s, o, "black")
           r == Off(s)
           q == Tail(s.gray)
<1>1. s.gray \in Seq(Ids) /\ s.grayagain \in Seq(Ids) /\ s.weak \in Seq(Ids)
  BY FieldsOf
<1>2. o \in Ids /\ q \in Seq(Ids)
  BY <1>1, PopIs
<1>3. r = [p0 EXCEPT !.gray = Tail(@)]
  BY DEF Off
<1> HIDE DEF o, r
<1>4. SameGraph(s, p0) /\ SameLists(s, p0) /\ OnlyPaints(s, p0, o, "black")
  BY <1>2, PaintedIs DEF Colors
<1> HIDE DEF p0
<1>5. p0 \in States /\ p0.gray = s.gray /\ p0.grayagain = s.grayagain /\ p0.weak = s.weak
  BY <1>4 DEF SameGraph, SameLists
<1>6. ListsSet(p0, r, q, s.grayagain, s.weak)
  BY <1>3, <1>5 DEF States, ListsSet
<1> HIDE DEF q
<1>7. r.gray = q /\ r.grayagain = s.grayagain /\ r.weak = s.weak /\ r.obj = p0.obj
      /\ SameGraph(p0, r)
  BY <1>1, <1>2, <1>5, <1>6, WithLists
<1>8. SameGraph(s, r) /\ OnlyPaints(s, r, o, "black")
  BY <1>4, <1>7, SameChain DEF OnlyPaints
<1> QED
  BY <1>2, <1>7, <1>8 DEF o, q, r

LEMMA AgainIs ==
  ASSUME NEW s \in States, s.gray # <<>>
  PROVE  LET o == Head(s.gray)
         IN  /\ s.obj[o].kind = "weak" => Takes(s, ToWeak(s), o, "gray")
             /\ s.obj[o].kind = "thread" => Takes(s, ToGrayagain(s), o, "gray")
<1> DEFINE o == Head(s.gray)
           f == Off(s)
           p0 == Painted(f, o, "gray")
           w == ToWeak(s)
           t == ToGrayagain(s)
           q == <<o>> \o s.weak
           u == <<o>> \o s.grayagain
<1>1. s.gray \in Seq(Ids) /\ s.grayagain \in Seq(Ids) /\ s.weak \in Seq(Ids)
  BY FieldsOf
<1>2. /\ o \in Ids /\ SameGraph(s, f) /\ OnlyPaints(s, f, o, "black") /\ Tail(s.gray) \in Seq(Ids)
      /\ f.gray = Tail(s.gray) /\ f.grayagain = s.grayagain /\ f.weak = s.weak
  BY OffIs
<1>3. w = [p0 EXCEPT !.weak = <<o>> \o @] /\ t = [p0 EXCEPT !.grayagain = <<o>> \o @]
  BY DEF ToWeak, ToGrayagain
<1>4. q \in Seq(Ids) /\ u \in Seq(Ids)
  BY <1>1, <1>2, PushIs
<1> HIDE DEF o, f, w, t
<1>5. f \in States
  BY <1>2 DEF SameGraph
<1>6. SameGraph(f, p0) /\ SameLists(f, p0) /\ OnlyPaints(f, p0, o, "gray")
  BY <1>2, <1>5, PaintedIs DEF Colors
<1> HIDE DEF p0
<1>7. p0 \in States /\ p0.gray = Tail(s.gray) /\ p0.grayagain = s.grayagain /\ p0.weak = s.weak
  BY <1>2, <1>6 DEF SameGraph, SameLists
<1>8. ListsSet(p0, w, Tail(s.gray), s.grayagain, q) /\ ListsSet(p0, t, Tail(s.gray), u, s.weak)
  BY <1>3, <1>7 DEF States, ListsSet
<1> HIDE DEF q, u
<1>9. w.gray = Tail(s.gray) /\ w.grayagain = s.grayagain /\ w.weak = q /\ w.obj = p0.obj
      /\ SameGraph(p0, w)
  BY <1>1, <1>2, <1>4, <1>7, <1>8, WithLists
<1>10. t.gray = Tail(s.gray) /\ t.grayagain = u /\ t.weak = s.weak /\ t.obj = p0.obj
      /\ SameGraph(p0, t)
  BY <1>1, <1>2, <1>4, <1>7, <1>8, WithLists
<1>11. SameGraph(s, w) /\ SameGraph(s, t)
  BY <1>2, <1>6, <1>9, <1>10, SameChain
<1>12. OnlyPaints(s, p0, o, "gray")
  BY <1>2, <1>6 DEF OnlyPaints
<1>13. OnlyPaints(s, w, o, "gray") /\ OnlyPaints(s, t, o, "gray")
  BY <1>9, <1>10, <1>12 DEF OnlyPaints
<1>14. s.obj[o].kind = "weak" => Takes(s, w, o, "gray")
  BY <1>9, <1>11, <1>13 DEF Takes, o, q
<1>15. s.obj[o].kind = "thread" => Takes(s, t, o, "gray")
  BY <1>10, <1>11, <1>13 DEF Takes, o, u
<1> QED
  BY <1>14, <1>15 DEF o, w, t

\* A step of the traversal and marks that follow it.
LEMMA TraversesMarks ==
  ASSUME NEW s, NEW t, NEW r, NEW X, Traverses(s, t), Marks(t, r, X)
  PROVE  Traverses(s, r)
<1>1. s \in States /\ t \in States /\ r \in States
  BY DEF Traverses, Marks, Darker, SameGraph
<1>2. MarksLeft(s) \in Nat /\ MarksLeft(t) \in Nat /\ MarksLeft(r) \in Nat
  BY <1>1, MarksLeftNat
<1>3. MarksLeft(t) + 1 <= MarksLeft(s) /\ MarksLeft(r) <= MarksLeft(t)
  BY DEF Traverses, Marks, Darker
<1>4. MarksLeft(r) + 1 <= MarksLeft(s)
  BY <1>2, <1>3
<1>5. SameGraph(s, r)
  BY SameChain DEF Traverses, Marks, Darker
<1> QED
  BY <1>4, <1>5 DEF Traverses, Marks, Darker, SameAgain

\* The values on the main stack.
LEMMA MarkStackMarks ==
  ASSUME NEW s, NEW X, Marked(s, X)
  PROVE  /\ Marks(s, MarkStack(s), X)
         /\ \A i \in Places : s.stack[i] # 0 => ~iswhite(MarkStack(s), s.stack[i])
<1> DEFINE f(x, n) == markvalue(x, s.stack[n])
           T == [i \in 0 .. StackSlots |->
                   {x \in States : /\ Marks(s, x, X)
                                   /\ \A j \in 1 .. i : s.stack[j] # 0 => ~iswhite(x, s.stack[j])}]
           Step == [i \in 1 .. StackSlots |-> [x \in T[i - 1] |-> f(x, i)]]
<1>1. s \in States /\ StackSlots \in Nat /\ Places = 1 .. StackSlots /\ RootsAlive(s) /\ OpenApart(s)
  BY Constants DEF Places, Marked, Graph
<1>2. s \in T[0]
  <2>1. Marks(s, s, X)
    BY <1>1, SameChain DEF Marks
  <2>2. s \in {x \in States : /\ Marks(s, x, X)
                              /\ \A j \in 1 .. 0 : s.stack[j] # 0 => ~iswhite(x, s.stack[j])}
    BY <1>1, <2>1
  <2>3. 0 \in 0 .. StackSlots
    BY <1>1
  <2> QED
    BY <2>2, <2>3
<1>3. ASSUME NEW i \in 1 .. StackSlots, NEW x \in T[i - 1]
      PROVE  f(x, i) \in T[i]
  <2> DEFINE v == s.stack[i]
  <2>1. i - 1 \in 0 .. StackSlots /\ i \in 0 .. StackSlots /\ i \in Places
        /\ \A j \in 1 .. i : j \in 1 .. i - 1 \/ j = i
    BY <1>1
  <2>2. x \in States /\ Marks(s, x, X) /\ \A j \in 1 .. i - 1 : s.stack[j] # 0 => ~iswhite(x, s.stack[j])
    BY <2>1
  <2>3. SameGraph(s, x) /\ Marked(x, X) /\ x.stack = s.stack /\ RootsAlive(x)
    BY <2>2 DEF Marks, Darker, SameGraph, Marked, Graph
  <2>4. Value(x, v)
    BY <2>1, <2>3 DEF RootsAlive
  <2>5. v \in Names /\ (v # 0 => Exists(x, v) /\ x.obj[v].kind # "upval")
    BY <2>4 DEF Value, Alive, Names
  <2>6. MarksOn(x, f(x, i), X, v)
    BY <2>3, <2>5, markvalueMarks
  <2> HIDE DEF f
  <2>7. Marks(s, f(x, i), X)
    BY <2>2, <2>6, SameChain DEF MarksOn, Marks
  <2>8. f(x, i) \in States
    BY <2>7 DEF Marks, Darker, SameGraph
  <2>9. \A p \in Ids : ~iswhite(x, p) => ~iswhite(f(x, i), p)
    BY <2>6 DEF MarksOn, Marks, Darker
  <2>10. \A j \in 1 .. i : s.stack[j] # 0 => ~iswhite(f(x, i), s.stack[j])
    <3> SUFFICES ASSUME NEW j \in 1 .. i, s.stack[j] # 0 PROVE ~iswhite(f(x, i), s.stack[j])
      OBVIOUS
    <3>1. CASE j = i
      BY <3>1, <2>6 DEF MarksOn
    <3>2. CASE j \in 1 .. i - 1
      <4>1. j \in Places
        BY <1>1, <2>1, <3>2
      <4>2. s.stack[j] \in Names
        BY <1>1, <4>1, FieldsOf
      <4>3. s.stack[j] \in Ids
        BY <4>2 DEF Names
      <4> QED
        BY <2>2, <2>9, <3>2, <4>3
    <3> QED
      BY <2>1, <3>1, <3>2
  <2> QED
    BY <2>1, <2>7, <2>8, <2>10
<1>4. Within(StackSlots, T, Step)
  <2> HIDE DEF T, f
  <2> QED
    BY <1>3 DEF Within
<1>5. PICK m : Repeats(StackSlots, T, Step, s, m)
  <2> HIDE DEF T, Step
  <2> QED
    BY <1>1, <1>2, <1>4, Repeated
<1>6. m = [i \in 0 .. StackSlots |-> IF i = 0 THEN s ELSE f(m[i - 1], i)]
  <2> HIDE DEF T, f
  <2>1. \A i \in 1 .. StackSlots : Step[i][m[i - 1]] = f(m[i - 1], i)
    <3> SUFFICES ASSUME NEW i \in 1 .. StackSlots PROVE Step[i][m[i - 1]] = f(m[i - 1], i)
      OBVIOUS
    <3>1. i - 1 \in 0 .. StackSlots
      BY <1>1
    <3>2. m[i - 1] \in T[i - 1]
      BY <3>1, <1>5 DEF Repeats
    <3> QED
      BY <3>2
  <2> HIDE DEF Step
  <2>2. \A i \in 0 .. StackSlots : i # 0 => i \in 1 .. StackSlots
    BY <1>1
  <2> QED
    BY <1>5, <2>1, <2>2 DEF Repeats
<1>7. PICK r : r = CHOOSE h : h = [n \in 0 .. StackSlots |-> IF n = 0 THEN s ELSE f(h[n - 1], n)]
  OBVIOUS
<1>8. r = [n \in 0 .. StackSlots |-> IF n = 0 THEN s ELSE f(r[n - 1], n)]
  <2> HIDE DEF f
  <2> QED
    BY <1>6, <1>7
<1>9. MarkStack(s) = r[StackSlots]
  BY <1>7 DEF MarkStack
<1>10. r[StackSlots] \in T[StackSlots]
  <2>1. r[0] \in T[0]
    <3> HIDE DEF T, f
    <3>1. 0 \in 0 .. StackSlots
      BY <1>1
    <3> QED
      BY <1>2, <1>8, <3>1
  <2>2. \A i \in 1 .. StackSlots : r[i - 1] \in T[i - 1] => r[i] \in T[i]
    <3> HIDE DEF T
    <3> SUFFICES ASSUME NEW i \in 1 .. StackSlots, r[i - 1] \in T[i - 1] PROVE r[i] \in T[i]
      OBVIOUS
    <3>1. i \in 0 .. StackSlots /\ i # 0
      BY <1>1
    <3>2. r[i] = f(r[i - 1], i)
      <4> HIDE DEF f
      <4> QED
        BY <1>8, <3>1
    <3> QED
      BY <1>3, <3>2
  <2>3. \A i \in 0 .. StackSlots : r[i] \in T[i]
    <3> HIDE DEF T, f
    <3> QED
      BY <1>1, <2>1, <2>2, PassedOn
  <2>4. StackSlots \in 0 .. StackSlots
    BY <1>1
  <2> QED
    BY <2>3, <2>4
<1>11. r[StackSlots] \in {x \in States : /\ Marks(s, x, X)
                             /\ \A j \in 1 .. StackSlots : s.stack[j] # 0 => ~iswhite(x, s.stack[j])}
  <2>1. StackSlots \in 0 .. StackSlots
    BY <1>1
  <2> QED
    BY <1>10, <2>1
<1> QED
  BY <1>1, <1>9, <1>11

LEMMA propagatemarkMarks ==
  ASSUME NEW s, NEW X, Marked(s, X), s.gray # <<>>
  PROVE  Marked(propagatemark(s), X) /\ Traverses(s, propagatemark(s))
<1> DEFINE o == Head(s.gray)
           f == Off(s)
           v == s.obj[o].val
           r == propagatemark(s)
<1>1. s \in States /\ OpenApart(s) /\ GrayLists(s) /\ RootsAlive(s)
  BY DEF Marked, Graph
<1>2. /\ o \in Ids /\ SameGraph(s, f) /\ OnlyPaints(s, f, o, "black")
      /\ f.gray = Tail(s.gray) /\ f.grayagain = s.grayagain /\ f.weak = s.weak
  BY <1>1, OffIs
<1>3. s.obj[o].kind \in Traversed /\ Exists(s, o) /\ ~Leaf(s, o)
  <2>1. s.gray \in Seq(Ids)
    BY <1>1, FieldsOf
  <2>2. o \in ToSet(s.gray)
    BY <2>1, PopIs
  <2> QED
    BY <2>2, <1>1 DEF GrayLists, Traversed, Exists, Leaf
<1>4. f.obj[o].kind = s.obj[o].kind /\ f.obj[o].val = v
  BY <1>2 DEF SameGraph
<1>5. r = CASE s.obj[o].kind \in {"table", "weak"} -> traversetable(f, o)
            [] s.obj[o].kind = "closure" -> markobject(f, v)
            [] s.obj[o].kind = "thread" -> traversestack(f, o)
  BY DEF propagatemark, Off
<1>6. Refers(s, o) /\ v \in Names
      /\ \A x : Value(s, x) => x \in Names /\ (x # 0 => x \in Ids /\ Exists(s, x) /\ s.obj[x].kind # "upval")
  BY <1>2, <1>3, MarkedRefers
<1>7. \A t : SameGraph(s, t) => /\ \A x \in Ids : Exists(s, x) => Exists(t, x)
                                /\ \A x \in Ids : t.obj[x].kind = s.obj[x].kind
                                /\ Strong(t, o) = Strong(s, o) /\ ~Leaf(t, o)
  BY <1>1, <1>2, <1>3, SameIs DEF SameGraph
<1> HIDE DEF f, v, r
<1>8. CASE s.obj[o].kind = "table"
  <2>1. Takes(s, f, o, "black")
    BY <1>2, <1>8 DEF Takes
  <2>2. Marked(f, X \cup {o}) /\ Traverses(s, f)
    BY <2>1, TakesMarks
  <2>3. r = markvalue(f, v)
    BY <1>4, <1>5, <1>8 DEF traversetable
  <2>4. v # 0 => v \in Ids /\ Exists(f, v) /\ f.obj[v].kind # "upval"
    BY <1>2, <1>6, <1>7, <1>8 DEF Refers, v
  <2>5. MarksOn(f, r, X \cup {o}, v)
    BY <2>2, <2>3, <2>4, <1>6, markvalueMarks
  <2>6. Traverses(s, r) /\ SameGraph(s, r) /\ Marked(r, X \cup {o}) /\ (v # 0 => ~iswhite(r, v))
    BY <2>2, <2>5, TraversesMarks DEF MarksOn, Marks, Traverses
  <2>7. Strong(r, o) = {v}
    BY <1>7, <1>8, <2>6 DEF Strong, v
  <2>8. Done(r, o)
    BY <2>6, <2>7, Constants DEF Done
  <2> QED
    BY <1>2, <1>7, <2>6, <2>8, Released DEF r
<1>9. CASE s.obj[o].kind = "weak"
  <2>1. r = ToWeak(s)
    BY <1>4, <1>5, <1>9 DEF traversetable, ToWeak, f
  <2>2. Takes(s, r, o, "gray")
    BY <1>1, <1>9, <2>1, AgainIs
  <2>3. Marked(r, X \cup {o}) /\ Traverses(s, r) /\ SameGraph(s, r)
    BY <2>2, TakesMarks DEF Takes
  <2>4. r.obj[o].kind = "weak" /\ ~Leaf(r, o)
    BY <1>2, <1>7, <1>9, <2>3
  <2>5. Marked(r, X)
    BY <2>3, <2>4 DEF Marked, NoGrayLeaf, Closed
  <2> QED
    BY <2>3, <2>5 DEF r
<1>10. CASE s.obj[o].kind = "closure"
  <2>1. Takes(s, f, o, "black")
    BY <1>2, <1>10 DEF Takes
  <2>2. Marked(f, X \cup {o}) /\ Traverses(s, f)
    BY <2>1, TakesMarks
  <2>3. r = markobject(f, v)
    BY <1>5, <1>10
  <2>4. v \in Ids /\ Exists(f, v)
    BY <1>2, <1>6, <1>7, <1>10 DEF Refers, Alive, Names, v
  <2>5. Marks(f, r, X \cup {o}) /\ ~iswhite(r, v)
    BY <2>2, <2>3, <2>4, markobjectMarks
  <2>6. Traverses(s, r) /\ SameGraph(s, r) /\ Marked(r, X \cup {o})
    BY <2>2, <2>5, TraversesMarks DEF Marks, Traverses
  <2>7. Strong(r, o) = {v}
    BY <1>7, <1>10, <2>6 DEF Strong, v
  <2>8. Done(r, o)
    BY <2>5, <2>7 DEF Done
  <2> QED
    BY <1>2, <1>7, <2>6, <2>8, Released DEF r
<1>11. CASE s.obj[o].kind = "thread"
  <2> DEFINE t == ToGrayagain(s)
             a == markvalue(t, GlobalTable)
  <2>1. Takes(s, t, o, "gray")
    BY <1>1, <1>11, AgainIs
  <2>2. Marked(t, X \cup {o}) /\ Traverses(s, t) /\ SameGraph(s, t)
    BY <2>1, TakesMarks DEF Takes
  <2>3. r = IF o = Main THEN MarkStack(a) ELSE markvalue(a, v)
    BY <1>4, <1>5, <1>11 DEF traversestack, ToGrayagain, f
  <2> HIDE DEF t
  <2>4. GlobalTable \in Names /\ GlobalTable \in Ids /\ GlobalTable # 0 /\ Exists(s, GlobalTable)
        /\ s.obj[GlobalTable].kind = "table"
    BY <1>1, Constants DEF RootsAlive, Alive, Names
  <2>5. Exists(t, GlobalTable) /\ t.obj[GlobalTable].kind # "upval"
    BY <1>7, <2>2, <2>4
  <2>6. MarksOn(t, a, X \cup {o}, GlobalTable)
    BY <2>2, <2>4, <2>5, markvalueMarks
  <2> HIDE DEF a
  <2>7. Marked(a, X \cup {o}) /\ Traverses(s, a) /\ SameGraph(s, a) /\ ~iswhite(a, GlobalTable)
    BY <2>2, <2>4, <2>6, TraversesMarks DEF MarksOn, Marks, Traverses
  <2>8. CASE o = Main
    <3>1. Marks(a, r, X \cup {o}) /\ \A i \in Places : a.stack[i] # 0 => ~iswhite(r, a.stack[i])
      BY <2>3, <2>7, <2>8, MarkStackMarks
    <3>2. Traverses(s, r) /\ SameGraph(s, r) /\ Marked(r, X \cup {o})
      BY <2>7, <3>1, TraversesMarks DEF Marks, Traverses
    <3>3. a.stack = s.stack /\ ~iswhite(r, GlobalTable)
      BY <2>4, <2>7, <3>1 DEF SameGraph, Marks, Darker
    <3>4. v = 0
      BY <1>1, <2>8 DEF RootsAlive, v
    <3>5. Strong(r, o) = {GlobalTable, v} \cup ToSet(s.stack)
      BY <1>7, <1>11, <2>8, <3>2 DEF Strong, v
    <3>6. DOMAIN s.stack = Places
      BY <1>1, FieldsOf
    <3>7. Done(r, o)
      BY <3>1, <3>3, <3>4, <3>5, <3>6, Constants DEF Done, ToSet
    <3> QED
      BY <1>2, <1>7, <3>2, <3>7, Released DEF r
  <2>9. CASE o # Main
    <3>1. v # 0 => v \in Ids /\ Exists(a, v) /\ a.obj[v].kind # "upval"
      BY <1>6, <1>7, <1>11, <2>7 DEF Refers, v
    <3>2. r = markvalue(a, v)
      BY <2>3, <2>9
    <3>3. MarksOn(a, r, X \cup {o}, v)
      BY <1>6, <2>7, <3>1, <3>2, markvalueMarks
    <3>4. Traverses(s, r) /\ SameGraph(s, r) /\ Marked(r, X \cup {o})
          /\ (v # 0 => ~iswhite(r, v)) /\ ~iswhite(r, GlobalTable)
      BY <2>4, <2>7, <3>3, TraversesMarks DEF MarksOn, Marks, Traverses, Darker
    <3>5. Strong(r, o) = {GlobalTable, v}
      BY <1>7, <1>11, <2>9, <3>4 DEF Strong, v
    <3>6. Done(r, o)
      BY <3>4, <3>5, Constants DEF Done
    <3> QED
      BY <1>2, <1>7, <3>4, <3>6, Released DEF r
  <2> QED
    BY <2>8, <2>9
<1> QED
  BY <1>3, <1>8, <1>9, <1>10, <1>11 DEF Traversed

\* propagateall leaves nothing to be traversed.
LEMMA propagateallMarks ==
  ASSUME NEW s, NEW X, Marked(s, X)
  PROVE  LET r == propagateall(s)
         IN  /\ Marked(r, X) /\ SameGraph(s, r) /\ r.gray = <<>>
             /\ \A p \in Ids : ~iswhite(s, p) => ~iswhite(r, p)
             /\ \A p \in ToSet(s.grayagain) : p \in ToSet(r.grayagain)
<1> DEFINE k == MarksLeft(s)
           Fine(x) == /\ Marked(x, X) /\ SameGraph(s, x)
                      /\ \A p \in Ids : ~iswhite(s, p) => ~iswhite(x, p)
                      /\ \A p \in ToSet(s.grayagain) : p \in ToSet(x.grayagain)
           f(x, n) == Propagated(x)
           T == [i \in 0 .. k |-> {x \in States : Fine(x) /\ (x.gray = <<>> \/ MarksLeft(x) + i <= k)}]
           Step == [i \in 1 .. k |-> [x \in T[i - 1] |-> f(x, i)]]
<1>1. s \in States /\ k \in Nat
  BY MarksLeftNat DEF Marked, Graph
<1>2. s \in T[0]
  <2>1. Fine(s)
    BY <1>1, SameChain
  <2> HIDE DEF Fine, k
  <2>2. 0 \in 0 .. k /\ k + 0 <= k
    BY <1>1
  <2>3. MarksLeft(s) + 0 <= k
    BY <2>2 DEF k
  <2> QED
    BY <1>1, <2>1, <2>2, <2>3
<1>3. ASSUME NEW i \in 1 .. k, NEW x \in T[i - 1]
      PROVE  f(x, i) \in T[i]
  <2> HIDE DEF k
  <2>1. i - 1 \in 0 .. k /\ i \in 0 .. k /\ i \in Nat /\ (i - 1) + 1 = i
    BY <1>1
  <2>2. x \in States /\ Fine(x) /\ (x.gray = <<>> \/ MarksLeft(x) + (i - 1) <= k)
    <3> HIDE DEF Fine
    <3> QED
      BY <2>1
  <2>3. CASE x.gray = <<>>
    <3>1. f(x, i) = x
      BY <2>3 DEF Propagated
    <3> HIDE DEF Fine, f
    <3> QED
      BY <2>1, <2>2, <2>3, <3>1
  <2>4. CASE x.gray # <<>>
    <3>1. f(x, i) = propagatemark(x)
      BY <2>4 DEF Propagated
    <3> HIDE DEF f
    <3>2. Marked(f(x, i), X) /\ Traverses(x, f(x, i))
      BY <2>2, <2>4, <3>1, propagatemarkMarks
    <3> DEFINE y == f(x, i)
    <3> HIDE DEF y
    <3>3. Marked(y, X) /\ Traverses(x, y)
      BY <3>2 DEF y
    <3>4. Fine(y) /\ y \in States
      BY <2>2, <3>3, SameChain DEF Traverses, SameGraph
    <3> HIDE DEF Fine
    <3>5. MarksLeft(x) \in Nat /\ MarksLeft(y) \in Nat /\ MarksLeft(y) + 1 <= MarksLeft(x)
      BY <2>2, <3>3, <3>4, MarksLeftNat DEF Traverses
    <3>6. MarksLeft(x) + (i - 1) <= k
      BY <2>2, <2>4
    <3>7. MarksLeft(y) + i <= k
      BY <1>1, <2>1, <3>5, <3>6
    <3> QED
      BY <2>1, <3>4, <3>7 DEF y
  <2> QED
    BY <2>3, <2>4
<1>4. Within(k, T, Step)
  <2> HIDE DEF T, f
  <2> QED
    BY <1>3 DEF Within
<1>5. PICK m : Repeats(k, T, Step, s, m)
  <2> HIDE DEF T, Step, k
  <2> QED
    BY <1>1, <1>2, <1>4, Repeated
<1>6. m = [i \in 0 .. k |-> IF i = 0 THEN s ELSE f(m[i - 1], i)]
  <2> HIDE DEF T, f
  <2>1. \A i \in 1 .. k : Step[i][m[i - 1]] = f(m[i - 1], i)
    <3> SUFFICES ASSUME NEW i \in 1 .. k PROVE Step[i][m[i - 1]] = f(m[i - 1], i)
      OBVIOUS
    <3>1. i - 1 \in 0 .. k
      BY <1>1
    <3>2. m[i - 1] \in T[i - 1]
      BY <3>1, <1>5 DEF Repeats
    <3> QED
      BY <3>2
  <2> HIDE DEF Step
  <2>2. \A i \in 0 .. k : i # 0 => i \in 1 .. k
    BY <1>1
  <2> QED
    BY <1>5, <2>1, <2>2 DEF Repeats
<1>7. PICK r : r = CHOOSE h : h = [n \in 0 .. k |-> IF n = 0 THEN s ELSE f(h[n - 1], n)]
  OBVIOUS
<1>8. r = [n \in 0 .. k |-> IF n = 0 THEN s ELSE f(r[n - 1], n)]
  <2> HIDE DEF f
  <2> QED
    BY <1>6, <1>7
<1>9. propagateall(s) = r[k]
  BY <1>7 DEF propagateall, k
<1>10. r[k] \in T[k]
  <2>1. r[0] \in T[0]
    <3> HIDE DEF T, f
    <3>1. 0 \in 0 .. k
      BY <1>1
    <3> QED
      BY <1>2, <1>8, <3>1
  <2>2. \A i \in 1 .. k : r[i - 1] \in T[i - 1] => r[i] \in T[i]
    <3> HIDE DEF T
    <3> SUFFICES ASSUME NEW i \in 1 .. k, r[i - 1] \in T[i - 1] PROVE r[i] \in T[i]
      OBVIOUS
    <3>1. i \in 0 .. k /\ i # 0
      BY <1>1
    <3>2. r[i] = f(r[i - 1], i)
      <4> HIDE DEF f
      <4> QED
        BY <1>8, <3>1
    <3> QED
      BY <1>3, <3>2
  <2>3. \A i \in 0 .. k : r[i] \in T[i]
    <3> HIDE DEF T, f
    <3> QED
      BY <1>1, <2>1, <2>2, PassedOn
  <2>4. k \in 0 .. k
    BY <1>1
  <2> QED
    BY <2>3, <2>4
<1>11. Fine(r[k]) /\ r[k] \in States /\ (r[k].gray = <<>> \/ MarksLeft(r[k]) + k <= k)
  <2> HIDE DEF k, Fine
  <2>1. k \in 0 .. k
    BY <1>1
  <2> QED
    BY <1>10, <2>1
<1>12. r[k].gray = <<>>
  <2> DEFINE y == r[k]
  <2>1. MarksLeft(y) \in Nat /\ Len(y.gray) <= MarksLeft(y) /\ Len(y.gray) \in Nat /\ y.gray \in Seq(Ids)
    BY <1>11, MarksLeftNat, FieldsOf
  <2> HIDE DEF y, k
  <2>2. ASSUME MarksLeft(y) + k <= k PROVE Len(y.gray) = 0
    BY <1>1, <2>1, <2>2
  <2>3. y.gray = <<>> \/ MarksLeft(y) + k <= k
    BY <1>11 DEF y
  <2>4. Len(y.gray) = 0 => y.gray = <<>>
    BY <2>1
  <2> QED
    BY <2>2, <2>3, <2>4 DEF y
<1> QED
  BY <1>9, <1>11, <1>12

-----------------------------------------------------------------------------
(* The steps that mark.                                                    *)

\* An open upvalue that is gray stays so.
LEMMA GrayUpvalsStay ==
  ASSUME NEW s, NEW r, Graph(s), Graph(r), SameGraph(s, r),
         \A p \in Ids : ~iswhite(s, p) => ~iswhite(r, p)
  PROVE  \A p \in GrayUpvals(s) : p \in GrayUpvals(r)
<1> SUFFICES ASSUME NEW p \in GrayUpvals(s) PROVE p \in GrayUpvals(r)
  OBVIOUS
<1>1. p \in Ids /\ IsOpenUpval(s, p) /\ s.obj[p].color = "gray" /\ s \in States /\ r \in States
  BY DEF GrayUpvals, Graph
<1>2. ~iswhite(r, p) /\ IsOpenUpval(r, p)
  BY <1>1, SameIs DEF iswhite, Graph
<1>3. r.obj[p].color # "black" /\ r.obj[p].color \in Colors
  BY <1>1, <1>2, FieldsOf DEF Graph, BlackKinds
<1> QED
  BY <1>1, <1>2, <1>3 DEF GrayUpvals, iswhite, Colors

LEMMA PropagateKeeps ==
  ASSUME NEW s, Marking(s), s.gray # <<>>
  PROVE  LET r == propagatemark(s) IN Marking(r) /\ Traverses(s, r)
<1> DEFINE r == propagatemark(s)
<1>1. Marked(r, Again(s)) /\ Traverses(s, r)
  BY propagatemarkMarks DEF Marking
<1> HIDE DEF r
<1>2. SameGraph(s, r) /\ Graph(s) /\ Graph(r) /\ r.tmudata = s.tmudata
      /\ (\A p \in Ids : ~iswhite(s, p) => ~iswhite(r, p))
      /\ \A p \in ToSet(s.grayagain) : p \in ToSet(r.grayagain)
  BY <1>1 DEF Traverses, Marking, Marked, SameGraph
<1>3. \A p \in GrayUpvals(s) : p \in GrayUpvals(r)
  BY <1>2, GrayUpvalsStay
<1>4. Again(s) \subseteq Again(r)
  BY <1>2, <1>3 DEF Again
<1>5. Marked(r, Again(r))
  BY <1>1, <1>4, MarkedMore
<1>6. ~iswhite(r, Main)
  BY <1>2, Constants DEF Marking
<1> QED
  BY <1>1, <1>5, <1>6 DEF Marking, r

\* remarkupvals: no open upvalue is excepted any longer.
LEMMA remarkupvalsMarks ==
  ASSUME NEW s, NEW X, Marked(s, X)
  PROVE  LET r == remarkupvals(s)
         IN  Marks(s, r, X) /\ Marked(r, X \ GrayUpvals(s))
<1> DEFINE k == MaxObjects + 2
           v(n) == Held(s, n)
           Fine(x, i) == /\ Marks(s, x, X) /\ SameUpvals(s, x)
                         /\ \A j \in 1 .. i : j \in GrayUpvals(s) /\ v(j) # 0 => ~iswhite(x, v(j))
           f(x, n) == RemarkUpval(x, n)
           T == [i \in 0 .. k |-> {x \in States : Fine(x, i)}]
           Step == [i \in 1 .. k |-> [x \in T[i - 1] |-> f(x, i)]]
<1>1. s \in States /\ k \in Nat /\ Ids = 1 .. k /\ OpenApart(s) /\ AllRefer(s)
  BY Constants DEF Marked, Graph
<1>2. s \in T[0]
  <2>0. Marks(s, s, X) /\ SameUpvals(s, s)
    BY <1>1, SameChain DEF Marks
  <2>1. Fine(s, 0)
    <3> HIDE DEF v
    <3>1. \A j \in 1 .. 0 : FALSE
      OBVIOUS
    <3> QED
      BY <2>0, <3>1
  <2> HIDE DEF Fine, k
  <2>2. 0 \in 0 .. k
    BY <1>1
  <2> QED
    BY <1>1, <2>1, <2>2
<1>3. ASSUME NEW i \in 1 .. k, NEW x \in T[i - 1]
      PROVE  f(x, i) \in T[i]
  <2> HIDE DEF k
  <2>1. i - 1 \in 0 .. k /\ i \in 0 .. k /\ i \in Ids /\ \A j \in 1 .. i : j \in 1 .. i - 1 \/ j = i
    BY <1>1
  <2>2. x \in States /\ Fine(x, i - 1)
    <3> HIDE DEF Fine
    <3> QED
      BY <2>1
  <2>3. SameGraph(s, x) /\ Marked(x, X) /\ \A j \in 1 .. i - 1 : j \in Ids
    BY <1>1, <2>1, <2>2 DEF Marks, Darker
  <2>4. (IsOpenUpval(x, i) <=> IsOpenUpval(s, i)) /\ Held(x, i) = v(i)
        /\ (IsOpenUpval(s, i) => x.obj[i].color = s.obj[i].color)
    BY <1>1, <2>1, <2>2, <2>3, SameIs DEF SameUpvals, IsOpenUpval
  <2>5. CASE i \notin GrayUpvals(s)
    <3>1. f(x, i) = x
      BY <2>1, <2>4, <2>5 DEF RemarkUpval, GrayUpvals
    <3>2. Fine(x, i)
      BY <2>1, <2>2, <2>5
    <3> HIDE DEF Fine, f
    <3> QED
      BY <2>1, <2>2, <3>1, <3>2
  <2>6. CASE i \in GrayUpvals(s)
    <3>1. f(x, i) = markvalue(x, v(i))
      BY <2>4, <2>6 DEF RemarkUpval, GrayUpvals
    <3>2. Exists(s, i) /\ s.obj[i].kind = "upval"
      BY <2>6 DEF GrayUpvals, IsOpenUpval, Exists
    <3>3. v(i) \in Names /\ (v(i) # 0 => v(i) \in Ids /\ Exists(s, v(i)) /\ s.obj[v(i)].kind # "upval")
      BY <2>1, <3>2, MarkedRefers DEF Refers
    <3>4. v(i) # 0 => Exists(x, v(i)) /\ x.obj[v(i)].kind # "upval"
      BY <1>1, <2>3, <3>3, SameIs DEF SameGraph
    <3> DEFINE y == f(x, i)
               w == v(i)
    <3>5. MarksOn(x, y, X, w)
      BY <2>3, <3>1, <3>3, <3>4, markvalueMarks
    <3>6. w = v(i)
      OBVIOUS
    <3> HIDE DEF y, w, f
    <3>7. Marks(s, y, X) /\ SameUpvals(s, y) /\ y \in States
          /\ \A p \in Ids : ~iswhite(x, p) => ~iswhite(y, p)
      BY <2>2, <2>3, <3>5, SameChain DEF MarksOn, Marks, Darker, SameGraph
    <3>8. ASSUME NEW j \in 1 .. i, j \in GrayUpvals(s), v(j) # 0
          PROVE  ~iswhite(y, v(j))
      <4>1. CASE j = i
        BY <3>5, <3>6, <3>8, <4>1 DEF MarksOn
      <4>2. CASE j \in 1 .. i - 1
        <5>1. j \in Ids /\ Exists(s, j) /\ s.obj[j].kind = "upval"
          BY <2>3, <3>8, <4>2 DEF GrayUpvals, IsOpenUpval, Exists
        <5>2. v(j) \in Ids
          BY <3>8, <5>1, MarkedRefers DEF Refers
        <5>3. ~iswhite(x, v(j))
          BY <2>2, <3>8, <4>2
        <5> QED
          BY <3>7, <5>2, <5>3
      <4> QED
        BY <2>1, <4>1, <4>2
    <3>9. Fine(y, i)
      BY <3>7, <3>8
    <3> HIDE DEF Fine
    <3> QED
      BY <2>1, <3>7, <3>9 DEF y
  <2> QED
    BY <2>5, <2>6
<1>4. Within(k, T, Step)
  <2> HIDE DEF T, f
  <2> QED
    BY <1>3 DEF Within
<1>5. PICK m : Repeats(k, T, Step, s, m)
  <2> HIDE DEF T, Step, k
  <2> QED
    BY <1>1, <1>2, <1>4, Repeated
<1>6. m = [i \in 0 .. k |-> IF i = 0 THEN s ELSE f(m[i - 1], i)]
  <2> HIDE DEF T, f
  <2>1. \A i \in 1 .. k : Step[i][m[i - 1]] = f(m[i - 1], i)
    <3> SUFFICES ASSUME NEW i \in 1 .. k PROVE Step[i][m[i - 1]] = f(m[i - 1], i)
      OBVIOUS
    <3>1. i - 1 \in 0 .. k
      BY <1>1
    <3>2. m[i - 1] \in T[i - 1]
      BY <3>1, <1>5 DEF Repeats
    <3> QED
      BY <3>2
  <2> HIDE DEF Step
  <2>2. \A i \in 0 .. k : i # 0 => i \in 1 .. k
    BY <1>1
  <2> QED
    BY <1>5, <2>1, <2>2 DEF Repeats
<1>7. PICK r : r = CHOOSE h : h = [n \in 0 .. k |-> IF n = 0 THEN s ELSE f(h[n - 1], n)]
  OBVIOUS
<1>8. r = [n \in 0 .. k |-> IF n = 0 THEN s ELSE f(r[n - 1], n)]
  <2> HIDE DEF f
  <2> QED
    BY <1>6, <1>7
<1>9. remarkupvals(s) = r[k]
  BY <1>7 DEF remarkupvals, k
<1>10. r[k] \in T[k]
  <2>1. r[0] \in T[0]
    <3> HIDE DEF T, f
    <3>1. 0 \in 0 .. k
      BY <1>1
    <3> QED
      BY <1>2, <1>8, <3>1
  <2>2. \A i \in 1 .. k : r[i - 1] \in T[i - 1] => r[i] \in T[i]
    <3> HIDE DEF T
    <3> SUFFICES ASSUME NEW i \in 1 .. k, r[i - 1] \in T[i - 1] PROVE r[i] \in T[i]
      OBVIOUS
    <3>1. i \in 0 .. k /\ i # 0
      BY <1>1
    <3>2. r[i] = f(r[i - 1], i)
      <4> HIDE DEF f
      <4> QED
        BY <1>8, <3>1
    <3> QED
      BY <1>3, <3>2
  <2>3. \A i \in 0 .. k : r[i] \in T[i]
    <3> HIDE DEF T, f
    <3> QED
      BY <1>1, <2>1, <2>2, PassedOn
  <2>4. k \in 0 .. k
    BY <1>1
  <2> QED
    BY <2>3, <2>4
<1>11. Fine(r[k], k) /\ r[k] \in States
  <2> HIDE DEF k, Fine
  <2>1. k \in 0 .. k
    BY <1>1
  <2> QED
    BY <1>10, <2>1
<1> DEFINE y == r[k]
<1>12. Marks(s, y, X) /\ Marked(y, X) /\ SameGraph(s, y)
       /\ \A j \in Ids : j \in GrayUpvals(s) /\ Held(s, j) # 0 => ~iswhite(y, Held(s, j))
  BY <1>1, <1>11 DEF Marks, Darker
<1>13. remarkupvals(s) = y
  BY <1>9
<1> HIDE DEF y
<1>14. \A p \in GrayUpvals(s) : p \in Ids /\ Done(y, p) /\ ~Leaf(y, p)
  <2> SUFFICES ASSUME NEW p \in GrayUpvals(s) PROVE p \in Ids /\ Done(y, p) /\ ~Leaf(y, p)
    OBVIOUS
  <2>1. p \in Ids /\ IsOpenUpval(s, p) /\ s.obj[p].kind = "upval"
    BY DEF GrayUpvals, IsOpenUpval
  <2>2. Strong(s, p) = {Held(s, p)} /\ ~Leaf(s, p)
    BY <2>1 DEF Strong, Leaf
  <2>3. Strong(y, p) = {Held(s, p)} /\ ~Leaf(y, p)
    BY <1>1, <1>12, <2>1, <2>2, SameIs
  <2> QED
    BY <1>12, <2>1, <2>3, Constants DEF Done
<1>15. Marked(y, X \ GrayUpvals(s))
  BY <1>12, <1>14 DEF Marked, NoGrayLeaf, Closed
<1> QED
  BY <1>12, <1>13, <1>15

\* A list of marked objects is traversed again.
LEMMA ListMoved ==
  ASSUME NEW s, NEW X, Marked(s, X), s.gray = <<>>, NEW w,
         \/ ListsSet(s, w, s.weak, s.grayagain, <<>>)
         \/ ListsSet(s, w, s.grayagain, <<>>, s.weak)
  PROVE  Marked(w, X \ ToSet(w.gray)) /\ SameGraph(s, w) /\ w.obj = s.obj
<1>1. s \in States /\ Graph(s) /\ NoneDead(s) /\ OpenApart(s) /\ GrayLists(s)
  BY DEF Marked, Graph
<1>2. <<>> \in Seq(Ids) /\ IsInjective(<<>>) /\ \A p : p \notin ToSet(<<>>)
  BY EmptyIs
<1>3. s.weak \in Seq(Ids) /\ s.grayagain \in Seq(Ids)
  BY <1>1, FieldsOf
<1>4. /\ w.obj = s.obj /\ SameGraph(s, w)
      /\ \/ w.gray = s.weak /\ w.grayagain = s.grayagain /\ w.weak = <<>>
         \/ w.gray = s.grayagain /\ w.grayagain = <<>> /\ w.weak = s.weak
  <2>1. CASE ListsSet(s, w, s.weak, s.grayagain, <<>>)
    <3>1. w.gray = s.weak /\ w.grayagain = s.grayagain /\ w.weak = <<>> /\ w.obj = s.obj
          /\ SameGraph(s, w)
      BY <2>1, <1>1, <1>2, <1>3, WithLists
    <3> QED
      BY <3>1
  <2>2. CASE ListsSet(s, w, s.grayagain, <<>>, s.weak)
    <3>1. w.gray = s.grayagain /\ w.grayagain = <<>> /\ w.weak = s.weak /\ w.obj = s.obj
          /\ SameGraph(s, w)
      BY <2>2, <1>1, <1>2, <1>3, WithLists
    <3> QED
      BY <3>1
  <2> QED
    BY <2>1, <2>2
<1>5. ListsApart(w)
  <2>1. IsInjective(s.weak) /\ IsInjective(s.grayagain)
        /\ \A o \in ToSet(s.grayagain) : o \notin ToSet(s.weak)
    BY <1>1 DEF GrayLists, ListsApart
  <2> QED
    BY <2>1, <1>2, <1>4 DEF ListsApart
<1>6. \A o \in Ids : Listed(w, o) <=> Listed(s, o)
  BY <1>2, <1>4 DEF Listed
<1>7. GrayLists(w)
  <2>1. \A o \in ToSet(s.grayagain) : s.obj[o].kind \in {"table", "thread"}
    BY <1>1 DEF GrayLists
  <2>2. \A o \in ToSet(s.weak) : s.obj[o].kind = "weak"
    BY <1>1 DEF GrayLists
  <2>3. \A o \in Ids : /\ Listed(s, o) => s.obj[o].color = "gray"
                       /\ s.obj[o].color = "gray" /\ s.obj[o].kind \in Traversed => Listed(s, o)
    BY <1>1 DEF GrayLists
  <2> QED
    BY <1>2, <1>4, <1>5, <1>6, <2>1, <2>2, <2>3 DEF GrayLists, Traversed
<1>8. Graph(w) /\ NoneDead(w)
  <2>1. BlackKinds(w)
    BY <1>1, <1>4 DEF Graph, BlackKinds, IsOpenUpval
  <2>2. \A o \in Ids : Exists(s, o) => w.obj[o].color # otherwhite(s)
    BY <1>1, <1>4 DEF NoneDead, isdead
  <2> QED
    BY <1>1, <1>4, <2>1, <2>2, GraphPainted
<1>9. \A o \in Ids : (Leaf(w, o) <=> Leaf(s, o)) /\ Strong(w, o) = Strong(s, o)
                     /\ (iswhite(w, o) <=> iswhite(s, o)) /\ (Exists(w, o) <=> Exists(s, o))
  BY <1>1, <1>4, SameIs DEF iswhite
<1>10. NoGrayLeaf(w, X \ ToSet(w.gray))
  <2> SUFFICES ASSUME NEW o \in Ids, Leaf(w, o), o \notin X \ ToSet(w.gray), w.obj[o].color = "gray"
               PROVE  FALSE
    BY DEF NoGrayLeaf
  <2>1. o \notin ToSet(w.gray)
    BY <1>7 DEF GrayLists, Leaf, Traversed
  <2> QED
    BY <2>1, <1>4, <1>9 DEF Marked, NoGrayLeaf
<1>11. Closed(w, X \ ToSet(w.gray))
  BY <1>2, <1>4, <1>9 DEF Marked, Closed, Done
<1> QED
  BY <1>4, <1>7, <1>8, <1>10, <1>11 DEF Marked

\* What the four propagations of atomic have in common.
Repainted(s, r) == SameGraph(s, r) /\ \A p \in Ids : ~iswhite(s, p) => ~iswhite(r, p)

LEMMA RemarkedMarks ==
  ASSUME NEW s, Marking(s)
  PROVE  LET r == Remarked(s)
         IN  /\ Marked(r, ToSet(r.grayagain) \cup ToSet(s.tmudata))
             /\ Repainted(s, r) /\ r.gray = <<>>
<1> DEFINE u == remarkupvals(s)
           r == Remarked(s)
           X == Again(s)
           Y == ToSet(s.grayagain) \cup ToSet(s.tmudata)
<1>1. Marks(s, u, X) /\ Marked(u, X \ GrayUpvals(s))
  BY remarkupvalsMarks DEF Marking
<1>2. X \ GrayUpvals(s) \subseteq Y
  BY DEF Again
<1>3. Marked(u, Y) /\ u.grayagain = s.grayagain /\ Repainted(s, u)
  BY <1>1, <1>2, MarkedMore DEF Marks, SameAgain, Darker, Repainted
<1>4. r = propagateall(u)
  BY DEF Remarked
<1> HIDE DEF u, r, X, Y
<1>5. /\ Marked(r, Y) /\ SameGraph(u, r) /\ r.gray = <<>>
      /\ \A p \in Ids : ~iswhite(u, p) => ~iswhite(r, p)
      /\ \A p \in ToSet(u.grayagain) : p \in ToSet(r.grayagain)
  BY <1>3, <1>4, propagateallMarks
<1>6. Y \subseteq ToSet(r.grayagain) \cup ToSet(s.tmudata)
  BY <1>3, <1>5 DEF Y
<1>7. Marked(r, ToSet(r.grayagain) \cup ToSet(s.tmudata))
  BY <1>5, <1>6, MarkedMore
<1>8. Repainted(s, r)
  BY <1>3, <1>5, SameChain DEF Repainted
<1> QED
  BY <1>5, <1>7, <1>8 DEF r

LEMMA WeakAgainMarks ==
  ASSUME NEW s, NEW Z, Marked(s, ToSet(s.grayagain) \cup Z), s.gray = <<>>
  PROVE  LET r == WeakAgain(s)
         IN  /\ Marked(r, ToSet(r.grayagain) \cup Z)
             /\ Repainted(s, r) /\ r.gray = <<>>
<1> DEFINE t == [s EXCEPT !.gray = s.weak, !.weak = <<>>]
           u == markobject(t, Main)
           r == WeakAgain(s)
           X == ToSet(s.grayagain) \cup Z
<1>1. s \in States
  BY DEF Marked, Graph
<1>2. ListsSet(s, t, s.weak, s.grayagain, <<>>) /\ t.grayagain = s.grayagain
  <2>1. t = [s EXCEPT !.gray = s.weak, !.grayagain = s.grayagain, !.weak = <<>>]
    BY <1>1 DEF States
  <2> QED
    BY <2>1, <1>1 DEF ListsSet, States
<1>3. r = propagateall(u)
  BY DEF WeakAgain
<1> HIDE DEF t
<1>4. Marked(t, X \ ToSet(t.gray)) /\ SameGraph(s, t) /\ t.obj = s.obj
  BY <1>2, ListMoved
<1>5. Marked(t, X) /\ Repainted(s, t) /\ Exists(t, Main)
  <2>1. X \ ToSet(t.gray) \subseteq X
    OBVIOUS
  <2>2. Marked(t, X)
    BY <1>4, <2>1, MarkedMore
  <2> QED
    BY <1>4, <2>2, Constants DEF Repainted, iswhite, Marked, Graph, RootsAlive, Alive
<1>6. Marks(t, u, X)
  BY <1>5, Constants, markobjectMarks
<1>7. Marked(u, X) /\ u.grayagain = s.grayagain /\ Repainted(s, u)
  BY <1>2, <1>5, <1>6, SameChain DEF Marks, SameAgain, Darker, Repainted
<1> HIDE DEF u, r, X
<1>8. /\ Marked(r, X) /\ SameGraph(u, r) /\ r.gray = <<>>
      /\ \A p \in Ids : ~iswhite(u, p) => ~iswhite(r, p)
      /\ \A p \in ToSet(u.grayagain) : p \in ToSet(r.grayagain)
  BY <1>3, <1>7, propagateallMarks
<1>9. X \subseteq ToSet(r.grayagain) \cup Z
  BY <1>7, <1>8 DEF X
<1>10. Marked(r, ToSet(r.grayagain) \cup Z)
  BY <1>8, <1>9, MarkedMore
<1>11. Repainted(s, r)
  BY <1>7, <1>8, SameChain DEF Repainted
<1> QED
  BY <1>8, <1>10, <1>11 DEF r

LEMMA GrayAgainMarks ==
  ASSUME NEW s, NEW Z, Marked(s, ToSet(s.grayagain) \cup Z), s.gray = <<>>
  PROVE  LET r == GrayAgain(s)
         IN  Marked(r, Z) /\ Repainted(s, r) /\ r.gray = <<>>
<1> DEFINE t == [s EXCEPT !.gray = s.grayagain, !.grayagain = <<>>]
           r == GrayAgain(s)
           X == ToSet(s.grayagain) \cup Z
<1>1. s \in States
  BY DEF Marked, Graph
<1>2. ListsSet(s, t, s.grayagain, <<>>, s.weak) /\ t.gray = s.grayagain
  <2>1. t = [s EXCEPT !.gray = s.grayagain, !.grayagain = <<>>, !.weak = s.weak]
    BY <1>1 DEF States
  <2> QED
    BY <2>1, <1>1 DEF ListsSet, States
<1>3. r = propagateall(t)
  BY DEF GrayAgain
<1> HIDE DEF t
<1>4. Marked(t, X \ ToSet(t.gray)) /\ SameGraph(s, t) /\ t.obj = s.obj
  BY <1>2, ListMoved
<1>5. X \ ToSet(t.gray) \subseteq Z
  BY <1>2
<1>6. Marked(t, Z) /\ Repainted(s, t)
  BY <1>4, <1>5, MarkedMore DEF Repainted, iswhite
<1> HIDE DEF r, X
<1>7. /\ Marked(r, Z) /\ SameGraph(t, r) /\ r.gray = <<>>
      /\ \A p \in Ids : ~iswhite(t, p) => ~iswhite(r, p)
  BY <1>3, <1>6, propagateallMarks
<1>8. Repainted(s, r)
  BY <1>6, <1>7, SameChain DEF Repainted
<1> QED
  BY <1>7, <1>8 DEF r

\* A list of objects with one more at its end.
LEMMA AppendIs ==
  ASSUME NEW q \in Seq(Ids), NEW o \in Ids
  PROVE  /\ Append(q, o) \in Seq(Ids)
         /\ \A p : p \in ToSet(Append(q, o)) <=> p = o \/ p \in ToSet(q)
         /\ IsInjective(q) /\ o \notin ToSet(q) => IsInjective(Append(q, o))
<1> DEFINE w == <<o>>
<1>1. w \in Seq(Ids) /\ Append(q, o) = q \o w /\ DOMAIN w = {1} /\ w[1] = o
  OBVIOUS
<1> HIDE DEF w
<1>2. IsInjective(w) /\ \A p : p \in ToSet(w) <=> p = o
  BY <1>1 DEF IsInjective, ToSet
<1> QED
  BY <1>1, <1>2, JoinIs

\* The members of D in a list.
LEMMA OnlyIs ==
  ASSUME NEW q \in Seq(Ids), NEW D
  PROVE  /\ Only(q, D) \in Seq(Ids)
         /\ \A p : p \in ToSet(Only(q, D)) <=> p \in ToSet(q) /\ p \in D
         /\ IsInjective(q) => IsInjective(Only(q, D))
<1> DEFINE k == Len(q)
           Seen(i, p) == \E j \in 1 .. i : q[j] = p
           Fine(x, i) == /\ \A p : p \in ToSet(x) <=> p \in D /\ Seen(i, p)
                         /\ IsInjective(q) => IsInjective(x)
           f(x, n) == OnlyIf(x, q[n], D)
           T == [i \in 0 .. k |-> {x \in Seq(Ids) : Fine(x, i)}]
           Step == [i \in 1 .. k |-> [x \in T[i - 1] |-> f(x, i)]]
<1>1. k \in Nat /\ DOMAIN q = 1 .. k /\ \A i \in 1 .. k : q[i] \in Ids
  OBVIOUS
<1>2. <<>> \in T[0]
  <2>1. \A p : ~Seen(0, p)
    OBVIOUS
  <2> HIDE DEF Seen
  <2>2. Fine(<<>>, 0)
    BY <2>1, EmptyIs
  <2> HIDE DEF Fine, k
  <2>3. 0 \in 0 .. k
    BY <1>1
  <2> QED
    BY <2>2, <2>3, EmptyIs
<1>3. ASSUME NEW i \in 1 .. k, NEW x \in T[i - 1]
      PROVE  f(x, i) \in T[i]
  <2> HIDE DEF k
  <2>1. i - 1 \in 0 .. k /\ i \in 0 .. k /\ i \in Nat /\ q[i] \in Ids
    BY <1>1
  <2>2. x \in Seq(Ids) /\ Fine(x, i - 1)
    <3> HIDE DEF Fine
    <3> QED
      BY <2>1
  <2>3. \A p : Seen(i, p) <=> Seen(i - 1, p) \/ p = q[i]
    <3> SUFFICES ASSUME NEW p PROVE Seen(i, p) <=> Seen(i - 1, p) \/ p = q[i]
      OBVIOUS
    <3>1. \A j : j \in 1 .. i <=> j \in 1 .. i - 1 \/ j = i
      BY <1>1
    <3> QED
      BY <3>1
  <2>4. IsInjective(q) => ~Seen(i - 1, q[i])
    <3> SUFFICES ASSUME IsInjective(q), NEW j \in 1 .. i - 1, q[j] = q[i] PROVE FALSE
      OBVIOUS
    <3>1. j \in 1 .. k /\ i \in 1 .. k /\ j # i
      BY <1>1
    <3> QED
      BY <1>1, <3>1 DEF IsInjective
  <2> HIDE DEF Seen
  <2>5. CASE q[i] \in D
    <3>1. f(x, i) = Append(x, q[i])
      BY <2>5 DEF OnlyIf
    <3>2. /\ f(x, i) \in Seq(Ids)
          /\ \A p : p \in ToSet(f(x, i)) <=> p = q[i] \/ p \in ToSet(x)
          /\ IsInjective(x) /\ q[i] \notin ToSet(x) => IsInjective(f(x, i))
      BY <2>1, <2>2, <3>1, AppendIs
    <3> HIDE DEF f
    <3>3. Fine(f(x, i), i)
      BY <2>2, <2>3, <2>4, <2>5, <3>2
    <3> HIDE DEF Fine
    <3> QED
      BY <2>1, <3>2, <3>3
  <2>6. CASE q[i] \notin D
    <3>1. f(x, i) = x
      BY <2>6 DEF OnlyIf
    <3> HIDE DEF f
    <3>2. Fine(x, i)
      BY <2>2, <2>3, <2>6
    <3> HIDE DEF Fine
    <3> QED
      BY <2>1, <2>2, <3>1, <3>2
  <2> QED
    BY <2>5, <2>6
<1>4. Within(k, T, Step)
  <2> HIDE DEF T, f
  <2> QED
    BY <1>3 DEF Within
<1>5. PICK m : Repeats(k, T, Step, <<>>, m)
  <2> HIDE DEF T, Step, k
  <2> QED
    BY <1>1, <1>2, <1>4, Repeated
<1>6. m = [i \in 0 .. k |-> IF i = 0 THEN <<>> ELSE f(m[i - 1], i)]
  <2> HIDE DEF T, f
  <2>1. \A i \in 1 .. k : Step[i][m[i - 1]] = f(m[i - 1], i)
    <3> SUFFICES ASSUME NEW i \in 1 .. k PROVE Step[i][m[i - 1]] = f(m[i - 1], i)
      OBVIOUS
    <3>1. i - 1 \in 0 .. k
      BY <1>1
    <3>2. m[i - 1] \in T[i - 1]
      BY <3>1, <1>5 DEF Repeats
    <3> QED
      BY <3>2
  <2> HIDE DEF Step
  <2>2. \A i \in 0 .. k : i # 0 => i \in 1 .. k
    BY <1>1
  <2> QED
    BY <1>5, <2>1, <2>2 DEF Repeats
<1>7. PICK r : r = CHOOSE h : h = [n \in 0 .. k |-> IF n = 0 THEN <<>> ELSE f(h[n - 1], n)]
  OBVIOUS
<1>8. r = [n \in 0 .. k |-> IF n = 0 THEN <<>> ELSE f(r[n - 1], n)]
  <2> HIDE DEF f
  <2> QED
    BY <1>6, <1>7
<1>9. Only(q, D) = r[k]
  BY <1>7 DEF Only, k
<1>10. r[k] \in T[k]
  <2>1. r[0] \in T[0]
    <3> HIDE DEF T, f
    <3>1. 0 \in 0 .. k
      BY <1>1
    <3> QED
      BY <1>2, <1>8, <3>1
  <2>2. \A i \in 1 .. k : r[i - 1] \in T[i - 1] => r[i] \in T[i]
    <3> HIDE DEF T
    <3> SUFFICES ASSUME NEW i \in 1 .. k, r[i - 1] \in T[i - 1] PROVE r[i] \in T[i]
      OBVIOUS
    <3>1. i \in 0 .. k /\ i # 0
      BY <1>1
    <3>2. r[i] = f(r[i - 1], i)
      <4> HIDE DEF f
      <4> QED
        BY <1>8, <3>1
    <3> QED
      BY <1>3, <3>2
  <2>3. \A i \in 0 .. k : r[i] \in T[i]
    <3> HIDE DEF T, f
    <3> QED
      BY <1>1, <2>1, <2>2, PassedOn
  <2>4. k \in 0 .. k
    BY <1>1
  <2> QED
    BY <2>3, <2>4
<1>11. r[k] \in Seq(Ids) /\ Fine(r[k], k)
  <2> HIDE DEF k, Fine
  <2>1. k \in 0 .. k
    BY <1>1
  <2> QED
    BY <1>10, <2>1
<1>12. \A p : p \in ToSet(q) <=> Seen(k, p)
  BY <1>1 DEF ToSet
<1> HIDE DEF Seen
<1> QED
  BY <1>9, <1>11, <1>12

\* The same objects, of the same colours and on the same lists of the cycle.
SameObjects(s, r) ==
  /\ s \in States /\ r \in States
  /\ r.stack = s.stack /\ r.currentwhite = s.currentwhite
  /\ r.gray = s.gray /\ r.grayagain = s.grayagain /\ r.weak = s.weak
  /\ \A o \in Ids : /\ r.obj[o].kind = s.obj[o].kind /\ r.obj[o].val = s.obj[o].val
                    /\ r.obj[o].slot = s.obj[o].slot /\ r.obj[o].th = s.obj[o].th
                    /\ r.obj[o].color = s.obj[o].color

LEMMA SameMarks ==
  ASSUME NEW s, NEW r, NEW X, Marked(s, X), SameObjects(s, r)
  PROVE  Marked(r, X)
<1>1. s \in States /\ r \in States /\ Graph(s) /\ OpenApart(s) /\ otherwhite(r) = otherwhite(s)
  BY DEF Marked, Graph, SameObjects, otherwhite
<1>2. \A o \in Ids : /\ Exists(r, o) <=> Exists(s, o)
                     /\ IsOpenUpval(r, o) <=> IsOpenUpval(s, o)
                     /\ iswhite(r, o) <=> iswhite(s, o)
                     /\ isdead(r, o) <=> isdead(s, o)
                     /\ Leaf(r, o) <=> Leaf(s, o)
                     /\ Alive(r, o) <=> Alive(s, o)
                     /\ r.obj[o].kind = s.obj[o].kind /\ r.obj[o].val = s.obj[o].val
                     /\ r.obj[o].color = s.obj[o].color
  BY <1>1 DEF SameObjects, Exists, IsOpenUpval, iswhite, isdead, Leaf, Alive
<1>3. \A o \in Ids : s.obj[o].val \in Names /\ (s.obj[o].val # 0 => s.obj[o].val \in Ids)
  BY <1>1, FieldsOf DEF Names
<1>4. \A o \in Ids : IsOpenUpval(s, o) => s.obj[o].th \in Ids
  BY <1>1 DEF OpenApart
<1>5. \A o \in Ids : Held(r, o) = Held(s, o)
  <2> SUFFICES ASSUME NEW o \in Ids PROVE Held(r, o) = Held(s, o)
    OBVIOUS
  <2>1. CASE IsOpenUpval(s, o)
    BY <2>1, <1>2, <1>4 DEF Held, UpvalSlot, SameObjects
  <2>2. CASE ~IsOpenUpval(s, o)
    BY <2>2, <1>2 DEF Held
  <2> QED
    BY <2>1, <2>2
<1>6. \A o \in Ids : Strong(r, o) = Strong(s, o)
  <2> SUFFICES ASSUME NEW o \in Ids PROVE Strong(r, o) = Strong(s, o)
    OBVIOUS
  <2>1. Kind(r, s.obj[o].val) = Kind(s, s.obj[o].val)
    BY <1>2, <1>3 DEF Kind
  <2>2. r.obj[o].kind = s.obj[o].kind /\ r.obj[o].val = s.obj[o].val /\ r.stack = s.stack
    BY <1>2 DEF SameObjects
  <2> QED
    BY <2>1, <2>2, <1>5 DEF Strong
<1>7. \A v : Value(s, v) => Value(r, v)
  BY <1>2 DEF Value
<1>8. Graph(r)
  <2>1. RootsAlive(r)
    BY <1>1, <1>2, <1>7, Constants DEF Graph, RootsAlive, SameObjects
  <2>2. AllRefer(r)
    <3> SUFFICES ASSUME NEW o \in Ids, Alive(r, o) PROVE Refers(r, o)
      BY DEF AllRefer
    <3>1. Refers(s, o)
      BY <1>1, <1>2 DEF Graph, AllRefer
    <3> QED
      BY <3>1, <1>2, <1>3, <1>5, <1>7 DEF Refers
  <2>3. OpenApart(r)
    BY <1>1, <1>2 DEF OpenApart, SameObjects
  <2>4. BlackKinds(r) /\ Plain(r)
    BY <1>1, <1>2 DEF Graph, BlackKinds, Plain
  <2> QED
    BY <1>1, <2>1, <2>2, <2>3, <2>4 DEF Graph
<1>9. NoneDead(r)
  BY <1>2 DEF Marked, NoneDead
<1>10. GrayLists(r)
  <2>1. GrayLists(s) /\ r.gray = s.gray /\ r.grayagain = s.grayagain /\ r.weak = s.weak
    BY DEF Marked, SameObjects
  <2>2. \A o : Listed(r, o) <=> Listed(s, o)
    BY <2>1 DEF Listed
  <2>3. s.gray \in Seq(Ids) /\ s.grayagain \in Seq(Ids) /\ s.weak \in Seq(Ids)
    BY <1>1, FieldsOf
  <2>4. \A o : Listed(s, o) => o \in Ids
    BY <2>3 DEF Listed, ToSet
  <2> QED
    BY <1>2, <2>1, <2>2, <2>4 DEF GrayLists, ListsApart, Listed
<1>11. NoGrayLeaf(r, X)
  BY <1>2 DEF Marked, NoGrayLeaf
<1>12. Closed(r, X)
  BY <1>2, <1>6 DEF Marked, Closed, Done, SameObjects
<1> QED
  BY <1>8, <1>9, <1>10, <1>11, <1>12 DEF Marked

\* The lists of all objects hold what they held.
LEMMA RootListsSame ==
  ASSUME NEW s, NEW r, NEW E, RootLists(s, E), Graph(s), SameGraph(s, r), NoneDead(r)
  PROVE  RootLists(r, E)
<1>1. s \in States /\ OpenApart(s)
  BY DEF Graph
<1>2. \A o \in Ids : /\ InRootgc(r, o) <=> InRootgc(s, o)
                     /\ Exists(r, o) <=> Exists(s, o)
                     /\ r.obj[o].kind = s.obj[o].kind
  BY <1>1, SameIs DEF SameGraph
<1>3. r.rootgc = s.rootgc /\ r.strt = s.strt /\ r.tmudata = s.tmudata
  BY DEF SameGraph
<1>4. \A o \in ToSet(s.tmudata) : o \in Ids
  BY <1>1, FieldsOf DEF ToSet
<1>5. \A o \in Ids : Alive(s, o) => Alive(r, o)
  BY <1>2 DEF Alive, NoneDead
<1> QED
  BY <1>2, <1>3, <1>4, <1>5 DEF RootLists

LEMMA SeparatedMarks ==
  ASSUME NEW s, Marked(s, ToSet(s.tmudata)), RootLists(s, {})
  PROVE  LET r == luaC_separateudata(s)
         IN  /\ Marked(r, ToSet(r.tmudata)) /\ RootLists(r, {}) /\ SameObjects(s, r)
             /\ r.strt = s.strt /\ r.sweepgc = s.sweepgc /\ r.gcstate = s.gcstate
<1> DEFINE r == luaC_separateudata(s)
           due == {o \in Unmarked(s) : s.obj[o].gc}
           out == Only(s.rootgc, due)
           in == Only(s.rootgc, Ids \ due)
           w == [o \in Ids |-> IF o \in Unmarked(s) THEN [s.obj[o] EXCEPT !.final = TRUE] ELSE s.obj[o]]
<1>1. s \in States /\ Graph(s) /\ NoneDead(s)
  BY DEF Marked, Graph
<1>2. s.rootgc \in Seq(Ids) /\ s.tmudata \in Seq(Ids) /\ IsInjective(s.rootgc)
      /\ IsInjective(s.tmudata)
  BY <1>1, FieldsOf DEF RootLists
<1>3. /\ out \in Seq(Ids) /\ IsInjective(out)
      /\ \A p : p \in ToSet(out) <=> p \in ToSet(s.rootgc) /\ p \in due
  <2> HIDE DEF due
  <2> QED
    BY <1>2, OnlyIs
<1>4. /\ in \in Seq(Ids) /\ IsInjective(in)
      /\ \A p : p \in ToSet(in) <=> p \in ToSet(s.rootgc) /\ p \in Ids \ due
  <2> HIDE DEF due
  <2> QED
    BY <1>2, OnlyIs
<1>5. \A p \in ToSet(s.rootgc) : p \in Ids
  BY <1>2 DEF ToSet
<1>6. \A p \in due : p \in ToSet(s.rootgc) /\ p \in Ids /\ s.obj[p].kind = "udata"
  BY <1>5 DEF Unmarked
<1>7. \A p \in ToSet(s.rootgc) : p \notin ToSet(s.tmudata)
  BY <1>5 DEF RootLists, InRootgc
<1> HIDE DEF due, out, in
<1>8. /\ s.tmudata \o out \in Seq(Ids) /\ IsInjective(s.tmudata \o out)
      /\ \A p : p \in ToSet(s.tmudata \o out) <=> p \in ToSet(s.tmudata) \/ p \in due
  <2>1. \A p \in ToSet(s.tmudata) : p \notin ToSet(out)
    BY <1>3, <1>7
  <2> QED
    BY <1>2, <1>3, <1>6, <2>1, JoinIs
<1>9. w \in [Ids -> Objects]
  BY <1>1 DEF States, Objects
<1>10. \A o \in Ids : /\ w[o].kind = s.obj[o].kind /\ w[o].val = s.obj[o].val
                      /\ w[o].slot = s.obj[o].slot /\ w[o].th = s.obj[o].th
                      /\ w[o].color = s.obj[o].color
  BY <1>1 DEF States, Objects
<1> HIDE DEF w
<1>11. r = [s EXCEPT !.tmudata = s.tmudata \o out, !.rootgc = in, !.obj = w]
  BY DEF luaC_separateudata, due, out, in, w
<1> HIDE DEF r
<1>12. /\ r.obj = w /\ r.tmudata = s.tmudata \o out /\ r.rootgc = in /\ r.strt = s.strt
       /\ r.sweepgc = s.sweepgc /\ r.gcstate = s.gcstate /\ r.stack = s.stack
       /\ r.currentwhite = s.currentwhite /\ r.gray = s.gray /\ r.grayagain = s.grayagain
       /\ r.weak = s.weak /\ r \in States
  BY <1>1, <1>4, <1>8, <1>9, <1>11 DEF States
<1>13. SameObjects(s, r)
  BY <1>1, <1>10, <1>12 DEF SameObjects
<1>14. Marked(r, ToSet(s.tmudata))
  BY <1>13, SameMarks
<1>15. ToSet(s.tmudata) \subseteq ToSet(r.tmudata)
  BY <1>8, <1>12
<1>16. Marked(r, ToSet(r.tmudata))
  BY <1>14, <1>15, MarkedMore
<1>17. RootLists(r, {})
  <2>1. \A o \in Ids : /\ Exists(r, o) <=> Exists(s, o)
                       /\ IsOpenUpval(r, o) <=> IsOpenUpval(s, o)
                       /\ r.obj[o].kind = s.obj[o].kind
    BY <1>13 DEF SameObjects, Exists, IsOpenUpval
  <2>2. \A p : p \in ToSet(r.tmudata) <=> p \in ToSet(s.tmudata) \/ p \in due
    BY <1>8, <1>12
  <2>3. \A o \in Ids : o \in ToSet(r.rootgc) <=> InRootgc(r, o)
    <3> SUFFICES ASSUME NEW o \in Ids PROVE o \in ToSet(r.rootgc) <=> InRootgc(r, o)
      OBVIOUS
    <3>1. o \in ToSet(r.rootgc) <=> o \in ToSet(s.rootgc) /\ o \notin due
      BY <1>4, <1>12
    <3>2. o \in ToSet(s.rootgc) <=> InRootgc(s, o)
      BY DEF RootLists
    <3> QED
      BY <2>1, <2>2, <3>1, <3>2 DEF InRootgc
  <2>4. \A o \in ToSet(r.tmudata) : Alive(r, o) /\ r.obj[o].kind = "udata"
    <3> SUFFICES ASSUME NEW o \in ToSet(r.tmudata) PROVE Alive(r, o) /\ r.obj[o].kind = "udata"
      OBVIOUS
    <3>1. \A p \in ToSet(s.tmudata) : p \in Ids
      BY <1>2 DEF ToSet
    <3>2. o \in Ids /\ s.obj[o].kind = "udata"
      BY <1>6, <2>2, <3>1 DEF RootLists
    <3>3. Exists(r, o) /\ r.obj[o].kind = "udata"
      BY <2>1, <3>2 DEF Exists
    <3> QED
      BY <1>16, <3>2, <3>3 DEF Marked, NoneDead, Alive
  <2>5. \A o \in Ids : o \in r.strt <=> r.obj[o].kind = "string"
    BY <1>12, <2>1 DEF RootLists
  <2> QED
    BY <1>4, <1>8, <1>12, <2>3, <2>4, <2>5 DEF RootLists
<1> QED
  BY <1>12, <1>13, <1>16, <1>17 DEF r

LEMMA MarkAnewIs ==
  ASSUME NEW s \in States, NEW o \in Ids, s.obj[o].kind = "udata"
  PROVE  MarkAnew(s, o) = MarkUdata(s, o)
<1> DEFINE y == Painted(s, o, s.currentwhite)
<1>1. s.currentwhite \in Colors /\ s.currentwhite \in Whites
  BY FieldsOf DEF Whites, Colors
<1>2. SameGraph(s, y) /\ OnlyPaints(s, y, o, s.currentwhite)
  BY <1>1, PaintedIs
<1>3. Painted(y, o, "black") = Painted(s, o, "black")
  BY <1>1, PaintedOver DEF Colors
<1>4. MarkAnew(s, o) = reallymarkobject(y, o)
  BY DEF MarkAnew, makewhite
<1> HIDE DEF y
<1>5. y.obj[o].kind = "udata" /\ y.obj[o].val = s.obj[o].val /\ iswhite(y, o) /\ o # 0
  BY <1>1, <1>2, Constants DEF SameGraph, OnlyPaints, iswhite, Whites
<1>6. reallymarkobject(y, o) = MarkUdata(y, o)
  BY <1>5 DEF reallymarkobject, markvalue
<1> QED
  BY <1>3, <1>4, <1>5, <1>6 DEF MarkUdata

\* What is to be finalized is marked, with its environment.
LEMMA marktmuMarks ==
  ASSUME NEW s, Marked(s, ToSet(s.tmudata)), \A o \in ToSet(s.tmudata) : s.obj[o].kind = "udata"
  PROVE  LET r == marktmu(s)
         IN  Marked(r, {}) /\ Repainted(s, r) /\ \A o \in ToSet(s.tmudata) : ~iswhite(r, o)
<1> DEFINE q == s.tmudata
           k == Len(q)
           Left(i) == {q[j] : j \in i + 1 .. k}
           Fine(x, i) == /\ Marked(x, Left(i)) /\ Repainted(s, x)
                         /\ \A j \in 1 .. i : ~iswhite(x, q[j])
           f(x, n) == MarkAnew(x, q[n])
           T == [i \in 0 .. k |-> {x \in States : Fine(x, i)}]
           Step == [i \in 1 .. k |-> [x \in T[i - 1] |-> f(x, i)]]
<1>0. s \in States /\ q \in Seq(Ids)
  BY FieldsOf DEF Marked, Graph
<1>1. k \in Nat /\ DOMAIN q = 1 .. k /\ \A i \in 1 .. k : q[i] \in Ids /\ q[i] \in ToSet(q)
  <2> HIDE DEF q
  <2> QED
    BY <1>0 DEF ToSet
<1>2. s \in T[0]
  <2>1. Left(0) = ToSet(q)
    <3> HIDE DEF q
    <3>1. 0 + 1 = 1
      OBVIOUS
    <3> QED
      BY <1>1, <3>1 DEF ToSet
  <2>2. Repainted(s, s)
    BY <1>0, SameChain DEF Repainted
  <2> HIDE DEF Left
  <2>3. \A j \in 1 .. 0 : FALSE
    OBVIOUS
  <2>4. Fine(s, 0)
    BY <2>1, <2>2, <2>3
  <2> HIDE DEF Fine, k
  <2>5. 0 \in 0 .. k
    BY <1>1
  <2> QED
    BY <1>0, <2>4, <2>5
<1> HIDE DEF q
<1>3. ASSUME NEW i \in 1 .. k, NEW x \in T[i - 1]
      PROVE  f(x, i) \in T[i]
  <2> DEFINE o == q[i]
  <2> HIDE DEF k
  <2>1. i - 1 \in 0 .. k /\ i \in 0 .. k /\ o \in Ids /\ o \in ToSet(q)
        /\ \A j \in 1 .. i : (j \in 1 .. i - 1 \/ j = i) /\ j \in 1 .. k
    BY <1>1
  <2>2. x \in States /\ Fine(x, i - 1)
    <3> HIDE DEF Fine
    <3> QED
      BY <2>1
  <2>3. Left(i - 1) = Left(i) \cup {o}
    <3>1. (i - 1) + 1 = i
      BY <1>1
    <3>2. \A j : j \in (i - 1) + 1 .. k <=> j = i \/ j \in i + 1 .. k
      BY <1>1, <3>1
    <3> QED
      BY <3>2
  <2> HIDE DEF Left
  <2>4. x.obj[o].kind = "udata"
    BY <2>1, <2>2 DEF Repainted, SameGraph, q
  <2>5. f(x, i) = MarkUdata(x, o)
    BY <2>1, <2>2, <2>4, MarkAnewIs
  <2>6. Marked(x, Left(i) \cup {o})
    BY <2>2, <2>3
  <2> DEFINE y == f(x, i)
  <2>7. MarksOn(x, y, Left(i), o)
    BY <2>1, <2>4, <2>5, <2>6, MarkUdataMarks
  <2> HIDE DEF y, f
  <2>8. Marked(y, Left(i)) /\ Repainted(s, y) /\ y \in States
        /\ \A p \in Ids : ~iswhite(x, p) => ~iswhite(y, p)
    BY <2>2, <2>7, SameChain DEF MarksOn, Marks, Darker, Repainted, SameGraph
  <2>9. \A j \in 1 .. i : ~iswhite(y, q[j])
    <3> SUFFICES ASSUME NEW j \in 1 .. i PROVE ~iswhite(y, q[j])
      OBVIOUS
    <3>1. CASE j = i
      BY <3>1, <2>1, <2>7, Constants DEF MarksOn
    <3>2. CASE j \in 1 .. i - 1
      BY <3>2, <1>1, <2>1, <2>2, <2>8
    <3> QED
      BY <2>1, <3>1, <3>2
  <2>10. Fine(y, i)
    BY <2>8, <2>9
  <2> HIDE DEF Fine
  <2> QED
    BY <2>1, <2>8, <2>10 DEF y
<1>4. Within(k, T, Step)
  <2> HIDE DEF T, f
  <2> QED
    BY <1>3 DEF Within
<1>5. PICK m : Repeats(k, T, Step, s, m)
  <2> HIDE DEF T, Step, k
  <2> QED
    BY <1>1, <1>2, <1>4, Repeated
<1>6. m = [i \in 0 .. k |-> IF i = 0 THEN s ELSE f(m[i - 1], i)]
  <2> HIDE DEF T, f
  <2>1. \A i \in 1 .. k : Step[i][m[i - 1]] = f(m[i - 1], i)
    <3> SUFFICES ASSUME NEW i \in 1 .. k PROVE Step[i][m[i - 1]] = f(m[i - 1], i)
      OBVIOUS
    <3>1. i - 1 \in 0 .. k
      BY <1>1
    <3>2. m[i - 1] \in T[i - 1]
      BY <3>1, <1>5 DEF Repeats
    <3> QED
      BY <3>2
  <2> HIDE DEF Step
  <2>2. \A i \in 0 .. k : i # 0 => i \in 1 .. k
    BY <1>1
  <2> QED
    BY <1>5, <2>1, <2>2 DEF Repeats
<1>7. PICK r : r = CHOOSE h : h = [n \in 0 .. k |-> IF n = 0 THEN s ELSE f(h[n - 1], n)]
  OBVIOUS
<1>8. r = [n \in 0 .. k |-> IF n = 0 THEN s ELSE f(r[n - 1], n)]
  <2> HIDE DEF f
  <2> QED
    BY <1>6, <1>7
<1>9. marktmu(s) = r[k]
  BY <1>7 DEF marktmu, k, q
<1>10. r[k] \in T[k]
  <2>1. r[0] \in T[0]
    <3> HIDE DEF T, f
    <3>1. 0 \in 0 .. k
      BY <1>1
    <3> QED
      BY <1>2, <1>8, <3>1
  <2>2. \A i \in 1 .. k : r[i - 1] \in T[i - 1] => r[i] \in T[i]
    <3> HIDE DEF T
    <3> SUFFICES ASSUME NEW i \in 1 .. k, r[i - 1] \in T[i - 1] PROVE r[i] \in T[i]
      OBVIOUS
    <3>1. i \in 0 .. k /\ i # 0
      BY <1>1
    <3>2. r[i] = f(r[i - 1], i)
      <4> HIDE DEF f
      <4> QED
        BY <1>8, <3>1
    <3> QED
      BY <1>3, <3>2
  <2>3. \A i \in 0 .. k : r[i] \in T[i]
    <3> HIDE DEF T, f
    <3> QED
      BY <1>1, <2>1, <2>2, PassedOn
  <2>4. k \in 0 .. k
    BY <1>1
  <2> QED
    BY <2>3, <2>4
<1>11. r[k] \in States /\ Fine(r[k], k)
  <2> HIDE DEF k, Fine
  <2>1. k \in 0 .. k
    BY <1>1
  <2> QED
    BY <1>10, <2>1
<1>12. Left(k) = {}
  <2>1. k + 1 .. k = {}
    BY <1>1
  <2> QED
    BY <2>1
<1> HIDE DEF Left
<1>13. \A o \in ToSet(q) : \E j \in 1 .. k : q[j] = o
  BY <1>1 DEF ToSet
<1> QED
  BY <1>9, <1>11, <1>12, <1>13 DEF q

LEMMA PreservedMarks ==
  ASSUME NEW s, Marked(s, ToSet(s.tmudata)), RootLists(s, {})
  PROVE  LET r == Preserved(s)
         IN  /\ Marked(r, {}) /\ RootLists(r, {}) /\ r.gray = <<>>
             /\ \A p \in Ids : ~iswhite(s, p) => ~iswhite(r, p)
             /\ \A p \in ToSet(r.tmudata) : ~iswhite(r, p)
<1> DEFINE t == luaC_separateudata(s)
           u == marktmu(t)
           r == Preserved(s)
<1>1. Marked(t, ToSet(t.tmudata)) /\ RootLists(t, {}) /\ SameObjects(s, t)
  BY SeparatedMarks
<1>2. r = propagateall(u)
  BY DEF Preserved
<1> HIDE DEF t, r
<1>3. Marked(u, {}) /\ Repainted(t, u) /\ \A o \in ToSet(t.tmudata) : ~iswhite(u, o)
  BY <1>1, marktmuMarks DEF RootLists
<1> HIDE DEF u
<1>4. /\ Marked(r, {}) /\ SameGraph(u, r) /\ r.gray = <<>>
      /\ \A p \in Ids : ~iswhite(u, p) => ~iswhite(r, p)
  BY <1>2, <1>3, propagateallMarks
<1>5. SameGraph(t, r) /\ t \in States
  BY <1>3, <1>4, SameChain DEF Repainted, SameGraph
<1>6. \A p \in Ids : ~iswhite(s, p) => ~iswhite(r, p)
  BY <1>1, <1>3, <1>4 DEF SameObjects, Repainted, iswhite
<1>7. \A p \in ToSet(r.tmudata) : ~iswhite(r, p)
  <2>1. r.tmudata = t.tmudata /\ t.tmudata \in Seq(Ids)
    BY <1>5, FieldsOf DEF SameGraph
  <2>2. \A p \in ToSet(t.tmudata) : p \in Ids
    BY <2>1 DEF ToSet
  <2> QED
    BY <1>3, <1>4, <2>1, <2>2
<1>8. RootLists(r, {})
  BY <1>1, <1>4, <1>5, RootListsSame DEF Marked
<1> QED
  BY <1>4, <1>6, <1>7, <1>8 DEF r

-----------------------------------------------------------------------------
(* From marking to sweeping.                                                *)

\* From the head of the list on, and with the strings, all is to be swept.
LEMMA AllToSweep ==
  ASSUME NEW s, s \in States, OpenApart(s), RootLists(s, {}),
         s.gcstate = "sweepstring", s.sweepgc = 0
  PROVE  Sweeping(s, {})
<1>1. s.rootgc \in Seq(Ids) /\ DOMAIN s.rootgc = 1 .. Len(s.rootgc)
  BY FieldsOf
<1>2. \A i \in DOMAIN s.rootgc : s.rootgc[i] # 0
  BY <1>1, Constants
<1>3. \A o \in ToSet(s.rootgc) : o \in After(s.rootgc, 0)
  <2> SUFFICES ASSUME NEW o \in ToSet(s.rootgc) PROVE o \in After(s.rootgc, 0)
    OBVIOUS
  <2>1. PICK j \in DOMAIN s.rootgc : s.rootgc[j] = o
    BY DEF ToSet
  <2> QED
    BY <2>1, <1>2 DEF After
<1>4. \A o \in ToSet(s.rootgc) : Ahead(s, o)
  BY <1>3 DEF Ahead
<1>5. AsNew(s, {})
  <2> SUFFICES ASSUME NEW o \in Ids, Exists(s, o) PROVE ToSweep(s, o)
    BY DEF AsNew
  <2>1. CASE o \in ToSet(s.tmudata) \/ s.obj[o].kind = "string"
    BY <2>1 DEF ToSweep
  <2>2. CASE IsOpenUpval(s, o)
    <3>1. s.obj[o].th \in Ids /\ s.obj[s.obj[o].th].kind = "thread"
      BY <2>2 DEF OpenApart
    <3>2. InRootgc(s, s.obj[o].th)
      BY <3>1 DEF InRootgc, Exists, IsOpenUpval, RootLists
    <3>3. s.obj[o].th \in ToSet(s.rootgc)
      BY <3>1, <3>2 DEF RootLists
    <3> QED
      BY <2>2, <3>3, <1>4 DEF ToSweep
  <2>3. CASE InRootgc(s, o)
    BY <2>3, <1>4 DEF RootLists, ToSweep
  <2> QED
    BY <2>1, <2>2, <2>3 DEF InRootgc
<1> QED
  BY <1>5 DEF Sweeping

\* All is marked but what refers to it: cleartable and the change of the
\* white make what is white dead.
AllMarked(s) ==
  /\ Marked(s, {}) /\ RootLists(s, {}) /\ s.gray = <<>> /\ ~iswhite(s, Main)
  /\ \A p \in ToSet(s.tmudata) : ~iswhite(s, p)
Flipped(s) ==
  LET cleared == cleartable(s)
  IN  [cleared EXCEPT !.currentwhite = otherwhite(cleared), !.sweepgc = 0,
                      !.gcstate = "sweepstring"]

LEMMA AllMarkedAtLast ==
  ASSUME NEW s, CollectorInv(s), s.gcstate = "propagate"
  PROVE  AllMarked(Preserved(GrayAgain(WeakAgain(Remarked(s)))))
<1> DEFINE a == Remarked(s)
           b == WeakAgain(a)
           c == GrayAgain(b)
           r == Preserved(c)
           Z == ToSet(s.tmudata)
<1>1. Marking(s) /\ RootLists(s, {}) /\ Graph(s)
  BY DEF CollectorInv, InvBut
<1>2. Marked(a, ToSet(a.grayagain) \cup Z) /\ Repainted(s, a) /\ a.gray = <<>>
  BY <1>1, RemarkedMarks
<1> HIDE DEF a, Z
<1>3. Marked(b, ToSet(b.grayagain) \cup Z) /\ Repainted(a, b) /\ b.gray = <<>>
  BY <1>2, WeakAgainMarks
<1> HIDE DEF b
<1>4. Marked(c, Z) /\ Repainted(b, c)
  BY <1>3, GrayAgainMarks
<1> HIDE DEF c
<1>5. SameGraph(s, c) /\ \A p \in Ids : ~iswhite(s, p) => ~iswhite(c, p)
  BY <1>2, <1>3, <1>4, SameChain DEF Repainted
<1>6. RootLists(c, {}) /\ ToSet(c.tmudata) = Z
  BY <1>1, <1>4, <1>5, RootListsSame DEF Marked, SameGraph, Z
<1>7. /\ Marked(r, {}) /\ RootLists(r, {}) /\ r.gray = <<>>
      /\ \A p \in Ids : ~iswhite(c, p) => ~iswhite(r, p)
      /\ \A p \in ToSet(r.tmudata) : ~iswhite(r, p)
  BY <1>4, <1>6, PreservedMarks
<1>8. ~iswhite(r, Main)
  BY <1>1, <1>5, <1>7, Constants DEF Marking
<1> QED
  BY <1>7, <1>8 DEF AllMarked, a, b, c

LEMMA FlippedKeeps ==
  ASSUME NEW s, AllMarked(s)
  PROVE  LET r == Flipped(s)
         IN  CollectorInv(r) /\ r.gcstate = "sweepstring" /\ r.tmudata = s.tmudata
<1> DEFINE r == Flipped(s)
           w == [o \in Ids |->
                   IF o \in ToSet(s.weak) /\ iscleared(s, s.obj[o].val) THEN [s.obj[o] EXCEPT !.val = 0]
                   ELSE IF s.obj[o].kind = "string" /\ InWeak(s, o) THEN [s.obj[o] EXCEPT !.color = "gray"]
                   ELSE s.obj[o]]
<1>1. s \in States /\ Graph(s) /\ NoneDead(s) /\ GrayLists(s) /\ Closed(s, {}) /\ OpenApart(s)
  BY DEF AllMarked, Marked, Graph
<1>2. \A o \in Ids : s.obj[o] \in Objects /\ s.obj[o].val \in Names
                     /\ (s.obj[o].val # 0 => s.obj[o].val \in Ids)
  BY <1>1, FieldsOf DEF Names
<1>3. w \in [Ids -> Objects]
  BY <1>2 DEF Objects, Names, Colors
<1>4. \A o \in Ids : /\ w[o].kind = s.obj[o].kind /\ w[o].slot = s.obj[o].slot
                     /\ w[o].th = s.obj[o].th
                     /\ w[o].val = IF o \in ToSet(s.weak) /\ iscleared(s, s.obj[o].val) THEN 0
                                   ELSE s.obj[o].val
                     /\ w[o].color = s.obj[o].color \/ (w[o].color = "gray" /\ s.obj[o].kind = "string")
                     /\ s.obj[o].kind = "string" /\ InWeak(s, o) => w[o].color = "gray"
  <2>1. \A o \in ToSet(s.weak) : s.obj[o].kind = "weak"
    BY <1>1 DEF GrayLists
  <2> QED
    BY <1>2, <2>1 DEF Objects
<1> HIDE DEF w
<1>5. otherwhite(s) \in Whites /\ otherwhite(s) # s.currentwhite /\ s.currentwhite \in Whites
  BY <1>1, Colours, FieldsOf
<1>6. r = [s EXCEPT !.obj = w, !.currentwhite = otherwhite(s), !.sweepgc = 0,
                    !.gcstate = "sweepstring"]
  BY <1>1 DEF Flipped, cleartable, otherwhite, States, w
<1> HIDE DEF r
<1>7. /\ r.obj = w /\ r.currentwhite = otherwhite(s) /\ r.sweepgc = 0 /\ r.gcstate = "sweepstring"
      /\ r.rootgc = s.rootgc /\ r.strt = s.strt /\ r.tmudata = s.tmudata /\ r.stack = s.stack
      /\ r.gray = s.gray /\ r.grayagain = s.grayagain /\ r.weak = s.weak
  BY <1>1, <1>6 DEF States
<1>8. r \in States
  BY <1>1, <1>3, <1>5, <1>6 DEF States, Names, Phases
<1>9. otherwhite(r) = s.currentwhite
  BY <1>5, <1>7 DEF otherwhite, Whites
<1>10. \A o \in Ids : /\ r.obj[o].kind = s.obj[o].kind /\ r.obj[o].slot = s.obj[o].slot
                      /\ r.obj[o].th = s.obj[o].th
                      /\ s.obj[o].kind # "weak" => r.obj[o].val = s.obj[o].val
                      /\ Exists(r, o) <=> Exists(s, o)
                      /\ IsOpenUpval(r, o) <=> IsOpenUpval(s, o)
  <2>1. \A o \in ToSet(s.weak) : s.obj[o].kind = "weak"
    BY <1>1 DEF GrayLists
  <2> QED
    BY <1>4, <1>7, <2>1 DEF Exists, IsOpenUpval
<1>11. \A o \in Ids : Exists(s, o) => (isdead(r, o) <=> w[o].color \in Whites)
  <2> SUFFICES ASSUME NEW o \in Ids, Exists(s, o)
               PROVE  isdead(r, o) <=> w[o].color \in Whites
    OBVIOUS
  <2>1. isdead(r, o) <=> w[o].color = s.currentwhite
    BY <1>7, <1>9 DEF isdead
  <2>2. s.obj[o].color # otherwhite(s)
    BY <1>1 DEF NoneDead, isdead
  <2>3. w[o].color = s.obj[o].color \/ w[o].color = "gray"
    BY <1>4
  <2> QED
    BY <2>1, <2>2, <2>3, <1>5 DEF otherwhite, Whites
<1>12. \A o \in Ids : Exists(s, o) /\ ~iswhite(s, o) => Alive(r, o)
  <2> SUFFICES ASSUME NEW o \in Ids, Exists(s, o), ~iswhite(s, o) PROVE Alive(r, o)
    OBVIOUS
  <2>1. s.obj[o].color \notin Whites
    BY DEF iswhite, Whites
  <2>2. w[o].color \notin Whites
    BY <1>4, <2>1 DEF Whites
  <2> QED
    BY <1>10, <1>11, <2>2 DEF Alive
<1>13. \A o \in Ids : Alive(r, o) /\ s.obj[o].kind # "string" => Exists(s, o) /\ ~iswhite(s, o)
  <2> SUFFICES ASSUME NEW o \in Ids, Alive(r, o), s.obj[o].kind # "string"
               PROVE  Exists(s, o) /\ ~iswhite(s, o)
    OBVIOUS
  <2>1. Exists(s, o) /\ w[o].color \notin Whites
    BY <1>10, <1>11 DEF Alive
  <2>2. w[o].color = s.obj[o].color
    BY <1>4
  <2> QED
    BY <2>1, <2>2 DEF iswhite, Whites
<1>14. \A v : Value(s, v) /\ (v # 0 => ~iswhite(s, v)) => Value(r, v)
  BY <1>10, <1>12 DEF Value, Alive
<1>15. \A o \in Ids : s.obj[o].kind = "weak" /\ ~iswhite(s, o) => o \in ToSet(s.weak)
  <2> SUFFICES ASSUME NEW o \in Ids, s.obj[o].kind = "weak", ~iswhite(s, o)
               PROVE  o \in ToSet(s.weak)
    OBVIOUS
  <2>1. s.obj[o].color # "black"
    BY <1>1 DEF Graph, BlackKinds, Blacks
  <2>2. s.obj[o].color = "gray"
    BY <2>1, <1>2 DEF iswhite, Objects, Colors
  <2>3. Listed(s, o) /\ o \notin ToSet(s.gray) /\ o \notin ToSet(s.grayagain)
    BY <1>1, <2>2, EmptyIs DEF GrayLists, Traversed, AllMarked
  <2> QED
    BY <2>3 DEF Listed
<1>16. \A o \in Ids : Exists(s, o) /\ ~iswhite(s, o) /\ s.obj[o].kind # "weak" => Done(s, o)
  BY <1>1, EmptyIs DEF Closed, AllMarked
<1>17. \A o \in Ids : Exists(s, o) => Refers(s, o)
  BY <1>1 DEF Graph, AllRefer, Alive, NoneDead
<1>18. \A o \in Ids : s.obj[o].kind = "upval" => Held(r, o) = Held(s, o)
  <2> SUFFICES ASSUME NEW o \in Ids, s.obj[o].kind = "upval" PROVE Held(r, o) = Held(s, o)
    OBVIOUS
  <2>1. CASE IsOpenUpval(s, o)
    <3>1. s.obj[o].th \in Ids /\ s.obj[s.obj[o].th].kind = "thread"
      BY <1>1, <2>1 DEF OpenApart
    <3> QED
      BY <3>1, <2>1, <1>7, <1>10 DEF Held, UpvalSlot
  <2>2. CASE ~IsOpenUpval(s, o)
    BY <2>2, <1>10 DEF Held
  <2> QED
    BY <2>1, <2>2
<1>19. ASSUME NEW o \in Ids, Alive(r, o) PROVE Refers(r, o)
  <2> DEFINE v == s.obj[o].val
  <2>1. CASE s.obj[o].kind = "string"
    <3>1. v = 0
      BY <2>1, <1>1 DEF Graph, Plain
    <3> QED
      BY <3>1, <2>1, <1>10 DEF Refers
  <2>2. CASE s.obj[o].kind = "weak"
    <3>1. o \in ToSet(s.weak) /\ Value(s, v)
      BY <2>2, <1>13, <1>15, <1>17, <1>19 DEF Refers
    <3>2. r.obj[o].val = IF iscleared(s, v) THEN 0 ELSE v
      BY <3>1, <1>4, <1>7
    <3>3. CASE iscleared(s, v)
      BY <3>2, <3>3, <2>2, <1>10 DEF Refers, Value
    <3>4. CASE v = 0
      BY <3>2, <3>4, <2>2, <1>10 DEF Refers, Value
    <3>5. CASE v # 0 /\ ~iscleared(s, v) /\ s.obj[v].kind = "string"
      <4>1. v \in Ids /\ Exists(s, v) /\ InWeak(s, v)
        BY <3>1, <3>5, <1>2 DEF InWeak, Value, Alive
      <4>2. w[v].color = "gray"
        BY <4>1, <3>5, <1>4
      <4>3. Alive(r, v) /\ r.obj[v].kind # "upval"
        BY <4>1, <4>2, <3>5, <1>10, <1>11 DEF Alive, Whites
      <4> QED
        BY <4>1, <4>3, <3>2, <3>5, <2>2, <1>10 DEF Refers, Value
    <3>6. CASE v # 0 /\ ~iscleared(s, v) /\ s.obj[v].kind # "string"
      <4>1. ~iswhite(s, v)
        BY <3>6 DEF iscleared
      <4>2. Value(r, v)
        BY <4>1, <3>1, <1>14
      <4> QED
        BY <4>2, <3>2, <3>6, <2>2, <1>10 DEF Refers
    <3> QED
      BY <3>3, <3>4, <3>5, <3>6
  <2>3. CASE s.obj[o].kind \notin {"string", "weak"}
    <3>1. Exists(s, o) /\ ~iswhite(s, o) /\ Done(s, o) /\ Refers(s, o)
      BY <2>3, <1>13, <1>16, <1>17, <1>19
    <3>2. r.obj[o].kind = s.obj[o].kind /\ r.obj[o].val = v
      BY <2>3, <1>10
    <3>3. CASE s.obj[o].kind \in {"closure", "udata"}
      <4>1. v # 0 /\ v \in Ids /\ Alive(s, v) /\ Strong(s, o) = {v}
        BY <3>1, <3>3, <1>2 DEF Refers, Strong
      <4>2. ~iswhite(s, v) /\ Exists(s, v)
        BY <4>1, <3>1 DEF Done, Alive
      <4>3. Alive(r, v) /\ r.obj[v].kind = s.obj[v].kind
        BY <4>1, <4>2, <1>10, <1>12
      <4> QED
        BY <4>1, <4>3, <3>1, <3>2, <3>3 DEF Refers
    <3>4. CASE s.obj[o].kind = "upval"
      <4>1. Value(s, Held(s, o)) /\ Strong(s, o) = {Held(s, o)}
        BY <3>1, <3>4 DEF Refers, Strong
      <4>2. Value(r, Held(s, o))
        BY <4>1, <3>1, <1>14 DEF Done, Value
      <4> QED
        BY <4>2, <3>2, <3>4, <1>18 DEF Refers
    <3>5. CASE s.obj[o].kind \in {"table", "thread"}
      <4>1. Value(s, v) /\ v \in Strong(s, o)
        BY <3>1, <3>5 DEF Refers, Strong
      <4>2. Value(r, v)
        BY <4>1, <3>1, <1>14 DEF Done, Value
      <4> QED
        BY <4>2, <3>2, <3>5 DEF Refers
    <3>6. s.obj[o].kind \in {"closure", "udata", "upval", "table", "thread"}
      BY <2>3, <3>1, <1>2 DEF Exists, Objects, Kinds
    <3> QED
      BY <3>3, <3>4, <3>5, <3>6
  <2> QED
    BY <2>1, <2>2, <2>3
<1>20. RootsAlive(r)
  <2>1. RootsAlive(s)
    BY <1>1 DEF Graph
  <2>2. Exists(s, Main) /\ ~iswhite(s, Main) /\ Done(s, Main) /\ s.obj[Main].kind = "thread"
    BY <2>1, <1>16, Constants DEF RootsAlive, Alive, AllMarked
  <2>3. GlobalTable \in Strong(s, Main) /\ ToSet(s.stack) \subseteq Strong(s, Main)
    BY <2>2 DEF Strong
  <2>4. Alive(r, Main) /\ Alive(r, GlobalTable)
    BY <2>1, <2>2, <2>3, <1>12, Constants DEF RootsAlive, Alive, Done
  <2>5. \A i \in Places : Value(r, r.stack[i])
    <3> SUFFICES ASSUME NEW i \in Places PROVE Value(r, s.stack[i])
      BY <1>7
    <3>1. s.stack[i] \in ToSet(s.stack)
      BY <1>1, FieldsOf DEF ToSet
    <3>2. Value(s, s.stack[i])
      BY <2>1 DEF RootsAlive
    <3> QED
      BY <3>1, <3>2, <2>2, <2>3, <1>14 DEF Done, Value
  <2> QED
    BY <2>1, <2>4, <2>5, <1>10, Constants DEF RootsAlive
<1>21. OpenApart(r) /\ BlackKinds(r) /\ Plain(r)
  <2>1. OpenApart(r)
    BY <1>1, <1>10 DEF OpenApart
  <2>2. BlackKinds(r)
    BY <1>1, <1>4, <1>7, <1>10 DEF Graph, BlackKinds
  <2>3. Plain(r)
    BY <1>1, <1>10 DEF Graph, Plain, IsOpenUpval
  <2> QED
    BY <2>1, <2>2, <2>3
<1>22. Graph(r)
  BY <1>8, <1>19, <1>20, <1>21 DEF Graph, AllRefer
<1>23. RootLists(r, {})
  <2>1. RootLists(s, {}) /\ \A p \in ToSet(s.tmudata) : ~iswhite(s, p)
    BY DEF AllMarked
  <2>2. \A o \in ToSet(s.tmudata) : o \in Ids
    BY <1>1, FieldsOf DEF ToSet
  <2>3. \A o \in Ids : InRootgc(r, o) <=> InRootgc(s, o)
    BY <1>7, <1>10 DEF InRootgc
  <2>4. \A o \in ToSet(s.tmudata) : Alive(r, o) /\ r.obj[o].kind = "udata"
    BY <2>1, <2>2, <1>10, <1>12 DEF RootLists, Alive
  <2> QED
    BY <2>1, <2>3, <2>4, <1>7, <1>10 DEF RootLists
<1>24. Sweeping(r, {})
  BY <1>7, <1>8, <1>21, <1>23, AllToSweep
<1> QED
  BY <1>7, <1>22, <1>23, <1>24 DEF CollectorInv, InvBut, r

LEMMA atomicKeeps ==
  ASSUME NEW s, CollectorInv(s), s.gcstate = "propagate"
  PROVE  CollectorInv(atomic(s)) /\ atomic(s).gcstate = "sweepstring"
<1> DEFINE y == Preserved(GrayAgain(WeakAgain(Remarked(s))))
<1>1. AllMarked(y)
  BY AllMarkedAtLast
<1>2. atomic(s) = Flipped(y)
  BY DEF atomic, Flipped
<1> HIDE DEF y
<1> QED
  BY <1>1, <1>2, FlippedKeeps

-----------------------------------------------------------------------------
(* A cycle begins.                                                          *)

LEMMA RootListsFrom ==
  ASSUME NEW s, NEW r, NEW E, RootLists(s, E), s \in States,
         r.rootgc = s.rootgc, r.strt = s.strt, r.tmudata = s.tmudata,
         \A o \in Ids : /\ r.obj[o].kind = s.obj[o].kind
                        /\ IsOpenUpval(r, o) <=> IsOpenUpval(s, o)
                        /\ Alive(s, o) => Alive(r, o)
  PROVE  RootLists(r, E)
<1>1. \A o \in ToSet(s.tmudata) : o \in Ids
  BY FieldsOf DEF ToSet
<1>2. \A o \in Ids : InRootgc(r, o) <=> InRootgc(s, o)
  BY DEF InRootgc, Exists
<1> QED
  BY <1>1, <1>2 DEF RootLists

\* Neither the strings nor the list are being swept.
LEMMA NothingToSweep ==
  ASSUME NEW s, CollectorInv(s), s.gcstate \in {"pause", "finalize"}
  PROVE  /\ \A o \in Ids : Exists(s, o) => s.obj[o].color = s.currentwhite \/ o \in ToSet(s.tmudata)
         /\ NoneDead(s)
<1>1. s \in States /\ RootLists(s, {}) /\ AsNew(s, {})
  BY DEF CollectorInv, InvBut, Graph, Sweeping
<1>2. \A o \in Ids : Exists(s, o) => s.obj[o].color = s.currentwhite \/ o \in ToSet(s.tmudata)
  BY <1>1 DEF AsNew, ToSweep, Ahead
<1>3. otherwhite(s) # s.currentwhite
  BY <1>1, Colours
<1> QED
  BY <1>1, <1>2, <1>3 DEF NoneDead, isdead, RootLists, Alive

LEMMA markrootKeeps ==
  ASSUME NEW s, CollectorInv(s), s.gcstate \in {"pause", "finalize"}
  PROVE  LET r == markroot(s)
         IN  /\ CollectorInv(r) /\ r.gcstate = "propagate" /\ r.tmudata = s.tmudata
             /\ MarksLeft(r) <= MaxObjects + 2
<1> DEFINE t == [s EXCEPT !.gray = <<>>, !.grayagain = <<>>, !.weak = <<>>]
           u == markobject(t, Main)
           v == markvalue(u, GlobalTable)
           r == markroot(s)
           X == ToSet(s.tmudata)
<1>1. s \in States /\ Graph(s) /\ RootLists(s, {}) /\ RootsAlive(s) /\ NoneDead(s)
      /\ \A o \in Ids : Exists(s, o) => s.obj[o].color = s.currentwhite \/ o \in X
  BY NothingToSweep DEF CollectorInv, InvBut, Graph
<1>2. ListsSet(s, t, <<>>, <<>>, <<>>)
  BY DEF ListsSet
<1>3. r = [v EXCEPT !.gcstate = "propagate"]
  BY DEF markroot
<1> HIDE DEF t
<1>4. t.gray = <<>> /\ t.grayagain = <<>> /\ t.weak = <<>> /\ t.obj = s.obj /\ SameGraph(s, t)
  BY <1>1, <1>2, EmptyIs, WithLists
<1>5. Graph(t) /\ NoneDead(t) /\ t \in States
  <2>1. BlackKinds(t)
    BY <1>1, <1>4 DEF Graph, BlackKinds, IsOpenUpval
  <2>2. \A o \in Ids : Exists(s, o) => t.obj[o].color # otherwhite(s)
    BY <1>1, <1>4 DEF NoneDead, isdead
  <2> QED
    BY <1>1, <1>4, <2>1, <2>2, GraphPainted DEF SameGraph
<1>6. \A o \in Ids : Exists(t, o) => iswhite(t, o) \/ (o \in X /\ s.obj[o].kind = "udata")
  <2>1. s.currentwhite \in Whites
    BY <1>1, FieldsOf
  <2> QED
    BY <1>1, <1>4, <2>1 DEF Exists, iswhite, Whites, RootLists
<1>7. Marked(t, X)
  <2>1. \A o : ~Listed(t, o)
    BY <1>4, EmptyIs DEF Listed
  <2>2. ListsApart(t)
    BY <1>4, EmptyIs DEF ListsApart
  <2>3. \A o \in Ids : t.obj[o].color = "gray" => ~iswhite(t, o)
    BY DEF iswhite
  <2>4. \A o \in Ids : t.obj[o].kind \in Traversed => Exists(t, o)
    BY DEF Traversed, Exists
  <2>5. \A o \in Ids : t.obj[o].color = "gray" => t.obj[o].kind \notin Traversed
    BY <2>3, <2>4, <1>4, <1>6 DEF Traversed
  <2>6. GrayLists(t)
    BY <1>4, <2>1, <2>2, <2>5, EmptyIs DEF GrayLists
  <2>7. NoGrayLeaf(t, X)
    BY <1>6, <2>3 DEF NoGrayLeaf, Leaf, Exists
  <2>8. Closed(t, X)
    BY <1>6 DEF Closed
  <2> QED
    BY <1>5, <2>6, <2>7, <2>8 DEF Marked
<1>8. Exists(t, Main) /\ Exists(s, GlobalTable) /\ s.obj[GlobalTable].kind = "table"
  BY <1>1, <1>4, Constants DEF RootsAlive, Alive, Exists
<1>9. Marks(t, u, X) /\ ~iswhite(u, Main)
  BY <1>7, <1>8, Constants, markobjectMarks
<1> HIDE DEF u
<1>10. Marked(u, X) /\ Exists(u, GlobalTable) /\ u.obj[GlobalTable].kind # "upval"
       /\ SameGraph(s, u) /\ GlobalTable \in Names
  BY <1>4, <1>8, <1>9, Constants, SameChain DEF Marks, Darker, SameGraph, Exists, Names
<1>11. MarksOn(u, v, X, GlobalTable)
  BY <1>10, markvalueMarks
<1> HIDE DEF v
<1>12. Marked(v, X) /\ SameGraph(s, v) /\ ~iswhite(v, Main) /\ v \in States
       /\ Graph(v) /\ NoneDead(v) /\ MarksLeft(v) <= MarksLeft(u) /\ MarksLeft(u) <= MarksLeft(t)
       /\ u \in States
  BY <1>9, <1>10, <1>11, Constants, SameChain DEF MarksOn, Marks, Darker, SameGraph, Marked
<1>13. RootLists(v, {})
  BY <1>1, <1>12, RootListsSame
<1> HIDE DEF r, X
<1>14. /\ r \in States /\ r.obj = v.obj /\ r.gray = v.gray /\ r.grayagain = v.grayagain
       /\ r.weak = v.weak /\ r.stack = v.stack /\ r.currentwhite = v.currentwhite
       /\ r.rootgc = v.rootgc /\ r.strt = v.strt /\ r.tmudata = v.tmudata
       /\ r.gcstate = "propagate"
  BY <1>3, <1>12 DEF States, Phases
<1>15. SameObjects(v, r)
  BY <1>12, <1>14 DEF SameObjects
<1>16. Marked(r, X)
  BY <1>12, <1>15, SameMarks
<1>17. RootLists(r, {})
  <2>1. \A o \in Ids : Alive(v, o) => Alive(r, o)
    BY <1>14 DEF Alive, Exists, isdead, otherwhite
  <2> QED
    BY <1>12, <1>13, <1>14, <2>1, RootListsFrom DEF IsOpenUpval
<1>18. r.tmudata = s.tmudata
  BY <1>12, <1>14 DEF SameGraph
<1>19. Marked(r, Again(r))
  <2>1. X \subseteq Again(r)
    BY <1>18 DEF Again, X
  <2> QED
    BY <1>16, <2>1, MarkedMore
<1>20. CollectorInv(r)
  BY <1>12, <1>14, <1>17, <1>19 DEF CollectorInv, InvBut, Marking, Marked, iswhite
<1>21. MarksLeft(r) <= MaxObjects + 2
  <2>1. MarksLeft(r) = MarksLeft(v)
    BY <1>14 DEF MarksLeft, iswhite
  <2> DEFINE W == {o \in Ids : iswhite(t, o)}
  <2>2. MarksLeft(t) = Cardinality(W)
    <3>1. Len(t.gray) = 0
      BY <1>4
    <3>2. IsFiniteSet(W)
      BY Constants, FS_Subset
    <3>3. Cardinality(W) \in Nat
      BY <3>2, FS_CardinalityType
    <3> QED
      BY <3>1, <3>3 DEF MarksLeft
  <2>3. W \subseteq Ids
    OBVIOUS
  <2> HIDE DEF W
  <2>4. Cardinality(W) <= Cardinality(Ids) /\ Cardinality(W) \in Nat
    BY <2>3, Constants, FS_Subset, FS_CardinalityType
  <2>5. Cardinality(Ids) = MaxObjects + 2
    <3>1. 1 \in Int /\ MaxObjects + 2 \in Int /\ MaxObjects + 2 >= 1 /\ MaxObjects + 2 - 1 + 1 = MaxObjects + 2
      BY Constants
    <3>2. Cardinality(1 .. MaxObjects + 2) = IF 1 > MaxObjects + 2 THEN 0 ELSE MaxObjects + 2 - 1 + 1
      BY <3>1, FS_Interval
    <3> QED
      BY <3>1, <3>2, Constants
  <2>6. MarksLeft(v) \in Nat /\ MarksLeft(u) \in Nat /\ MarksLeft(t) \in Nat
    BY <1>5, <1>12, MarksLeftNat
  <2>7. MarksLeft(v) <= MarksLeft(u) /\ MarksLeft(u) <= Cardinality(W)
    BY <1>12, <2>2
  <2> QED
    BY <2>1, <2>4, <2>5, <2>6, <2>7, Constants
<1> QED
  BY <1>14, <1>18, <1>20, <1>21 DEF r

-----------------------------------------------------------------------------
(* The list of all objects and the place of the sweep in it.               *)

\* o is at place p of w; the others are in w in the order they have in q.
Inserted(q, w, p, o) ==
  /\ Len(w) = Len(q) + 1 /\ p \in 1 .. Len(q) + 1
  /\ \A i \in 1 .. Len(q) + 1 : w[i] = IF i < p THEN q[i] ELSE IF i = p THEN o ELSE q[i - 1]

LEMMA InsertAtIs ==
  ASSUME NEW q \in Seq(Ids), NEW o \in Ids, NEW p \in 1 .. Len(q) + 1
  PROVE  InsertAt(q, p, o) \in Seq(Ids) /\ Inserted(q, InsertAt(q, p, o), p, o)
<1> DEFINE a == SubSeq(q, 1, p - 1)
           b == SubSeq(q, p, Len(q))
           w == InsertAt(q, p, o)
<1>1. Len(q) \in Nat /\ p \in Nat /\ p - 1 \in 0 .. Len(q)
  OBVIOUS
<1>2. a \in Seq(Ids) /\ Len(a) = p - 1 /\ \A i \in 1 .. p - 1 : a[i] = q[i]
  BY <1>1
<1>3. b \in Seq(Ids) /\ Len(b) = Len(q) - p + 1 /\ \A i \in 1 .. Len(q) - p + 1 : b[i] = q[p + i - 1]
  BY <1>1
<1>4. w = a \o <<o>> \o b
  BY DEF InsertAt
<1> HIDE DEF a, b, w
<1> DEFINE c == a \o <<o>>
<1>5. c \in Seq(Ids) /\ Len(c) = p /\ \A i \in 1 .. p : c[i] = IF i < p THEN a[i] ELSE o
  BY <1>1, <1>2
<1> HIDE DEF c
<1>6. w = c \o b
  BY <1>4 DEF c
<1>7. w \in Seq(Ids) /\ Len(w) = Len(q) + 1
  <2>0. b \in Seq(Ids) /\ c \in Seq(Ids)
    BY <1>3, <1>5
  <2>1. w \in Seq(Ids) /\ Len(w) = Len(c) + Len(b)
    BY <2>0, <1>6
  <2> QED
    BY <2>1, <1>1, <1>3, <1>5
<1>8. ASSUME NEW i \in 1 .. Len(q) + 1
      PROVE  w[i] = IF i < p THEN q[i] ELSE IF i = p THEN o ELSE q[i - 1]
  <2>1. CASE i <= p
    <3>1. w[i] = c[i] /\ i \in 1 .. p
      BY <1>1, <1>3, <1>5, <1>6, <2>1
    <3>2. i < p => i \in 1 .. p - 1
      BY <1>1
    <3> QED
      BY <3>1, <3>2, <1>1, <1>2, <1>5, <2>1
  <2>2. CASE i > p
    <3>1. i - p \in 1 .. Len(q) - p + 1 /\ w[i] = b[i - p]
      BY <1>1, <1>3, <1>5, <1>6, <2>2
    <3>2. p + (i - p) - 1 = i - 1
      BY <1>1
    <3> QED
      BY <3>1, <3>2, <1>1, <1>3, <2>2
  <2> QED
    BY <1>1, <2>1, <2>2
<1> QED
  BY <1>7, <1>8 DEF Inserted, w

LEMMA RemoveAtIs ==
  ASSUME NEW q \in Seq(Ids), NEW p \in 1 .. Len(q)
  PROVE  RemoveAt(q, p) \in Seq(Ids) /\ Inserted(RemoveAt(q, p), q, p, q[p])
<1> DEFINE a == SubSeq(q, 1, p - 1)
           b == SubSeq(q, p + 1, Len(q))
           w == RemoveAt(q, p)
<1>1. Len(q) \in Nat /\ p \in Nat /\ p - 1 \in 0 .. Len(q)
  OBVIOUS
<1>2. a \in Seq(Ids) /\ Len(a) = p - 1 /\ \A i \in 1 .. p - 1 : a[i] = q[i]
  BY <1>1
<1>3. b \in Seq(Ids) /\ Len(b) = Len(q) - p /\ \A i \in 1 .. Len(q) - p : b[i] = q[p + i]
  BY <1>1
<1>4. w = a \o b
  BY DEF RemoveAt
<1> HIDE DEF a, b, w
<1>5. w \in Seq(Ids) /\ Len(w) = Len(q) - 1 /\ Len(q) = Len(w) + 1
  <2>0. a \in Seq(Ids) /\ b \in Seq(Ids)
    BY <1>2, <1>3
  <2>1. w \in Seq(Ids) /\ Len(w) = Len(a) + Len(b)
    BY <2>0, <1>4
  <2> QED
    BY <2>1, <1>1, <1>2, <1>3
<1>6. ASSUME NEW i \in 1 .. Len(w) + 1
      PROVE  q[i] = IF i < p THEN w[i] ELSE IF i = p THEN q[p] ELSE w[i - 1]
  <2>1. CASE i < p
    <3>1. i \in 1 .. p - 1 /\ w[i] = a[i]
      BY <1>1, <1>2, <1>3, <1>4, <1>5, <2>1
    <3> QED
      BY <3>1, <1>2, <2>1
  <2>2. CASE i > p
    <3>1. i - p \in 1 .. Len(q) - p /\ w[i - 1] = b[(i - 1) - (p - 1)] /\ (i - 1) - (p - 1) = i - p
      BY <1>1, <1>2, <1>3, <1>4, <1>5, <2>2
    <3>2. p + (i - p) = i /\ ~(i < p) /\ i # p
      BY <1>1, <2>2
    <3> QED
      BY <3>1, <3>2, <1>3
  <2>3. CASE i = p
    BY <2>3, <1>1
  <2> QED
    BY <1>1, <1>5, <2>1, <2>2, <2>3
<1> QED
  BY <1>5, <1>6 DEF Inserted, w

LEMMA PushInserts ==
  ASSUME NEW q \in Seq(Ids), NEW o \in Ids
  PROVE  Inserted(q, <<o>> \o q, 1, o)
<1> DEFINE w == <<o>> \o q
<1>1. Len(q) \in Nat /\ Len(w) = Len(q) + 1
  OBVIOUS
<1>2. \A i \in 1 .. Len(q) + 1 : w[i] = IF i = 1 THEN o ELSE q[i - 1]
  OBVIOUS
<1>3. \A i \in 1 .. Len(q) + 1 : ~(i < 1)
  BY <1>1
<1> HIDE DEF w
<1>4. 1 \in 1 .. Len(q) + 1
  BY <1>1
<1> QED
  BY <1>1, <1>2, <1>3, <1>4 DEF Inserted, w

\* What is after z stays after it, and nothing else but o is.
LEMMA InsertedIs ==
  ASSUME NEW q \in Seq(Ids), NEW w \in Seq(Ids), NEW p, NEW o \in Ids, Inserted(q, w, p, o)
  PROVE  /\ \A x : x \in ToSet(w) <=> x = o \/ x \in ToSet(q)
         /\ IsInjective(w) <=> IsInjective(q) /\ o \notin ToSet(q)
         /\ \A z : z # o => /\ After(q, z) \subseteq After(w, z)
                            /\ After(w, z) \subseteq After(q, z) \cup {o}
<1> DEFINE n == Len(q)
           up(j) == IF j < p THEN j ELSE j + 1
           down(i) == IF i < p THEN i ELSE i - 1
<1>1. n \in Nat /\ p \in 1 .. n + 1 /\ DOMAIN q = 1 .. n /\ DOMAIN w = 1 .. n + 1
      /\ \A i \in 1 .. n + 1 : w[i] = IF i < p THEN q[i] ELSE IF i = p THEN o ELSE q[i - 1]
  BY DEF Inserted
<1> HIDE DEF n
<1>2. \A j \in 1 .. n : up(j) \in 1 .. n + 1 /\ up(j) # p /\ w[up(j)] = q[j]
  <2> SUFFICES ASSUME NEW j \in 1 .. n PROVE up(j) \in 1 .. n + 1 /\ up(j) # p /\ w[up(j)] = q[j]
    OBVIOUS
  <2>1. up(j) \in 1 .. n + 1 /\ up(j) # p /\ (up(j) < p <=> j < p) /\ (~(j < p) => up(j) - 1 = j)
    BY <1>1
  <2> QED
    BY <1>1, <2>1
<1>3. \A i \in 1 .. n + 1 : i # p => down(i) \in 1 .. n /\ up(down(i)) = i /\ q[down(i)] = w[i]
  <2> SUFFICES ASSUME NEW i \in 1 .. n + 1, i # p
               PROVE  down(i) \in 1 .. n /\ up(down(i)) = i /\ q[down(i)] = w[i]
    OBVIOUS
  <2>1. down(i) \in 1 .. n /\ up(down(i)) = i
    BY <1>1
  <2> QED
    BY <1>2, <2>1
<1>4. \A i, j \in 1 .. n : (i < j <=> up(i) < up(j)) /\ (i = j <=> up(i) = up(j))
  BY <1>1
<1>5. w[p] = o /\ p \in 1 .. n + 1
  BY <1>1
<1> HIDE DEF up, down
<1>6. \A x : x \in ToSet(w) <=> x = o \/ x \in ToSet(q)
  <2> SUFFICES ASSUME NEW x PROVE x \in ToSet(w) <=> x = o \/ x \in ToSet(q)
    OBVIOUS
  <2>1. ASSUME x \in ToSet(w) PROVE x = o \/ x \in ToSet(q)
    <3>1. PICK i \in 1 .. n + 1 : w[i] = x
      BY <2>1, <1>1 DEF ToSet
    <3> QED
      BY <3>1, <1>1, <1>3, <1>5 DEF ToSet
  <2>2. o \in ToSet(w)
    BY <1>1, <1>5 DEF ToSet
  <2>3. ASSUME x \in ToSet(q) PROVE x \in ToSet(w)
    <3>1. PICK j \in 1 .. n : q[j] = x
      BY <2>3, <1>1 DEF ToSet
    <3> QED
      BY <3>1, <1>1, <1>2 DEF ToSet
  <2> QED
    BY <2>1, <2>2, <2>3
<1>7. IsInjective(w) => IsInjective(q) /\ o \notin ToSet(q)
  <2> SUFFICES ASSUME IsInjective(w) PROVE IsInjective(q) /\ o \notin ToSet(q)
    OBVIOUS
  <2>1. ASSUME NEW i \in 1 .. n, NEW j \in 1 .. n, q[i] = q[j] PROVE i = j
    <3>1. up(i) = up(j)
      BY <1>1, <1>2, <2>1 DEF IsInjective
    <3> QED
      BY <3>1, <1>4
  <2>2. ASSUME NEW j \in 1 .. n, q[j] = o PROVE FALSE
    BY <1>1, <1>2, <1>5, <2>2 DEF IsInjective
  <2> QED
    BY <1>1, <2>1, <2>2 DEF IsInjective, ToSet
<1>8. IsInjective(q) /\ o \notin ToSet(q) => IsInjective(w)
  <2> SUFFICES ASSUME IsInjective(q), o \notin ToSet(q), NEW i \in 1 .. n + 1, NEW j \in 1 .. n + 1,
                      w[i] = w[j]
               PROVE  i = j
    BY <1>1 DEF IsInjective
  <2>1. \A m \in 1 .. n + 1 : m # p => w[m] # o
    BY <1>1, <1>3 DEF ToSet
  <2>2. CASE i = p \/ j = p
    BY <2>1, <2>2, <1>5
  <2>3. CASE i # p /\ j # p
    <3>1. down(i) = down(j)
      BY <2>3, <1>1, <1>3 DEF IsInjective
    <3> QED
      BY <3>1, <2>3, <1>3
  <2> QED
    BY <2>2, <2>3
<1>9. ASSUME NEW z, z # o, NEW x \in After(q, z) PROVE x \in After(w, z)
  <2>1. PICK j \in 1 .. n : q[j] = x /\ \A i \in 1 .. n : q[i] = z => i < j
    BY <1>1 DEF After
  <2>2. \A i \in 1 .. n + 1 : w[i] = z => i < up(j)
    <3> SUFFICES ASSUME NEW i \in 1 .. n + 1, w[i] = z PROVE i < up(j)
      OBVIOUS
    <3>1. i # p
      BY <1>5, <1>9
    <3>2. down(i) < j /\ down(i) \in 1 .. n /\ up(down(i)) = i
      BY <1>3, <2>1, <3>1
    <3> QED
      BY <3>2, <1>4
  <2>3. up(j) \in DOMAIN w /\ w[up(j)] = x
    BY <1>1, <1>2, <2>1
  <2> QED
    BY <1>1, <2>2, <2>3 DEF After
<1>10. ASSUME NEW z, z # o, NEW x \in After(w, z), x # o PROVE x \in After(q, z)
  <2>1. PICK j \in 1 .. n + 1 : w[j] = x /\ \A i \in 1 .. n + 1 : w[i] = z => i < j
    BY <1>1 DEF After
  <2>2. j # p
    BY <1>5, <1>10, <2>1
  <2>3. down(j) \in 1 .. n /\ up(down(j)) = j /\ q[down(j)] = x
    BY <1>3, <2>1, <2>2
  <2>4. \A i \in 1 .. n : q[i] = z => i < down(j)
    <3> SUFFICES ASSUME NEW i \in 1 .. n, q[i] = z PROVE i < down(j)
      OBVIOUS
    <3>1. up(i) < j
      BY <1>2, <2>1
    <3> QED
      BY <3>1, <2>3, <1>4
  <2> QED
    BY <1>1, <2>3, <2>4 DEF After
<1> QED
  BY <1>6, <1>7, <1>8, <1>9, <1>10

\* The place of the sweep: what is after it is what is to be swept.
LEMMA PlaceAfterIs ==
  ASSUME NEW q \in Seq(Ids), IsInjective(q), NEW z, z = 0 \/ z \in ToSet(q)
  PROVE  LET p == PlaceAfter(q, z)
         IN  /\ p \in 1 .. Len(q) + 1
             /\ IF z = 0 THEN p = 1 ELSE p - 1 \in 1 .. Len(q) /\ q[p - 1] = z
             /\ \A j \in 1 .. Len(q) : q[j] \in After(q, z) <=> p <= j
<1> DEFINE n == Len(q)
           p == PlaceAfter(q, z)
           I == {i \in 1 .. n : q[i] = z}
<1>1. n \in Nat /\ DOMAIN q = 1 .. n /\ \A i \in 1 .. n : q[i] \in Ids
  OBVIOUS
<1> HIDE DEF n
<1>2. \A i, j \in 1 .. n : q[i] = q[j] => i = j
  BY <1>1 DEF IsInjective
<1>3. \A j \in 1 .. n : q[j] \in After(q, z) <=> \A i \in 1 .. n : q[i] = z => i < j
  BY <1>1, <1>2 DEF After
<1>4. CASE z = 0
  <2>1. p = 1
    BY <1>4 DEF PlaceAfter
  <2>2. \A i \in 1 .. n : q[i] # z
    BY <1>1, <1>4, Constants
  <2>3. \A j \in 1 .. n : q[j] \in After(q, z) /\ 1 <= j
    BY <1>1, <1>3, <2>2
  <2>4. 1 \in 1 .. n + 1
    BY <1>1
  <2> QED
    BY <1>1, <1>4, <2>1, <2>3, <2>4 DEF n
<1>5. CASE z # 0
  <2>1. PICK k \in 1 .. n : q[k] = z
    BY <1>1, <1>5 DEF ToSet
  <2>2. I # {} /\ I \subseteq Nat
    BY <1>1, <2>1
  <2>3. SelectInSeq(q, LAMBDA o : o = z) = Min(I)
    BY <2>2 DEF SelectInSeq, n
  <2>4. Min(I) \in I
    <3> HIDE DEF I
    <3> QED
      BY <2>2, LeastOf
  <2>5. Min(I) = k
    BY <1>2, <2>1, <2>4
  <2>6. p = k + 1
    BY <1>5, <2>3, <2>5 DEF PlaceAfter
  <2> HIDE DEF p, I
  <2>7. p \in 1 .. n + 1 /\ p - 1 = k
    BY <1>1, <2>6
  <2>8. \A j \in 1 .. n : q[j] \in After(q, z) <=> k < j
    BY <1>1, <1>2, <1>3, <2>1
  <2>9. \A j \in 1 .. n : k < j <=> p <= j
    BY <1>1, <2>6
  <2> QED
    BY <1>5, <2>1, <2>7, <2>8, <2>9 DEF n, p
<1> QED
  BY <1>4, <1>5

-----------------------------------------------------------------------------
(* Sweeping.                                                               *)

\* What is dead may be freed, and what is not may be as new.
Pruned(s, r, o) ==
  \/ Exists(s, o) /\ isdead(s, o) /\ r.obj[o] = NoObject
  \/ /\ r.obj[o].kind = s.obj[o].kind /\ r.obj[o].val = s.obj[o].val
     /\ r.obj[o].slot = s.obj[o].slot /\ r.obj[o].th = s.obj[o].th
     /\ r.obj[o].color = s.obj[o].color \/ (~isdead(s, o) /\ r.obj[o].color = s.currentwhite)
Prunes(s, r) ==
  /\ s \in States /\ r \in States
  /\ r.currentwhite = s.currentwhite /\ r.stack = s.stack
  /\ \A o \in Ids : Pruned(s, r, o)

LEMMA GraphPruned ==
  ASSUME NEW s, NEW r, Graph(s), Prunes(s, r),
         \A u \in Ids : IsOpenUpval(r, u) => Exists(r, r.obj[u].th)
  PROVE  /\ Graph(r)
         /\ \A o \in Ids : /\ Alive(r, o) <=> Alive(s, o)
                           /\ Exists(r, o) => Exists(s, o) /\ r.obj[o].kind = s.obj[o].kind
                                              /\ (isdead(r, o) <=> isdead(s, o))
                           /\ Exists(s, o) /\ ~Exists(r, o) => isdead(s, o)
                           /\ IsOpenUpval(r, o) => IsOpenUpval(s, o) /\ r.obj[o].th = s.obj[o].th
                                                   /\ r.obj[o].slot = s.obj[o].slot
                           /\ Exists(r, o) /\ IsOpenUpval(s, o) => IsOpenUpval(r, o)
<1>1. s \in States /\ r \in States /\ r.stack = s.stack /\ r.currentwhite = s.currentwhite
  BY DEF Prunes
<1>2. otherwhite(r) = otherwhite(s) /\ otherwhite(s) # s.currentwhite
  BY <1>1, Colours DEF otherwhite
<1>3. NoObject.kind = "free"
  BY DEF NoObject, Object
<1>4. \A o \in Ids : \/ Exists(s, o) /\ isdead(s, o) /\ ~Exists(r, o)
                     \/ /\ r.obj[o].kind = s.obj[o].kind /\ r.obj[o].val = s.obj[o].val
                        /\ r.obj[o].slot = s.obj[o].slot /\ r.obj[o].th = s.obj[o].th
                        /\ isdead(r, o) <=> isdead(s, o)
                        /\ r.obj[o].color = s.obj[o].color \/ r.obj[o].color = s.currentwhite
  BY <1>2, <1>3 DEF Prunes, Pruned, Exists, isdead
<1>5. \A o \in Ids : /\ Alive(r, o) <=> Alive(s, o)
                     /\ Exists(r, o) => /\ Exists(s, o) /\ r.obj[o].kind = s.obj[o].kind
                                        /\ r.obj[o].val = s.obj[o].val
                                        /\ r.obj[o].slot = s.obj[o].slot
                                        /\ r.obj[o].th = s.obj[o].th
                                        /\ isdead(r, o) <=> isdead(s, o)
                     /\ Exists(s, o) /\ ~Exists(r, o) => isdead(s, o)
  BY <1>4 DEF Alive, Exists
<1>6. \A o \in Ids : /\ IsOpenUpval(r, o) => /\ IsOpenUpval(s, o) /\ Exists(r, o)
                                            /\ r.obj[o].th = s.obj[o].th
                                            /\ r.obj[o].slot = s.obj[o].slot
                     /\ Exists(r, o) /\ IsOpenUpval(s, o) => IsOpenUpval(r, o)
  BY <1>5 DEF IsOpenUpval, Exists
<1>7. \A v : Value(s, v) => Value(r, v)
  BY <1>5 DEF Value, Alive
<1>8. \A o \in Ids : s.obj[o].val \in Names /\ (s.obj[o].val # 0 => s.obj[o].val \in Ids)
  BY <1>1, FieldsOf DEF Names
<1>9. OpenApart(s)
  BY DEF Graph
<1>10. \A o \in Ids : Exists(r, o) => Held(r, o) = Held(s, o)
  <2> SUFFICES ASSUME NEW o \in Ids, Exists(r, o) PROVE Held(r, o) = Held(s, o)
    OBVIOUS
  <2>1. CASE IsOpenUpval(r, o)
    <3>1. s.obj[o].th \in Ids /\ Exists(r, s.obj[o].th) /\ IsOpenUpval(s, o)
          /\ r.obj[o].th = s.obj[o].th /\ r.obj[o].slot = s.obj[o].slot
      BY <2>1, <1>6, <1>9 DEF OpenApart
    <3>2. r.obj[s.obj[o].th].val = s.obj[s.obj[o].th].val
      BY <3>1, <1>5
    <3> QED
      BY <3>1, <3>2, <2>1, <1>1 DEF Held, UpvalSlot
  <2>2. CASE ~IsOpenUpval(r, o)
    BY <2>2, <1>5, <1>6 DEF Held
  <2> QED
    BY <2>1, <2>2
<1>11. RootsAlive(r)
  BY <1>1, <1>5, <1>7, Constants DEF Graph, RootsAlive, Alive
<1>12. AllRefer(r)
  <2> SUFFICES ASSUME NEW o \in Ids, Alive(r, o) PROVE Refers(r, o)
    BY DEF AllRefer
  <2>1. Refers(s, o) /\ Exists(r, o)
    BY <1>5 DEF Graph, AllRefer, Alive
  <2>2. r.obj[o].kind = s.obj[o].kind /\ r.obj[o].val = s.obj[o].val /\ Held(r, o) = Held(s, o)
    BY <2>1, <1>5, <1>10
  <2>3. \A v \in Ids : Alive(s, v) => Alive(r, v) /\ r.obj[v].kind = s.obj[v].kind
    BY <1>5 DEF Alive
  <2> QED
    BY <2>1, <2>2, <2>3, <1>7, <1>8 DEF Refers
<1>13. OpenApart(r)
  BY <1>5, <1>6, <1>9 DEF OpenApart
<1>14. BlackKinds(r)
  <2> SUFFICES ASSUME NEW o \in Ids, r.obj[o].color = "black"
               PROVE  r.obj[o].kind \in Blacks /\ ~IsOpenUpval(r, o)
    BY DEF BlackKinds
  <2>1. r.obj[o] # NoObject /\ s.currentwhite # "black"
    BY <1>1 DEF NoObject, Object, States, Whites
  <2>2. r.obj[o].kind = s.obj[o].kind /\ s.obj[o].color = "black"
    BY <2>1 DEF Prunes, Pruned
  <2> QED
    BY <2>2, <1>6 DEF Graph, BlackKinds
<1>15. Plain(r)
  <2> SUFFICES ASSUME NEW o \in Ids, r.obj[o].kind = "string" \/ IsOpenUpval(r, o)
               PROVE  r.obj[o].val = 0
    BY DEF Plain
  <2>1. Exists(r, o)
    BY DEF Exists, IsOpenUpval
  <2> QED
    BY <2>1, <1>5, <1>6 DEF Graph, Plain
<1> QED
  BY <1>1, <1>5, <1>6, <1>11, <1>12, <1>13, <1>14, <1>15 DEF Graph

\* What the sweep has before it: it gets less with every object.
Remaining(s) == {p \in Ids : p \in After(s.rootgc, s.sweepgc) \/ IsOpenUpval(s, p)}
\* The state of the collector besides the objects.
SamePhase(s, r) ==
  /\ r.tmudata = s.tmudata /\ r.gcstate = s.gcstate /\ r.currentwhite = s.currentwhite
  /\ r.sweepgc = s.sweepgc /\ r.stack = s.stack

LEMMA InvFacts ==
  ASSUME NEW s, NEW E, InvBut(s, E)
  PROVE  /\ s \in States /\ Graph(s) /\ RootLists(s, E) /\ OpenApart(s) /\ AllRefer(s)
         /\ RootsAlive(s) /\ BlackKinds(s) /\ Plain(s)
         /\ \A o \in ToSet(s.rootgc) : o \in Ids
         /\ \A o \in ToSet(s.tmudata) : o \in Ids
         /\ s.gcstate # "propagate" => Sweeping(s, E)
         /\ s.gcstate = "propagate" => Marking(s)
<1>1. s \in States
  BY DEF InvBut, Graph
<1>2. s.rootgc \in Seq(Ids) /\ s.tmudata \in Seq(Ids)
  BY <1>1, FieldsOf
<1> QED
  BY <1>1, <1>2 DEF InvBut, Graph, ToSet

LEMMA SweepOpenKeeps ==
  ASSUME NEW s, CollectorInv(s), s.gcstate # "propagate", NEW th \in Ids
  PROVE  LET r == SweepOpen(s, th)
         IN  /\ CollectorInv(r) /\ SamePhase(s, r) /\ r.rootgc = s.rootgc
             /\ \A u \in OpenOf(r, th) : r.obj[u].color = s.currentwhite
             /\ Remaining(r) \subseteq Remaining(s)
             /\ \A o \in Ids : o \notin OpenOf(s, th) => r.obj[o] = s.obj[o]
<1> DEFINE r == SweepOpen(s, th)
           w == [o \in Ids |-> IF o \in OpenOf(s, th) THEN Swept(s, o) ELSE s.obj[o]]
<1>1. s \in States /\ Graph(s) /\ RootLists(s, {}) /\ OpenApart(s) /\ Sweeping(s, {})
      /\ \A o \in ToSet(s.tmudata) : o \in Ids
  BY InvFacts DEF CollectorInv
<1>2. \A o \in Ids : s.obj[o] \in Objects /\ s.currentwhite \in Colors /\ NoObject \in Objects
  BY <1>1, FieldsOf DEF NoObject, Object, Objects, Kinds, Colors, Whites, Names, Slots
<1>3. \A o \in Ids : Swept(s, o) \in Objects
  BY <1>2 DEF Swept, Objects
<1>4. w \in [Ids -> Objects]
  BY <1>2, <1>3
<1>5. \A o \in Ids : /\ o \notin OpenOf(s, th) => w[o] = s.obj[o]
                     /\ o \in OpenOf(s, th) => w[o] = Swept(s, o)
  OBVIOUS
<1> HIDE DEF w
<1>6. r = [s EXCEPT !.obj = w]
  BY DEF SweepOpen, w
<1> HIDE DEF r
<1>7. /\ r.obj = w /\ r.rootgc = s.rootgc /\ r.strt = s.strt /\ SamePhase(s, r) /\ r \in States
  BY <1>1, <1>4, <1>6 DEF States, SamePhase
<1>8. Prunes(s, r)
  <2> SUFFICES ASSUME NEW o \in Ids PROVE Pruned(s, r, o)
    BY <1>1, <1>7 DEF Prunes, SamePhase
  <2>1. CASE o \notin OpenOf(s, th)
    BY <2>1, <1>5, <1>7 DEF Pruned
  <2>2. CASE o \in OpenOf(s, th) /\ isdead(s, o)
    BY <2>2, <1>5, <1>7 DEF Pruned, Swept, OpenOf, IsOpenUpval, Exists
  <2>3. CASE o \in OpenOf(s, th) /\ ~isdead(s, o)
    <3>1. r.obj[o] = [s.obj[o] EXCEPT !.color = s.currentwhite]
      BY <2>3, <1>5, <1>7 DEF Swept
    <3> QED
      BY <3>1, <2>3, <1>2 DEF Pruned, Objects
  <2> QED
    BY <2>1, <2>2, <2>3
<1>9. \A u \in Ids : IsOpenUpval(r, u) => Exists(r, r.obj[u].th)
  <2> SUFFICES ASSUME NEW u \in Ids, IsOpenUpval(r, u) PROVE Exists(r, r.obj[u].th)
    OBVIOUS
  <2>1. r.obj[u] # NoObject
    BY DEF NoObject, Object, IsOpenUpval
  <2>2. IsOpenUpval(s, u) /\ r.obj[u].th = s.obj[u].th
    BY <2>1, <1>8 DEF Prunes, Pruned, IsOpenUpval
  <2>3. s.obj[u].th \in Ids /\ s.obj[s.obj[u].th].kind = "thread"
    BY <2>2, <1>1 DEF OpenApart
  <2>4. r.obj[s.obj[u].th] = s.obj[s.obj[u].th]
    BY <2>3, <1>5, <1>7 DEF OpenOf, IsOpenUpval
  <2> QED
    BY <2>2, <2>3, <2>4 DEF Exists
<1>10. /\ Graph(r)
       /\ \A o \in Ids : /\ Alive(r, o) <=> Alive(s, o)
                         /\ Exists(r, o) => Exists(s, o) /\ r.obj[o].kind = s.obj[o].kind
                         /\ IsOpenUpval(r, o) => IsOpenUpval(s, o) /\ r.obj[o].th = s.obj[o].th
                         /\ Exists(r, o) /\ IsOpenUpval(s, o) => IsOpenUpval(r, o)
  BY <1>1, <1>8, <1>9, GraphPruned
<1>11. RootLists(r, {})
  <2>1. \A o \in Ids : InRootgc(r, o) <=> InRootgc(s, o)
    <3> SUFFICES ASSUME NEW o \in Ids PROVE InRootgc(r, o) <=> InRootgc(s, o)
      OBVIOUS
    <3>1. CASE o \in OpenOf(s, th)
      BY <3>1, <1>10 DEF InRootgc, OpenOf
    <3>2. CASE o \notin OpenOf(s, th)
      BY <3>2, <1>5, <1>7 DEF InRootgc, Exists, IsOpenUpval, SamePhase
    <3> QED
      BY <3>1, <3>2
  <2>2. \A o \in Ids : s.obj[o].kind = "string" <=> r.obj[o].kind = "string"
    <3> SUFFICES ASSUME NEW o \in Ids PROVE s.obj[o].kind = "string" <=> r.obj[o].kind = "string"
      OBVIOUS
    <3>1. CASE o \in OpenOf(s, th)
      BY <3>1, <1>10 DEF OpenOf, IsOpenUpval, Exists
    <3>2. CASE o \notin OpenOf(s, th)
      BY <3>2, <1>5, <1>7
    <3> QED
      BY <3>1, <3>2
  <2>3. \A o \in ToSet(s.tmudata) : Alive(r, o) /\ r.obj[o].kind = "udata"
    BY <1>1, <1>10 DEF RootLists, Alive
  <2> QED
    BY <2>1, <2>2, <2>3, <1>1, <1>7 DEF RootLists, SamePhase
<1>12. \A u \in Ids : u \in OpenOf(s, th) /\ Exists(r, u) => r.obj[u].color = s.currentwhite
  <2> SUFFICES ASSUME NEW u \in Ids, u \in OpenOf(s, th), Exists(r, u)
               PROVE  r.obj[u].color = s.currentwhite
    OBVIOUS
  <2>1. r.obj[u] # NoObject
    BY DEF Exists, NoObject, Object
  <2>2. r.obj[u] = [s.obj[u] EXCEPT !.color = s.currentwhite]
    BY <2>1, <1>5, <1>7 DEF Swept
  <2> QED
    BY <2>2, <1>2 DEF Objects
<1>13. Sweeping(r, {})
  <2>1. \A o \in Ids : o \notin OpenOf(s, th) /\ ToSweep(s, o) => ToSweep(r, o)
    BY <1>5, <1>7 DEF ToSweep, Ahead, SamePhase, IsOpenUpval
  <2>2. \A o \in Ids : Exists(r, o) /\ o \notin OpenOf(s, th) => r.obj[o] = s.obj[o] /\ Exists(s, o)
    BY <1>5, <1>7, <1>10
  <2>3. AsNew(r, {})
    BY <1>1, <1>7, <1>12, <2>1, <2>2 DEF Sweeping, AsNew, SamePhase
  <2> QED
    BY <1>1, <1>7, <2>3 DEF Sweeping, SamePhase
<1>14. \A u \in OpenOf(r, th) : r.obj[u].color = s.currentwhite
  <2> SUFFICES ASSUME NEW u \in OpenOf(r, th) PROVE r.obj[u].color = s.currentwhite
    OBVIOUS
  <2>1. u \in Ids /\ IsOpenUpval(r, u) /\ r.obj[u].th = th /\ Exists(r, u)
    BY DEF OpenOf, IsOpenUpval, Exists
  <2>2. u \in OpenOf(s, th)
    BY <2>1, <1>10 DEF OpenOf
  <2> QED
    BY <2>1, <2>2, <1>12
<1>15. Remaining(r) \subseteq Remaining(s)
  BY <1>7, <1>10 DEF Remaining, SamePhase
<1> QED
  BY <1>1, <1>5, <1>7, <1>10, <1>11, <1>13, <1>14, <1>15 DEF CollectorInv, InvBut, SamePhase, r

\* What is dead and on no list, and no thread that has open upvalues, is freed.
LEMMA FreedKeeps ==
  ASSUME NEW s, NEW E, InvBut(s, E), s.gcstate # "propagate", NEW o \in Ids,
         Exists(s, o), isdead(s, o), s.obj[o].kind # "string", OpenOf(s, o) = {},
         IsOpenUpval(s, o) \/ o \in E
  PROVE  LET r == [s EXCEPT !.obj[o] = NoObject]
         IN  /\ InvBut(r, E \ {o}) /\ SamePhase(s, r) /\ r.rootgc = s.rootgc
             /\ Remaining(r) \subseteq Remaining(s)
             /\ \A p \in Ids : p # o => r.obj[p] = s.obj[p]
             /\ ~Exists(r, o)
<1> DEFINE r == [s EXCEPT !.obj[o] = NoObject]
<1>1. s \in States /\ Graph(s) /\ RootLists(s, E) /\ OpenApart(s) /\ Sweeping(s, E)
      /\ \A p \in ToSet(s.tmudata) : p \in Ids
  BY InvFacts
<1>2. NoObject \in Objects /\ NoObject.kind = "free"
  BY Constants DEF NoObject, Object, Objects, Kinds, Colors, Names, Slots
<1>3. /\ r \in States /\ r.obj[o] = NoObject /\ \A p \in Ids : p # o => r.obj[p] = s.obj[p]
  BY <1>1, <1>2 DEF States
<1>4. r.rootgc = s.rootgc /\ r.strt = s.strt /\ SamePhase(s, r)
  BY <1>1 DEF States, SamePhase
<1> HIDE DEF r
<1>5. Prunes(s, r)
  BY <1>1, <1>3, <1>4 DEF Prunes, Pruned, SamePhase
<1>6. \A u \in Ids : IsOpenUpval(s, u) => s.obj[u].th # o
  BY DEF OpenOf
<1>7. \A u \in Ids : IsOpenUpval(r, u) => Exists(r, r.obj[u].th)
  <2> SUFFICES ASSUME NEW u \in Ids, IsOpenUpval(r, u) PROVE Exists(r, r.obj[u].th)
    OBVIOUS
  <2>1. r.obj[u] = s.obj[u] /\ IsOpenUpval(s, u)
    BY <1>2, <1>3 DEF IsOpenUpval
  <2>2. s.obj[u].th \in Ids /\ s.obj[s.obj[u].th].kind = "thread"
    BY <2>1, <1>1 DEF OpenApart
  <2> QED
    BY <2>1, <2>2, <1>3, <1>6 DEF Exists
<1>8. /\ Graph(r)
      /\ \A p \in Ids : /\ Alive(r, p) <=> Alive(s, p)
                        /\ Exists(r, p) => Exists(s, p) /\ r.obj[p].kind = s.obj[p].kind
                        /\ IsOpenUpval(r, p) => IsOpenUpval(s, p) /\ r.obj[p].th = s.obj[p].th
                        /\ Exists(r, p) /\ IsOpenUpval(s, p) => IsOpenUpval(r, p)
  BY <1>1, <1>5, <1>7, GraphPruned
<1>9. ~Exists(r, o)
  BY <1>2, <1>3 DEF Exists
<1>10. RootLists(r, E \ {o})
  <2>1. \A p \in Ids : p # o => (InRootgc(r, p) <=> InRootgc(s, p))
    BY <1>3, <1>4 DEF InRootgc, Exists, IsOpenUpval, SamePhase
  <2>2. o \notin ToSet(s.rootgc)
    BY <1>1 DEF RootLists, InRootgc
  <2>3. ~InRootgc(r, o)
    BY <1>9 DEF InRootgc
  <2>4. \A p \in Ids : p \in ToSet(r.rootgc) <=> InRootgc(r, p) /\ p \notin E \ {o}
    BY <1>1, <1>4, <2>1, <2>2, <2>3 DEF RootLists
  <2>5. \A p \in Ids : p \in r.strt <=> r.obj[p].kind = "string"
    BY <1>1, <1>2, <1>3, <1>4 DEF RootLists
  <2>6. \A p \in ToSet(s.tmudata) : Alive(r, p) /\ r.obj[p].kind = "udata"
    BY <1>1, <1>8 DEF RootLists, Alive
  <2> QED
    BY <2>4, <2>5, <2>6, <1>1, <1>4 DEF RootLists, SamePhase
<1>11. Sweeping(r, E \ {o})
  <2>1. \A p \in Ids : p # o /\ ToSweep(s, p) => ToSweep(r, p)
    BY <1>3, <1>4 DEF ToSweep, Ahead, SamePhase, IsOpenUpval
  <2>2. AsNew(r, E \ {o})
    BY <1>1, <1>3, <1>4, <1>8, <1>9, <2>1 DEF Sweeping, AsNew, SamePhase
  <2> QED
    BY <1>1, <1>4, <2>2 DEF Sweeping, SamePhase
<1>12. Remaining(r) \subseteq Remaining(s)
  BY <1>4, <1>8 DEF Remaining, SamePhase
<1>13. InvBut(r, E \ {o})
  BY <1>8, <1>10, <1>11, <1>4 DEF InvBut, SamePhase
<1> QED
  BY <1>3, <1>4, <1>9, <1>12, <1>13 DEF r

\* An open upvalue is closed: it holds the value itself.
ClosedUpval(s, u) == [s EXCEPT !.obj[u] = [@ EXCEPT !.val = Held(s, u), !.slot = 0, !.th = 0]]
Joined(s, u) == Linked(ClosedUpval(s, u), u)

LEMMA JoinedIs ==
  ASSUME NEW s, NEW E, InvBut(s, E), NEW u \in Ids, IsOpenUpval(s, u), ~isdead(s, u),
         NEW r, r = Joined(s, u)
  PROVE  /\ r \in States /\ Graph(r) /\ SamePhase(s, r) /\ r.strt = s.strt
         /\ r.gray = s.gray /\ r.grayagain = s.grayagain /\ r.weak = s.weak
         /\ \A p \in Ids : p # u => r.obj[p] = s.obj[p]
         /\ r.obj[u].kind = "upval" /\ r.obj[u].color = s.obj[u].color
         /\ r.obj[u].val = Held(s, u) /\ r.obj[u].slot = 0 /\ Value(s, Held(s, u))
         /\ \A p \in Ids : Alive(r, p) <=> Alive(s, p)
         /\ u \notin ToSet(s.rootgc) /\ u \notin ToSet(s.tmudata)
         /\ (\A o \in E : s.obj[o].kind = "thread") => RootLists(r, E)
         /\ \A z : z # u => /\ After(s.rootgc, z) \subseteq After(r.rootgc, z)
                            /\ After(r.rootgc, z) \subseteq After(s.rootgc, z) \cup {u}
         /\ \A p : p \in ToSet(r.rootgc) <=> p = u \/ p \in ToSet(s.rootgc)
         /\ \A p \in Ids : p # u => Held(r, p) = Held(s, p) /\ Strong(r, p) = Strong(s, p)
<1>1. s \in States /\ Graph(s) /\ RootLists(s, E) /\ OpenApart(s) /\ AllRefer(s) /\ RootsAlive(s)
      /\ BlackKinds(s) /\ Plain(s) /\ \A p \in ToSet(s.tmudata) : p \in Ids
  BY InvFacts
<1>2. s.obj[u] \in Objects /\ s.obj[u].kind = "upval" /\ s.rootgc \in Seq(Ids)
      /\ \A p \in Ids : s.obj[p].val \in Names /\ (s.obj[p].val # 0 => s.obj[p].val \in Ids)
  BY <1>1, FieldsOf DEF IsOpenUpval, Names
<1>3. Refers(s, u) /\ Value(s, Held(s, u)) /\ Held(s, u) \in Names
  BY <1>1, <1>2 DEF AllRefer, Alive, Exists, Refers, Value, Names
<1>4. s.obj[u].color # "black"
  BY <1>1 DEF BlackKinds
<1> DEFINE rec == [s.obj[u] EXCEPT !.val = Held(s, u), !.slot = 0, !.th = 0]
           w == [s.obj EXCEPT ![u] = rec]
           q == <<u>> \o s.rootgc
<1>5. rec \in Objects /\ rec.kind = "upval" /\ rec.color = s.obj[u].color /\ rec.slot = 0
      /\ rec.val = Held(s, u)
  BY <1>2, <1>3 DEF Objects, Names, Slots
<1>6. w \in [Ids -> Objects] /\ w[u] = rec /\ \A p \in Ids : p # u => w[p] = s.obj[p]
  BY <1>1, <1>5 DEF States
<1>7. q \in Seq(Ids) /\ Inserted(s.rootgc, q, 1, u)
  BY <1>2, PushIs, PushInserts
<1>8. r = [s EXCEPT !.obj = w, !.rootgc = q]
  BY <1>1 DEF Joined, Linked, ClosedUpval, States
<1> HIDE DEF w, q, rec
<1>9. r \in States /\ r.obj = w /\ r.rootgc = q /\ SamePhase(s, r) /\ r.strt = s.strt
      /\ r.gray = s.gray /\ r.grayagain = s.grayagain /\ r.weak = s.weak /\ r.stack = s.stack
      /\ r.currentwhite = s.currentwhite
  BY <1>1, <1>6, <1>7, <1>8 DEF States, SamePhase
<1>10. \A p \in Ids : p # u => r.obj[p] = s.obj[p]
  BY <1>6, <1>9
<1>11. r.obj[u].kind = "upval" /\ r.obj[u].color = s.obj[u].color /\ r.obj[u].slot = 0
       /\ r.obj[u].val = Held(s, u)
  BY <1>5, <1>6, <1>9
<1>12. \A p \in Ids : /\ Exists(r, p) <=> Exists(s, p)
                      /\ r.obj[p].kind = s.obj[p].kind /\ r.obj[p].color = s.obj[p].color
                      /\ isdead(r, p) <=> isdead(s, p)
                      /\ Alive(r, p) <=> Alive(s, p)
                      /\ IsOpenUpval(r, p) <=> IsOpenUpval(s, p) /\ p # u
  BY <1>2, <1>9, <1>10, <1>11 DEF Exists, isdead, otherwhite, Alive, IsOpenUpval
<1>13. \A v : Value(s, v) => Value(r, v)
  BY <1>12 DEF Value
<1>14. \A p \in Ids : p # u => Held(r, p) = Held(s, p)
  <2> SUFFICES ASSUME NEW p \in Ids, p # u PROVE Held(r, p) = Held(s, p)
    OBVIOUS
  <2>1. CASE IsOpenUpval(s, p)
    <3>1. s.obj[p].th \in Ids /\ s.obj[p].th # u
      BY <2>1, <1>1, <1>2 DEF OpenApart
    <3> QED
      BY <3>1, <2>1, <1>9, <1>10, <1>12 DEF Held, UpvalSlot
  <2>2. CASE ~IsOpenUpval(s, p)
    BY <2>2, <1>10, <1>12 DEF Held
  <2> QED
    BY <2>1, <2>2
<1>15. \A p \in Ids : p # u => Strong(r, p) = Strong(s, p)
  <2> SUFFICES ASSUME NEW p \in Ids, p # u PROVE Strong(r, p) = Strong(s, p)
    OBVIOUS
  <2>1. Kind(r, s.obj[p].val) = Kind(s, s.obj[p].val)
    BY <1>2, <1>12 DEF Kind
  <2>2. r.obj[p].kind = s.obj[p].kind /\ r.obj[p].val = s.obj[p].val /\ Held(r, p) = Held(s, p)
    BY <1>10, <1>14
  <2> QED
    BY <2>1, <2>2, <1>9 DEF Strong
<1>16. Graph(r)
  <2>1. RootsAlive(r)
    BY <1>1, <1>2, <1>9, <1>10, <1>12, <1>13, Constants DEF RootsAlive
  <2>2. AllRefer(r)
    <3> SUFFICES ASSUME NEW p \in Ids, Alive(r, p) PROVE Refers(r, p)
      BY DEF AllRefer
    <3>1. CASE p = u
      <4>1. Held(r, u) = Held(s, u)
        BY <1>11, <1>12 DEF Held
      <4> QED
        BY <3>1, <4>1, <1>3, <1>11, <1>13 DEF Refers
    <3>2. CASE p # u
      <4>1. Refers(s, p)
        BY <1>1, <1>12 DEF AllRefer
      <4>2. r.obj[p] = s.obj[p] /\ Held(r, p) = Held(s, p)
        BY <3>2, <1>10, <1>14
      <4> QED
        BY <4>1, <4>2, <1>2, <1>12, <1>13 DEF Refers
    <3> QED
      BY <3>1, <3>2
  <2>3. OpenApart(r)
    BY <1>1, <1>10, <1>12 DEF OpenApart
  <2>4. BlackKinds(r)
    BY <1>1, <1>12 DEF BlackKinds
  <2>5. Plain(r)
    BY <1>1, <1>2, <1>10, <1>12 DEF Plain
  <2> QED
    BY <1>9, <2>1, <2>2, <2>3, <2>4, <2>5 DEF Graph
<1>17. u \notin ToSet(s.rootgc) /\ u \notin ToSet(s.tmudata)
  BY <1>1, <1>2 DEF RootLists, InRootgc
<1>18. /\ \A p : p \in ToSet(r.rootgc) <=> p = u \/ p \in ToSet(s.rootgc)
       /\ IsInjective(r.rootgc) <=> IsInjective(s.rootgc) /\ u \notin ToSet(s.rootgc)
       /\ \A z : z # u => /\ After(s.rootgc, z) \subseteq After(r.rootgc, z)
                          /\ After(r.rootgc, z) \subseteq After(s.rootgc, z) \cup {u}
  <2>1. r.rootgc \in Seq(Ids) /\ Inserted(s.rootgc, r.rootgc, 1, u)
    BY <1>7, <1>9
  <2> QED
    BY <1>2, <2>1, InsertedIs
<1>19. ASSUME \A o \in E : s.obj[o].kind = "thread"
       PROVE  RootLists(r, E)
  <2>1. \A p \in Ids : p # u => (InRootgc(r, p) <=> InRootgc(s, p))
    BY <1>9, <1>12 DEF InRootgc, SamePhase
  <2>2. InRootgc(r, u) /\ u \notin E
    BY <1>2, <1>9, <1>12, <1>17, <1>19 DEF InRootgc, Exists, SamePhase
  <2>3. \A p \in Ids : p \in ToSet(r.rootgc) <=> InRootgc(r, p) /\ p \notin E
    BY <1>1, <1>18, <2>1, <2>2 DEF RootLists
  <2> QED
    BY <2>3, <1>1, <1>9, <1>12, <1>17, <1>18 DEF RootLists, SamePhase
<1> QED
  BY <1>3, <1>9, <1>10, <1>11, <1>12, <1>14, <1>15, <1>16, <1>17, <1>18, <1>19

\* Upvalues are closed: nothing else becomes of a thread.
Closes(s, r, E) ==
  /\ InvBut(r, E) /\ SamePhase(s, r)
  /\ \A p \in Ids : IsOpenUpval(r, p) => /\ IsOpenUpval(s, p) /\ r.obj[p].th = s.obj[p].th
                                         /\ r.obj[p].slot = s.obj[p].slot
  /\ s.gcstate # "propagate" =>
       \A p \in Ids : s.obj[p].kind # "upval" => r.obj[p] = s.obj[p]
  /\ s.gcstate \in {"sweepstring", "sweep"} => Remaining(r) \subseteq Remaining(s)

LEMMA ClosesChain ==
  ASSUME NEW s, NEW r, NEW w, NEW E, Closes(s, r, E), Closes(r, w, E)
  PROVE  Closes(s, w, E)
<1>1. SamePhase(s, w) /\ r.gcstate = s.gcstate
  BY DEF Closes, SamePhase
<1>2. s.gcstate # "propagate" => \A p \in Ids : s.obj[p].kind # "upval" => w.obj[p] = s.obj[p]
  BY <1>1 DEF Closes
<1>3. s.gcstate \in {"sweepstring", "sweep"} => Remaining(w) \subseteq Remaining(s)
  BY <1>1 DEF Closes
<1>4. \A p \in Ids : IsOpenUpval(w, p) => /\ IsOpenUpval(s, p) /\ w.obj[p].th = s.obj[p].th
                                          /\ w.obj[p].slot = s.obj[p].slot
  BY DEF Closes
<1> QED
  BY <1>1, <1>2, <1>3, <1>4 DEF Closes

\* Not dead: linked as luaC_linkupval does.
LEMMA CloseOneIs ==
  ASSUME NEW s, s \in States, NEW u \in Ids, ~isdead(s, u)
  PROVE  LET j == Joined(s, u)
         IN  CloseOne(s, u) = IF s.obj[u].color # "gray" THEN j
                              ELSE IF s.gcstate = "propagate" THEN Blackened(j, u)
                              ELSE Painted(j, u, j.currentwhite)
<1> DEFINE c == ClosedUpval(s, u)
           j == Joined(s, u)
<1>1. CloseOne(s, u) = luaC_linkupval(c, u)
  BY DEF CloseOne, ClosedUpval
<1>2. c.obj[u].color = s.obj[u].color /\ c.gcstate = s.gcstate
  <2>1. s.obj[u] \in Objects
    BY FieldsOf
  <2>2. c.obj[u] = [s.obj[u] EXCEPT !.val = Held(s, u), !.slot = 0, !.th = 0] /\ c.gcstate = s.gcstate
    BY DEF ClosedUpval, States
  <2> QED
    BY <2>1, <2>2 DEF Objects
<1>3. j = Linked(c, u)
  BY DEF Joined
<1> HIDE DEF c, j
<1>4. luaC_linkupval(c, u) = IF c.obj[u].color # "gray" THEN j
                             ELSE IF c.gcstate = "propagate" THEN Blackened(j, u)
                             ELSE Painted(j, u, j.currentwhite)
  BY <1>3 DEF luaC_linkupval, makewhite
<1> QED
  BY <1>1, <1>2, <1>4 DEF j

LEMMA CloseOneSweeps ==
  ASSUME NEW s, NEW E, InvBut(s, E), s.gcstate # "propagate", NEW u \in Ids, IsOpenUpval(s, u),
         \A o \in E : s.obj[o].kind = "thread"
  PROVE  Closes(s, CloseOne(s, u), E) /\ ~IsOpenUpval(CloseOne(s, u), u)
<1> DEFINE r == CloseOne(s, u)
           j == Joined(s, u)
<1>1. s \in States /\ Graph(s) /\ RootLists(s, E) /\ OpenApart(s) /\ Sweeping(s, E)
      /\ BlackKinds(s) /\ s.obj[u].kind = "upval" /\ u \notin E /\ Exists(s, u)
  BY InvFacts DEF IsOpenUpval, Exists
<1>2. CASE isdead(s, u)
  <2>1. r = [s EXCEPT !.obj[u] = NoObject]
    BY <1>2 DEF CloseOne
  <2>2. OpenOf(s, u) = {}
    BY <1>1 DEF OpenOf, OpenApart
  <2>3. /\ InvBut(r, E \ {u}) /\ SamePhase(s, r) /\ Remaining(r) \subseteq Remaining(s)
        /\ \A p \in Ids : p # u => r.obj[p] = s.obj[p]
        /\ ~Exists(r, u)
    BY <1>1, <1>2, <2>1, <2>2, FreedKeeps
  <2>4. E \ {u} = E
    BY <1>1
  <2>5. ~IsOpenUpval(r, u)
    BY <2>3 DEF Exists, IsOpenUpval
  <2> HIDE DEF r
  <2>6. \A p \in Ids : IsOpenUpval(r, p) => p # u /\ r.obj[p] = s.obj[p] /\ IsOpenUpval(s, p)
    BY <2>3, <2>5 DEF IsOpenUpval
  <2>7. Closes(s, r, E)
    BY <1>1, <2>3, <2>4, <2>6 DEF Closes
  <2> QED
    BY <2>5, <2>7 DEF r
<1>3. CASE ~isdead(s, u)
  <2>1. r = IF s.obj[u].color # "gray" THEN j ELSE Painted(j, u, j.currentwhite)
    BY <1>1, <1>3, CloseOneIs
  <2>2. j = Joined(s, u)
    OBVIOUS
  <2> HIDE DEF r, j
  <2>3. /\ j \in States /\ Graph(j) /\ SamePhase(s, j) /\ j.strt = s.strt
        /\ \A p \in Ids : p # u => j.obj[p] = s.obj[p]
        /\ j.obj[u].kind = "upval" /\ j.obj[u].color = s.obj[u].color /\ j.obj[u].slot = 0
        /\ \A p \in Ids : Alive(j, p) <=> Alive(s, p)
        /\ u \notin ToSet(s.rootgc) /\ u \notin ToSet(s.tmudata) /\ RootLists(j, E)
        /\ \A z : z # u => /\ After(s.rootgc, z) \subseteq After(j.rootgc, z)
                           /\ After(j.rootgc, z) \subseteq After(s.rootgc, z) \cup {u}
        /\ \A p : p \in ToSet(j.rootgc) <=> p = u \/ p \in ToSet(s.rootgc)
    BY <1>1, <1>3, <2>2, JoinedIs
  <2>4. s.currentwhite \in Whites /\ s.currentwhite \in Colors /\ j.currentwhite = s.currentwhite
        /\ s.obj[u].color \in Colors
    BY <1>1, <2>3, FieldsOf DEF Whites, Colors, SamePhase
  <2>5. s.obj[u].color # "gray" => s.obj[u].color = s.currentwhite
    <3>1. s.obj[u].color # "black"
      BY <1>1 DEF BlackKinds
    <3> QED
      BY <3>1, <1>1, <1>3, <2>4 DEF isdead, otherwhite, Colors, Whites
  <2>6. /\ r \in States /\ SamePhase(j, r) /\ r.strt = j.strt /\ r.rootgc = j.rootgc
        /\ \A p \in Ids : /\ r.obj[p].kind = j.obj[p].kind /\ r.obj[p].val = j.obj[p].val
                          /\ r.obj[p].slot = j.obj[p].slot /\ r.obj[p].th = j.obj[p].th
                          /\ p # u => r.obj[p] = j.obj[p]
        /\ r.obj[u].color = s.currentwhite
    <3>1. CASE s.obj[u].color # "gray"
      BY <3>1, <2>1, <2>3, <2>5 DEF SamePhase
    <3>2. CASE s.obj[u].color = "gray"
      <4>1. r = Painted(j, u, s.currentwhite)
        BY <3>2, <2>1, <2>4
      <4>2. SameGraph(j, r) /\ OnlyPaints(j, r, u, s.currentwhite)
        BY <4>1, <2>3, <2>4, PaintedIs
      <4>3. \A p \in Ids : p # u => r.obj[p] = j.obj[p]
        BY <4>1, <2>3 DEF Painted, States
      <4> QED
        BY <4>2, <4>3 DEF SameGraph, OnlyPaints, SamePhase
    <3> QED
      BY <3>1, <3>2
  <2>7. ~isdead(j, u)
    BY <1>3, <2>3, <2>4 DEF isdead, otherwhite
  <2>8. Prunes(j, r)
    BY <2>3, <2>4, <2>6, <2>7 DEF Prunes, Pruned, SamePhase
  <2>9. \A p \in Ids : IsOpenUpval(r, p) <=> IsOpenUpval(j, p)
    BY <2>6 DEF IsOpenUpval
  <2>10. \A p \in Ids : IsOpenUpval(r, p) => Exists(r, r.obj[p].th)
    <3> SUFFICES ASSUME NEW p \in Ids, IsOpenUpval(r, p) PROVE Exists(r, r.obj[p].th)
      OBVIOUS
    <3>1. j.obj[p].th \in Ids /\ j.obj[j.obj[p].th].kind = "thread"
      BY <2>3, <2>9 DEF Graph, OpenApart
    <3> QED
      BY <3>1, <2>6 DEF Exists
  <2>11. Graph(r) /\ \A p \in Ids : Alive(r, p) <=> Alive(j, p)
    BY <2>3, <2>8, <2>10, GraphPruned
  <2>12. RootLists(r, E)
    BY <2>3, <2>6, <2>9, <2>11, RootListsFrom DEF SamePhase
  <2>13. SamePhase(s, r) /\ (s.gcstate \in {"sweepstring", "sweep"} => s.sweepgc # u)
    <3>1. s.gcstate \in {"sweepstring", "sweep"} => s.sweepgc = 0 \/ s.sweepgc \in ToSet(s.rootgc)
      BY <1>1 DEF Sweeping
    <3>2. u # 0
      BY Constants
    <3> QED
      BY <2>3, <2>6, <3>1, <3>2 DEF SamePhase
  <2>14. /\ \A p \in Ids : p # u => r.obj[p] = s.obj[p]
         /\ ~IsOpenUpval(r, u)
         /\ \A p \in Ids : IsOpenUpval(r, p) => p # u /\ IsOpenUpval(s, p)
         /\ \A p \in Ids : p # u => (IsOpenUpval(r, p) <=> IsOpenUpval(s, p))
    BY <2>3, <2>6, <2>9 DEF IsOpenUpval
  <2>15. /\ s.gcstate \in {"sweepstring", "sweep"} =>
              /\ After(s.rootgc, s.sweepgc) \subseteq After(r.rootgc, r.sweepgc)
              /\ After(r.rootgc, r.sweepgc) \subseteq After(s.rootgc, s.sweepgc) \cup {u}
         /\ r.sweepgc = s.sweepgc /\ r.gcstate = s.gcstate /\ r.tmudata = s.tmudata
         /\ r.currentwhite = s.currentwhite
    BY <2>3, <2>6, <2>13 DEF SamePhase
  <2>16. \A p \in Ids : Ahead(s, p) => Ahead(r, p)
    BY <2>15 DEF Ahead
  <2>17. \A p \in Ids : p # u /\ ToSweep(s, p) => ToSweep(r, p)
    <3> SUFFICES ASSUME NEW p \in Ids, p # u, ToSweep(s, p) PROVE ToSweep(r, p)
      OBVIOUS
    <3>1. CASE IsOpenUpval(s, p) /\ Ahead(s, s.obj[p].th)
      <4>1. s.obj[p].th \in Ids
        BY <3>1, <1>1 DEF OpenApart
      <4> QED
        BY <3>1, <4>1, <2>14, <2>16 DEF ToSweep
    <3>2. CASE ~(IsOpenUpval(s, p) /\ Ahead(s, s.obj[p].th))
      BY <3>2, <2>14, <2>15, <2>16 DEF ToSweep
    <3> QED
      BY <3>1, <3>2
  <2>18. AsNew(r, E)
    <3> SUFFICES ASSUME NEW p \in Ids, Exists(r, p), p \notin E
                 PROVE  r.obj[p].color = r.currentwhite \/ ToSweep(r, p)
      BY DEF AsNew
    <3>1. CASE p = u
      BY <3>1, <2>6, <2>15
    <3>2. CASE p # u
      <4>1. r.obj[p] = s.obj[p] /\ Exists(s, p)
        BY <3>2, <2>14 DEF Exists
      <4>2. s.obj[p].color = s.currentwhite \/ ToSweep(s, p)
        BY <4>1, <1>1 DEF Sweeping, AsNew
      <4> QED
        BY <3>2, <4>1, <4>2, <2>15, <2>17
    <3> QED
      BY <3>1, <3>2
  <2>19. Sweeping(r, E)
    BY <1>1, <2>3, <2>6, <2>15, <2>18 DEF Sweeping
  <2>20. InvBut(r, E)
    BY <1>1, <2>11, <2>12, <2>15, <2>19 DEF InvBut
  <2>21. s.gcstate \in {"sweepstring", "sweep"} => Remaining(r) \subseteq Remaining(s)
    BY <2>14, <2>15 DEF Remaining
  <2>22. Closes(s, r, E)
    BY <1>1, <2>13, <2>14, <2>20, <2>21 DEF Closes
  <2> QED
    BY <2>14, <2>22 DEF r
<1> QED
  BY <1>2, <1>3

\* A gray one that is closed while objects are marked becomes black, and its
\* value is marked.
LEMMA CloseOneMarks ==
  ASSUME NEW s, CollectorInv(s), s.gcstate = "propagate", NEW u \in Ids, IsOpenUpval(s, u)
  PROVE  Closes(s, CloseOne(s, u), {}) /\ ~IsOpenUpval(CloseOne(s, u), u)
<1> DEFINE c == CloseOne(s, u)
           X == Again(s) \ {u}
           val == Held(s, u)
<1>1. s \in States /\ Graph(s) /\ RootLists(s, {}) /\ OpenApart(s) /\ Marking(s) /\ InvBut(s, {})
      /\ BlackKinds(s) /\ s.obj[u].kind = "upval" /\ Exists(s, u) /\ s.obj[Main].kind = "thread"
  BY InvFacts DEF IsOpenUpval, Exists, CollectorInv, RootsAlive
<1>2. Marked(s, Again(s)) /\ NoneDead(s) /\ GrayLists(s) /\ NoGrayLeaf(s, Again(s))
      /\ Closed(s, Again(s)) /\ ~iswhite(s, Main)
  BY <1>1 DEF Marking, Marked
<1>3. ~isdead(s, u) /\ s.obj[u].color # "black"
  BY <1>1, <1>2 DEF NoneDead, BlackKinds
<1>4. PICK j : j = Joined(s, u)
  OBVIOUS
<1>5. c = IF s.obj[u].color # "gray" THEN j ELSE Blackened(j, u)
  BY <1>1, <1>3, <1>4, CloseOneIs
<1> HIDE DEF c
<1>6. /\ j \in States /\ Graph(j) /\ SamePhase(s, j)
      /\ j.gray = s.gray /\ j.grayagain = s.grayagain /\ j.weak = s.weak
      /\ \A p \in Ids : p # u => j.obj[p] = s.obj[p]
      /\ j.obj[u].kind = "upval" /\ j.obj[u].color = s.obj[u].color
      /\ j.obj[u].val = val /\ j.obj[u].slot = 0 /\ Value(s, val)
      /\ \A p \in Ids : Alive(j, p) <=> Alive(s, p)
      /\ RootLists(j, {})
      /\ \A p \in Ids : p # u => Strong(j, p) = Strong(s, p)
  BY <1>1, <1>3, <1>4, JoinedIs
<1> HIDE DEF val
<1>7. \A p \in Ids : /\ j.obj[p].kind = s.obj[p].kind /\ j.obj[p].color = s.obj[p].color
                     /\ iswhite(j, p) <=> iswhite(s, p)
                     /\ IsOpenUpval(j, p) <=> IsOpenUpval(s, p) /\ p # u
                     /\ Exists(j, p) <=> Exists(s, p)
                     /\ p # u => (Leaf(j, p) <=> Leaf(s, p))
  BY <1>1, <1>6 DEF iswhite, IsOpenUpval, Exists, Leaf
<1>8. NoneDead(j)
  BY <1>2, <1>6, <1>7 DEF NoneDead, Alive
<1>9. GrayLists(j)
  <2>1. \A p : Listed(j, p) <=> Listed(s, p)
    BY <1>6 DEF Listed
  <2>2. s.gray \in Seq(Ids) /\ s.grayagain \in Seq(Ids) /\ s.weak \in Seq(Ids)
    BY <1>1, FieldsOf
  <2>3. \A p : Listed(s, p) => p \in Ids
    BY <2>2 DEF Listed, ToSet
  <2> QED
    BY <1>2, <1>6, <1>7, <2>1, <2>3 DEF GrayLists, ListsApart, Listed
<1>10. \A p \in Ids : p # u /\ p \notin Again(s) =>
         /\ Leaf(j, p) => j.obj[p].color # "gray"
         /\ Exists(j, p) /\ ~iswhite(j, p) /\ p \notin ToSet(j.gray) /\ j.obj[p].kind # "weak"
              => Done(j, p)
  <2> SUFFICES ASSUME NEW p \in Ids, p # u, p \notin Again(s)
               PROVE  /\ Leaf(j, p) => j.obj[p].color # "gray"
                      /\ Exists(j, p) /\ ~iswhite(j, p) /\ p \notin ToSet(j.gray)
                           /\ j.obj[p].kind # "weak" => Done(j, p)
    OBVIOUS
  <2>1. Leaf(j, p) => j.obj[p].color # "gray"
    BY <1>2, <1>7 DEF NoGrayLeaf
  <2>2. Exists(j, p) /\ ~iswhite(j, p) /\ p \notin ToSet(j.gray) /\ j.obj[p].kind # "weak"
          => Done(s, p)
    BY <1>2, <1>6, <1>7 DEF Closed
  <2>3. Done(s, p) => Done(j, p)
    BY <1>6, <1>7 DEF Done
  <2> QED
    BY <2>1, <2>2, <2>3
<1>11. \A p \in Ids : IsOpenUpval(j, p) => /\ IsOpenUpval(s, p) /\ j.obj[p].th = s.obj[p].th
                                           /\ j.obj[p].slot = s.obj[p].slot
  BY <1>6, <1>7
<1>12. ~IsOpenUpval(j, u) /\ j.tmudata = s.tmudata /\ j.gcstate = "propagate"
  BY <1>7, <1>6 DEF SamePhase
<1>13. \A p \in GrayUpvals(s) : p # u => p \in GrayUpvals(j)
  BY <1>7 DEF GrayUpvals
<1>14. CASE s.obj[u].color # "gray"
  <2>1. c = j /\ iswhite(j, u) /\ u \notin GrayUpvals(s)
    <3>1. s.obj[u].color \in Colors
      BY <1>1, FieldsOf
    <3> QED
      BY <3>1, <1>3, <1>5, <1>6, <1>14 DEF Colors, iswhite, GrayUpvals
  <2>2. Again(s) \subseteq Again(j)
    BY <2>1, <1>6, <1>12, <1>13 DEF Again
  <2>3. NoGrayLeaf(j, Again(s))
    BY <1>6, <1>10, <1>14 DEF NoGrayLeaf
  <2>4. Closed(j, Again(s))
    BY <1>10, <2>1 DEF Closed
  <2>5. Marked(j, Again(j))
    BY <1>6, <1>8, <1>9, <2>2, <2>3, <2>4, MarkedMore DEF Marked
  <2>6. ~iswhite(j, Main)
    BY <1>2, <1>7, Constants
  <2>7. InvBut(j, {})
    BY <1>6, <1>12, <2>5, <2>6 DEF InvBut, Marking
  <2> QED
    BY <1>1, <1>6, <1>11, <1>12, <2>1, <2>7 DEF Closes, c
<1>15. CASE s.obj[u].color = "gray"
  <2> DEFINE b == Painted(j, u, "black")
             r == markvalue(b, val)
  <2>1. Marked(j, X \cup {u})
    <3>1. \A p \in Ids : p \notin X \cup {u} => p # u /\ p \notin Again(s)
      OBVIOUS
    <3>2. NoGrayLeaf(j, X \cup {u}) /\ Closed(j, X \cup {u})
      <4> HIDE DEF X
      <4> QED
        BY <3>1, <1>10 DEF NoGrayLeaf, Closed
    <3> QED
      BY <3>2, <1>6, <1>8, <1>9 DEF Marked
  <2>2. SameGraph(j, b) /\ SameLists(j, b) /\ OnlyPaints(j, b, u, "black")
    BY <1>6, PaintedIs DEF Colors
  <2>3. Leaf(j, u)
    BY <1>6, <1>12 DEF Leaf
  <2>4. val \in Names /\ (val # 0 => val \in Ids /\ Exists(s, val) /\ s.obj[val].kind # "upval")
    BY <1>6 DEF Value, Alive, Names
  <2>5. val # 0 => Exists(b, val) /\ b.obj[val].kind # "upval" /\ val # u
    BY <1>1, <1>7, <2>2, <2>4 DEF SameGraph, Exists
  <2>6. c = r
    <3>1. c = IF val # 0 /\ iswhite(j, val) THEN r ELSE b
      BY <1>5, <1>6, <1>15 DEF Blackened
    <3>2. val # 0 => (iswhite(j, val) <=> iswhite(b, val))
      BY <2>2, <2>4, <2>5 DEF OnlyPaints, iswhite
    <3>3. ~(val # 0 /\ iswhite(b, val)) => r = b
      BY DEF markvalue, MarkTraversed
    <3> HIDE DEF r, b
    <3> QED
      BY <3>1, <3>2, <3>3
  <2> HIDE DEF b
  <2>7. Marked(b, X \cup {u}) /\ Darker(j, b) /\ SameAgain(j, b)
    <3>1. Marked(b, (X \cup {u}) \cup {u}) /\ Darker(j, b) /\ SameAgain(j, b)
      <4> HIDE DEF X
      <4> QED
        BY <1>6, <2>1, <2>2, <2>3, MarkedOne
    <3>2. (X \cup {u}) \cup {u} = X \cup {u}
      OBVIOUS
    <3> QED
      BY <3>1, <3>2
  <2> HIDE DEF X
  <2>8. MarksOn(b, r, X \cup {u}, val)
    BY <2>4, <2>5, <2>7, markvalueMarks
  <2> HIDE DEF r
  <2>9. Marked(r, X \cup {u}) /\ Darker(b, r) /\ SameAgain(b, r) /\ SameUpvals(b, r)
        /\ (val # 0 => ~iswhite(r, val)) /\ SameGraph(b, r)
    BY <2>8 DEF MarksOn, Marks, Darker
  <2>10. SameGraph(j, r) /\ Darker(j, r) /\ SameAgain(j, r)
    BY <2>2, <2>7, <2>9, SameChain
  <2>11. r.obj[u].color = "black"
    BY <1>6, <2>2, <2>9 DEF SameUpvals, OnlyPaints, SameGraph
  <2>12. OpenApart(j)
    BY <1>6 DEF Graph
  <2>13. Strong(r, u) = {val}
    <3>1. Strong(j, u) = {val}
      BY <1>6, <1>12 DEF Strong, Held
    <3> QED
      BY <3>1, <2>10, <2>12, SameIs
  <2>14. Done(r, u)
    BY <2>9, <2>13, Constants DEF Done
  <2>15. Marked(r, X)
    BY <2>9, <2>11, <2>14, Released
  <2>16. \A p \in Ids : ~iswhite(j, p) => ~iswhite(r, p)
    BY <2>10 DEF Darker
  <2>17. \A p \in GrayUpvals(j) : p \in GrayUpvals(r)
    <3>1. Graph(r)
      BY <2>15 DEF Marked
    <3> QED
      BY <3>1, <1>6, <2>10, <2>16, GrayUpvalsStay
  <2>18. X \subseteq Again(r)
    BY <1>6, <1>12, <1>13, <2>10, <2>17 DEF X, Again, SameAgain, SameGraph
  <2>19. Marked(r, Again(r))
    BY <2>15, <2>18, MarkedMore
  <2>20. ~iswhite(r, Main)
    BY <1>2, <1>7, <2>16, Constants
  <2>21. RootLists(r, {})
    BY <1>6, <2>10, <2>19, RootListsSame DEF Marked
  <2>22. InvBut(r, {})
    BY <1>12, <2>10, <2>19, <2>20, <2>21 DEF InvBut, Marking, Marked, SameGraph
  <2>23. \A p \in Ids : IsOpenUpval(r, p) <=> IsOpenUpval(j, p)
    BY <2>10, <2>12, SameIs
  <2>24. \A p \in Ids : r.obj[p].th = j.obj[p].th /\ r.obj[p].slot = j.obj[p].slot
    BY <2>10 DEF SameGraph
  <2>25. SamePhase(s, r)
    BY <1>6, <2>10 DEF SamePhase, SameGraph
  <2> QED
    BY <1>1, <1>11, <1>12, <2>6, <2>22, <2>23, <2>24, <2>25 DEF Closes, c
<1> QED
  BY <1>14, <1>15

\* At a place of a thread, if an upvalue is open there.
LEMMA CloseAtCloses ==
  ASSUME NEW s, NEW E, InvBut(s, E), NEW th, NEW i, \A o \in E : s.obj[o].kind = "thread",
         s.gcstate = "propagate" => E = {}
  PROVE  /\ Closes(s, CloseAt(s, th, i), E)
         /\ \A p \in OpenOf(CloseAt(s, th, i), th) : CloseAt(s, th, i).obj[p].slot # i
<1> DEFINE r == CloseAt(s, th, i)
<1>1. s \in States /\ OpenApart(s)
  BY InvFacts
<1>2. CASE UpvalsAt(s, th, i) = {}
  <2>1. r = s
    BY <1>2 DEF CloseAt
  <2>2. Closes(s, s, E)
    BY <1>1 DEF Closes, SamePhase
  <2> QED
    BY <1>2, <2>1, <2>2 DEF UpvalsAt
<1>3. CASE UpvalsAt(s, th, i) # {}
  <2>1. PICK u : u = CHOOSE x \in UpvalsAt(s, th, i) : TRUE
    OBVIOUS
  <2>2. u \in Ids /\ IsOpenUpval(s, u) /\ s.obj[u].th = th /\ s.obj[u].slot = i
    BY <2>1, <1>3 DEF UpvalsAt, OpenOf
  <2>3. r = CloseOne(s, u)
    BY <2>1, <1>3 DEF CloseAt
  <2>4. Closes(s, r, E) /\ ~IsOpenUpval(r, u)
    <3>1. CASE s.gcstate = "propagate"
      BY <3>1, <2>2, <2>3, CloseOneMarks DEF CollectorInv
    <3>2. CASE s.gcstate # "propagate"
      BY <3>2, <2>2, <2>3, CloseOneSweeps
    <3> QED
      BY <3>1, <3>2
  <2> HIDE DEF r
  <2>5. \A p \in OpenOf(r, th) : r.obj[p].slot # i
    <3> SUFFICES ASSUME NEW p \in OpenOf(r, th), r.obj[p].slot = i PROVE FALSE
      OBVIOUS
    <3>1. p \in Ids /\ IsOpenUpval(r, p) /\ p # u
      BY <2>4 DEF OpenOf
    <3>2. IsOpenUpval(s, p) /\ s.obj[p].th = th /\ s.obj[p].slot = i
      BY <3>1, <2>4 DEF Closes, OpenOf
    <3> QED
      BY <3>1, <3>2, <2>2, <1>1 DEF OpenApart
  <2> QED
    BY <2>4, <2>5 DEF r
<1> QED
  BY <1>2, <1>3

\* From the last place of a thread down to a level.
LEMMA CloseUpvalsCloses ==
  ASSUME NEW s, NEW E, InvBut(s, E), NEW th, NEW level \in Places,
         \A o \in E : o \in Ids /\ s.obj[o].kind = "thread", s.gcstate = "propagate" => E = {}
  PROVE  LET r == CloseUpvals(s, th, level)
         IN  Closes(s, r, E) /\ \A p \in OpenOf(r, th) : r.obj[p].slot < level
<1> DEFINE k == StackSlots + 1 - level
           Fine(x, i) == /\ Closes(s, x, E)
                         /\ \A p \in OpenOf(x, th) : x.obj[p].slot \in 1 .. StackSlots - i
           f(x, n) == CloseAt(x, th, StackSlots + 1 - n)
           T == [i \in 0 .. k |-> {x \in States : Fine(x, i)}]
           Step == [i \in 1 .. k |-> [x \in T[i - 1] |-> f(x, i)]]
<1>0. s \in States /\ StackSlots \in Nat /\ level \in Nat /\ 1 <= level /\ level <= StackSlots
  BY InvFacts, Constants DEF Places
<1>1. k \in Nat /\ StackSlots - k = level - 1
  BY <1>0
<1>2. s \in T[0]
  <2>1. Closes(s, s, E)
    BY DEF Closes, SamePhase
  <2>2. \A p \in OpenOf(s, th) : s.obj[p].slot \in 1 .. StackSlots - 0
    <3> SUFFICES ASSUME NEW p \in OpenOf(s, th) PROVE s.obj[p].slot \in 1 .. StackSlots - 0
      OBVIOUS
    <3>1. s.obj[p].slot \in Slots /\ s.obj[p].slot # 0
      BY <1>0, FieldsOf DEF OpenOf, IsOpenUpval
    <3>2. s.obj[p].slot \in 1 .. StackSlots
      BY <3>1 DEF Slots, Places
    <3> QED
      BY <3>2, <1>0
  <2>3. Fine(s, 0)
    BY <2>1, <2>2
  <2> HIDE DEF Fine, k
  <2>4. 0 \in 0 .. k
    BY <1>1
  <2> QED
    BY <1>0, <2>3, <2>4
<1>3. ASSUME NEW i \in 1 .. k, NEW x \in T[i - 1]
      PROVE  f(x, i) \in T[i]
  <2> DEFINE at == StackSlots + 1 - i
             y == f(x, i)
  <2> HIDE DEF k
  <2>1. i - 1 \in 0 .. k /\ i \in 0 .. k /\ i \in Nat
    BY <1>1
  <2>2. x \in States /\ Fine(x, i - 1)
    <3> HIDE DEF Fine
    <3> QED
      BY <2>1
  <2>3. InvBut(x, E) /\ x.gcstate = s.gcstate
    BY <2>2 DEF Closes, SamePhase
  <2>4. \A o \in E : x.obj[o].kind = "thread"
    <3>1. CASE s.gcstate = "propagate"
      BY <3>1
    <3>2. CASE s.gcstate # "propagate"
      BY <3>2, <2>2 DEF Closes
    <3> QED
      BY <3>1, <3>2
  <2>5. Closes(x, y, E) /\ \A p \in OpenOf(y, th) : y.obj[p].slot # at
    BY <2>3, <2>4, CloseAtCloses
  <2> HIDE DEF f, y
  <2>6. Closes(s, y, E) /\ y \in States
    BY <2>2, <2>5, ClosesChain, InvFacts DEF Closes
  <2>7. \A p \in OpenOf(y, th) : y.obj[p].slot \in 1 .. StackSlots - i
    <3> SUFFICES ASSUME NEW p \in OpenOf(y, th) PROVE y.obj[p].slot \in 1 .. StackSlots - i
      OBVIOUS
    <3>1. p \in OpenOf(x, th) /\ y.obj[p].slot = x.obj[p].slot
      BY <2>5 DEF Closes, OpenOf
    <3>2. x.obj[p].slot \in 1 .. StackSlots - (i - 1) /\ x.obj[p].slot # at
      BY <2>2, <2>5, <3>1
    <3>3. x.obj[p].slot \in 1 .. StackSlots - i
      BY <3>2, <1>0, <2>1
    <3> QED
      BY <3>1, <3>3
  <2>8. Fine(y, i)
    BY <2>6, <2>7
  <2> HIDE DEF Fine
  <2> QED
    BY <2>1, <2>6, <2>8 DEF y
<1>4. Within(k, T, Step)
  <2> HIDE DEF T, f
  <2> QED
    BY <1>3 DEF Within
<1>5. PICK m : Repeats(k, T, Step, s, m)
  <2> HIDE DEF T, Step, k
  <2> QED
    BY <1>1, <1>2, <1>4, Repeated
<1>6. m = [i \in 0 .. k |-> IF i = 0 THEN s ELSE f(m[i - 1], i)]
  <2> HIDE DEF T, f
  <2>1. \A i \in 1 .. k : Step[i][m[i - 1]] = f(m[i - 1], i)
    <3> SUFFICES ASSUME NEW i \in 1 .. k PROVE Step[i][m[i - 1]] = f(m[i - 1], i)
      OBVIOUS
    <3>1. i - 1 \in 0 .. k
      BY <1>1
    <3>2. m[i - 1] \in T[i - 1]
      BY <3>1, <1>5 DEF Repeats
    <3> QED
      BY <3>2
  <2> HIDE DEF Step
  <2>2. \A i \in 0 .. k : i # 0 => i \in 1 .. k
    BY <1>1
  <2> QED
    BY <1>5, <2>1, <2>2 DEF Repeats
<1>7. PICK r : r = CHOOSE h : h = [n \in 0 .. k |-> IF n = 0 THEN s ELSE f(h[n - 1], n)]
  OBVIOUS
<1>8. r = [n \in 0 .. k |-> IF n = 0 THEN s ELSE f(r[n - 1], n)]
  <2> HIDE DEF f
  <2> QED
    BY <1>6, <1>7
<1>9. CloseUpvals(s, th, level) = r[k]
  BY <1>7 DEF CloseUpvals, k
<1>10. r[k] \in T[k]
  <2>1. r[0] \in T[0]
    <3> HIDE DEF T, f
    <3>1. 0 \in 0 .. k
      BY <1>1
    <3> QED
      BY <1>2, <1>8, <3>1
  <2>2. \A i \in 1 .. k : r[i - 1] \in T[i - 1] => r[i] \in T[i]
    <3> HIDE DEF T
    <3> SUFFICES ASSUME NEW i \in 1 .. k, r[i - 1] \in T[i - 1] PROVE r[i] \in T[i]
      OBVIOUS
    <3>1. i \in 0 .. k /\ i # 0
      BY <1>1
    <3>2. r[i] = f(r[i - 1], i)
      <4> HIDE DEF f
      <4> QED
        BY <1>8, <3>1
    <3> QED
      BY <1>3, <3>2
  <2>3. \A i \in 0 .. k : r[i] \in T[i]
    <3> HIDE DEF T, f
    <3> QED
      BY <1>1, <2>1, <2>2, PassedOn
  <2>4. k \in 0 .. k
    BY <1>1
  <2> QED
    BY <2>3, <2>4
<1>11. r[k] \in States /\ Fine(r[k], k)
  <2> HIDE DEF k, Fine
  <2>1. k \in 0 .. k
    BY <1>1
  <2> QED
    BY <1>10, <2>1
<1>12. \A p \in OpenOf(r[k], th) : r[k].obj[p].slot < level
  <2> SUFFICES ASSUME NEW p \in OpenOf(r[k], th) PROVE r[k].obj[p].slot < level
    OBVIOUS
  <2> HIDE DEF k
  <2>1. r[k].obj[p].slot \in 1 .. StackSlots - k
    BY <1>11
  <2>2. r[k].obj[p].slot \in 1 .. level - 1
    BY <2>1, <1>1
  <2> QED
    BY <2>2, <1>0
<1> QED
  BY <1>9, <1>11, <1>12

\* The object whose turn it is: the sweep goes on behind it.
LEMMA NextIs ==
  ASSUME NEW s \in States, IsInjective(s.rootgc), s.sweepgc = 0 \/ s.sweepgc \in ToSet(s.rootgc)
  PROVE  LET o == NextToSweep(s)
         IN  /\ o = 0 => After(s.rootgc, s.sweepgc) = {}
             /\ o # 0 => /\ o \in Ids /\ o \in ToSet(s.rootgc) /\ o # s.sweepgc
                         /\ NextPlace(s) \in 1 .. Len(s.rootgc) /\ s.rootgc[NextPlace(s)] = o
                         /\ o \in After(s.rootgc, s.sweepgc)
                         /\ After(s.rootgc, o) = After(s.rootgc, s.sweepgc) \ {o}
<1> DEFINE o == NextToSweep(s)
           p == NextPlace(s)
<1>1. PICK q : q = s.rootgc
  OBVIOUS
<1>2. PICK z : z = s.sweepgc
  OBVIOUS
<1>3. PICK n : n = Len(q)
  OBVIOUS
<1>4. q \in Seq(Ids) /\ n \in Nat /\ DOMAIN q = 1 .. n /\ IsInjective(q) /\ (z = 0 \/ z \in ToSet(q))
      /\ \A j \in 1 .. n : q[j] \in Ids /\ q[j] # 0 /\ q[j] \in ToSet(q)
  <2>1. q \in Seq(Ids) /\ n \in Nat /\ DOMAIN q = 1 .. n /\ \A j \in 1 .. n : q[j] \in Ids
    BY <1>1, <1>3, FieldsOf
  <2> QED
    BY <2>1, <1>1, <1>2, Constants DEF ToSet
<1>5. p = PlaceAfter(q, z) /\ o = IF p > n THEN 0 ELSE q[p]
  BY <1>1, <1>2, <1>3 DEF NextPlace, NextToSweep
<1> HIDE DEF p, o
<1>6. /\ p \in 1 .. n + 1
      /\ IF z = 0 THEN p = 1 ELSE p - 1 \in 1 .. n /\ q[p - 1] = z
      /\ \A j \in 1 .. n : q[j] \in After(q, z) <=> p <= j
  BY <1>3, <1>4, <1>5, PlaceAfterIs
<1>7. \A y, x : x \in After(q, y) => \E j \in 1 .. n : x = q[j]
  BY <1>4 DEF After
<1>8. \A i, j \in 1 .. n : q[i] = q[j] => i = j
  BY <1>4 DEF IsInjective
<1>9. CASE p > n
  <2>1. o = 0 /\ \A j \in 1 .. n : ~(p <= j)
    BY <1>4, <1>5, <1>6, <1>9
  <2>2. After(q, z) = {}
    BY <2>1, <1>6, <1>7
  <2> QED
    BY <2>1, <2>2, <1>1, <1>2 DEF o
<1>10. CASE ~(p > n)
  <2>1. p \in 1 .. n /\ o = q[p] /\ o # 0 /\ o \in ToSet(q) /\ o \in Ids
    BY <1>4, <1>5, <1>6, <1>10
  <2>2. o # z
    <3>1. CASE z = 0
      BY <3>1, <2>1
    <3>2. CASE z # 0
      <4>1. p - 1 \in 1 .. n /\ q[p - 1] = z /\ p - 1 # p
        BY <3>2, <1>6
      <4> QED
        BY <4>1, <2>1, <1>8
    <3> QED
      BY <3>1, <3>2
  <2>3. o \in After(q, z)
    BY <2>1, <1>6
  <2> DEFINE b == PlaceAfter(q, o)
  <2>4. b \in 1 .. n + 1 /\ b - 1 \in 1 .. n /\ q[b - 1] = o
        /\ \A j \in 1 .. n : q[j] \in After(q, o) <=> b <= j
    BY <1>3, <1>4, <2>1, PlaceAfterIs
  <2> HIDE DEF b
  <2>5. b - 1 = p
    BY <2>1, <2>4, <1>8
  <2>6. \A j \in 1 .. n : q[j] \in After(q, o) <=> q[j] \in After(q, z) /\ q[j] # o
    <3> SUFFICES ASSUME NEW j \in 1 .. n
                 PROVE  q[j] \in After(q, o) <=> q[j] \in After(q, z) /\ q[j] # o
      OBVIOUS
    <3>1. q[j] # o <=> j # p
      BY <2>1, <1>8
    <3>2. b <= j <=> p <= j /\ j # p
      BY <2>4, <2>5, <1>6
    <3> QED
      BY <3>1, <3>2, <2>4, <1>6
  <2>7. After(q, o) = After(q, z) \ {o}
    BY <2>6, <1>7
  <2> QED
    BY <2>1, <2>2, <2>3, <2>7, <1>1, <1>2, <1>3 DEF p, o
<1> QED
  BY <1>9, <1>10

\* Swept: what o was ahead for is as new.
Behind(s, o) ==
  \A p \in Ids : Exists(s, p) /\ p # o =>
    \/ s.obj[p].color = s.currentwhite
    \/ p \in ToSet(s.tmudata)
    \/ p \in After(s.rootgc, s.sweepgc)
    \/ IsOpenUpval(s, p) /\ s.obj[p].th # o /\ s.obj[p].th \in After(s.rootgc, s.sweepgc)
Sweeps(s, r, o) ==
  /\ CollectorInv(r) /\ r.gcstate = "sweep" /\ r.tmudata = s.tmudata
  /\ o \in Remaining(s) /\ Remaining(r) \subseteq Remaining(s) \ {o}
Swepts(s, o) ==
  /\ CollectorInv(s) /\ s.gcstate = "sweep" /\ o = NextToSweep(s) /\ o # 0 /\ Behind(s, o)

LEMMA SweptFacts ==
  ASSUME NEW s, CollectorInv(s), s.gcstate = "sweep", NEW o, o = NextToSweep(s), o # 0
  PROVE  /\ s \in States /\ Graph(s) /\ RootLists(s, {}) /\ OpenApart(s) /\ Sweeping(s, {})
         /\ o \in Ids /\ o \in ToSet(s.rootgc) /\ o # s.sweepgc /\ o \in Remaining(s)
         /\ NextPlace(s) \in 1 .. Len(s.rootgc) /\ s.rootgc[NextPlace(s)] = o
         /\ o \in After(s.rootgc, s.sweepgc)
         /\ After(s.rootgc, o) = After(s.rootgc, s.sweepgc) \ {o}
         /\ s.sweepgc = 0 \/ s.sweepgc \in ToSet(s.rootgc)
         /\ Exists(s, o) /\ s.obj[o].kind # "string" /\ ~IsOpenUpval(s, o)
         /\ o \notin ToSet(s.tmudata)
<1>1. s \in States /\ Graph(s) /\ RootLists(s, {}) /\ OpenApart(s) /\ Sweeping(s, {})
  BY InvFacts DEF CollectorInv
<1>2. s.sweepgc = 0 \/ s.sweepgc \in ToSet(s.rootgc)
  BY <1>1 DEF Sweeping
<1>3. IsInjective(s.rootgc)
  BY <1>1 DEF RootLists
<1>4. /\ o \in Ids /\ o \in ToSet(s.rootgc) /\ o # s.sweepgc
      /\ NextPlace(s) \in 1 .. Len(s.rootgc) /\ s.rootgc[NextPlace(s)] = o
      /\ o \in After(s.rootgc, s.sweepgc)
      /\ After(s.rootgc, o) = After(s.rootgc, s.sweepgc) \ {o}
  BY <1>1, <1>2, <1>3, NextIs
<1>5. InRootgc(s, o)
  BY <1>1, <1>4 DEF RootLists
<1> QED
  BY <1>1, <1>2, <1>4, <1>5 DEF InRootgc, Remaining

LEMMA SweptAlive ==
  ASSUME NEW s, NEW o, Swepts(s, o), ~isdead(s, o)
  PROVE  Sweeps(s, [makewhite(s, o) EXCEPT !.sweepgc = o], o)
<1> DEFINE v == makewhite(s, o)
           r == [v EXCEPT !.sweepgc = o]
<1>1. /\ s \in States /\ Graph(s) /\ RootLists(s, {}) /\ OpenApart(s) /\ s.gcstate = "sweep"
      /\ o \in Ids /\ o \in ToSet(s.rootgc) /\ o \in Remaining(s)
      /\ After(s.rootgc, o) = After(s.rootgc, s.sweepgc) \ {o} /\ ~IsOpenUpval(s, o)
      /\ Behind(s, o)
  BY SweptFacts DEF Swepts
<1>2. s.currentwhite \in Colors /\ s.currentwhite \in Whites
  BY <1>1, FieldsOf DEF Whites, Colors
<1>3. SameGraph(s, v) /\ OnlyPaints(s, v, o, s.currentwhite)
  BY <1>1, <1>2, PaintedIs DEF makewhite
<1> HIDE DEF v
<1>4. /\ r \in States /\ r.obj = v.obj /\ r.sweepgc = o /\ r.rootgc = v.rootgc /\ r.strt = v.strt
      /\ r.tmudata = v.tmudata /\ r.currentwhite = v.currentwhite /\ r.gcstate = v.gcstate
      /\ r.stack = v.stack
  <2>1. v \in States /\ o \in Names
    BY <1>1, <1>3 DEF SameGraph, Names
  <2> QED
    BY <2>1 DEF States
<1> HIDE DEF r
<1>5. /\ r.rootgc = s.rootgc /\ r.strt = s.strt /\ r.tmudata = s.tmudata /\ r.stack = s.stack
      /\ r.currentwhite = s.currentwhite /\ r.gcstate = "sweep" /\ r.obj[o].color = s.currentwhite
      /\ \A p \in Ids : /\ r.obj[p].kind = s.obj[p].kind /\ r.obj[p].val = s.obj[p].val
                        /\ r.obj[p].slot = s.obj[p].slot /\ r.obj[p].th = s.obj[p].th
                        /\ p # o => r.obj[p].color = s.obj[p].color
  BY <1>1, <1>3, <1>4 DEF SameGraph, OnlyPaints
<1>6. \A p \in Ids : (IsOpenUpval(r, p) <=> IsOpenUpval(s, p)) /\ (Exists(r, p) <=> Exists(s, p))
  BY <1>5 DEF IsOpenUpval, Exists
<1>7. Prunes(s, r)
  BY <1>1, <1>4, <1>5 DEF Prunes, Pruned
<1>8. \A u \in Ids : IsOpenUpval(r, u) => Exists(r, r.obj[u].th)
  BY <1>1, <1>5, <1>6 DEF OpenApart, Exists
<1>9. Graph(r) /\ \A p \in Ids : Alive(r, p) <=> Alive(s, p)
  BY <1>1, <1>7, <1>8, GraphPruned
<1>10. RootLists(r, {})
  BY <1>1, <1>5, <1>6, <1>9, RootListsFrom
<1>11. AsNew(r, {})
  <2> SUFFICES ASSUME NEW p \in Ids, Exists(r, p), p # o
               PROVE  r.obj[p].color = r.currentwhite \/ ToSweep(r, p)
    BY <1>5 DEF AsNew
  <2>1. \/ s.obj[p].color = s.currentwhite
        \/ p \in ToSet(s.tmudata)
        \/ p \in After(s.rootgc, s.sweepgc)
        \/ IsOpenUpval(s, p) /\ s.obj[p].th # o /\ s.obj[p].th \in After(s.rootgc, s.sweepgc)
    BY <1>1, <1>6 DEF Behind
  <2>2. \A x : x # o /\ x \in After(s.rootgc, s.sweepgc) => Ahead(r, x)
    BY <1>1, <1>4, <1>5 DEF Ahead
  <2> QED
    BY <2>1, <2>2, <1>5, <1>6 DEF ToSweep
<1>12. Sweeping(r, {})
  BY <1>1, <1>4, <1>5, <1>11 DEF Sweeping
<1>13. Remaining(r) \subseteq Remaining(s) \ {o}
  BY <1>1, <1>4, <1>5, <1>6 DEF Remaining
<1>14. CollectorInv(r)
  BY <1>5, <1>9, <1>10, <1>12 DEF CollectorInv, InvBut
<1> QED
  BY <1>1, <1>5, <1>13, <1>14 DEF Sweeps, r, v

\* What is dead leaves the list of all objects before it is freed.
LEMMA UnlinkedIs ==
  ASSUME NEW s, NEW o, Swepts(s, o), NEW u, u = Unlinked(s)
  PROVE  /\ InvBut(u, {o}) /\ SamePhase(s, u) /\ u.obj = s.obj
         /\ Remaining(u) \subseteq Remaining(s) \ {o}
<1>1. /\ s \in States /\ Graph(s) /\ RootLists(s, {}) /\ OpenApart(s) /\ s.gcstate = "sweep"
      /\ o \in Ids /\ o \in ToSet(s.rootgc) /\ o # s.sweepgc
      /\ NextPlace(s) \in 1 .. Len(s.rootgc) /\ s.rootgc[NextPlace(s)] = o
      /\ ~IsOpenUpval(s, o) /\ Behind(s, o) /\ (s.sweepgc = 0 \/ s.sweepgc \in ToSet(s.rootgc))
  BY SweptFacts DEF Swepts
<1>2. PICK q : q = RemoveAt(s.rootgc, NextPlace(s))
  OBVIOUS
<1>3. s.rootgc \in Seq(Ids)
  BY <1>1, FieldsOf
<1>4. q \in Seq(Ids) /\ Inserted(q, s.rootgc, NextPlace(s), o)
  BY <1>1, <1>2, <1>3, RemoveAtIs
<1>5. /\ \A x : x \in ToSet(s.rootgc) <=> x = o \/ x \in ToSet(q)
      /\ IsInjective(s.rootgc) <=> IsInjective(q) /\ o \notin ToSet(q)
      /\ \A z : z # o => /\ After(q, z) \subseteq After(s.rootgc, z)
                         /\ After(s.rootgc, z) \subseteq After(q, z) \cup {o}
  BY <1>1, <1>3, <1>4, InsertedIs
<1>6. u = [s EXCEPT !.rootgc = q]
  BY <1>2 DEF Unlinked
<1>7. /\ u \in States /\ SamePhase(s, u) /\ u.obj = s.obj /\ u.rootgc = q /\ u.strt = s.strt
      /\ u.stack = s.stack /\ u.currentwhite = s.currentwhite /\ u.tmudata = s.tmudata
      /\ u.sweepgc = s.sweepgc /\ u.gcstate = s.gcstate
  BY <1>1, <1>4, <1>6 DEF States, SamePhase
<1>8. \A p : /\ IsOpenUpval(u, p) <=> IsOpenUpval(s, p)
             /\ Exists(u, p) <=> Exists(s, p)
  BY <1>7 DEF IsOpenUpval, Exists
<1>9. IsInjective(q) /\ o \notin ToSet(q)
  BY <1>1, <1>5 DEF RootLists
<1>10. Prunes(s, u)
  BY <1>1, <1>7 DEF Prunes, Pruned
<1>11. \A p \in Ids : IsOpenUpval(u, p) => Exists(u, u.obj[p].th)
  BY <1>1, <1>7, <1>8 DEF OpenApart, Exists
<1>12. Graph(u) /\ \A p \in Ids : Alive(u, p) <=> Alive(s, p)
  BY <1>1, <1>10, <1>11, GraphPruned
<1>13. RootLists(u, {o})
  <2>1. \A p \in Ids : InRootgc(u, p) <=> InRootgc(s, p)
    BY <1>7, <1>8 DEF InRootgc
  <2>2. \A p \in Ids : p \in ToSet(u.rootgc) <=> InRootgc(u, p) /\ p \notin {o}
    BY <1>1, <1>5, <1>7, <1>9, <2>1 DEF RootLists
  <2>3. \A p \in ToSet(s.tmudata) : p \in Ids
    BY <1>1, FieldsOf DEF ToSet
  <2> QED
    BY <2>2, <2>3, <1>1, <1>7, <1>9, <1>12 DEF RootLists
<1>14. AsNew(u, {o})
  <2> SUFFICES ASSUME NEW p \in Ids, Exists(u, p), p # o
               PROVE  u.obj[p].color = u.currentwhite \/ ToSweep(u, p)
    BY DEF AsNew
  <2>1. \/ s.obj[p].color = s.currentwhite
        \/ p \in ToSet(s.tmudata)
        \/ p \in After(s.rootgc, s.sweepgc)
        \/ IsOpenUpval(s, p) /\ s.obj[p].th # o /\ s.obj[p].th \in After(s.rootgc, s.sweepgc)
    BY <1>1, <1>8 DEF Behind
  <2>2. \A x : x # o /\ x \in After(s.rootgc, s.sweepgc) => Ahead(u, x)
    BY <1>1, <1>5, <1>7 DEF Ahead
  <2> QED
    BY <2>1, <2>2, <1>7, <1>8 DEF ToSweep
<1>15. Sweeping(u, {o})
  BY <1>1, <1>5, <1>7, <1>14 DEF Sweeping
<1>16. o \notin After(q, s.sweepgc)
  BY <1>9 DEF After, ToSet
<1>17. Remaining(u) \subseteq Remaining(s) \ {o}
  <2>1. After(u.rootgc, u.sweepgc) \subseteq After(s.rootgc, s.sweepgc) \ {o}
    BY <1>1, <1>5, <1>7, <1>16
  <2> QED
    BY <2>1, <1>1, <1>8 DEF Remaining
<1> QED
  BY <1>1, <1>7, <1>12, <1>13, <1>15, <1>17 DEF InvBut

LEMMA SweptDead ==
  ASSUME NEW s, NEW o, Swepts(s, o), isdead(s, o)
  PROVE  Sweeps(s, freeobj(Unlinked(s), o), o)
<1> DEFINE r == freeobj(Unlinked(s), o)
<1>1. PICK u : u = Unlinked(s)
  OBVIOUS
<1>2. PICK b : b = IF u.obj[o].kind = "thread" THEN CloseUpvals(u, o, 1) ELSE u
  OBVIOUS
<1>3. r = [b EXCEPT !.obj[o] = NoObject]
  BY <1>1, <1>2 DEF freeobj
<1> HIDE DEF r
<1>4. /\ InvBut(u, {o}) /\ SamePhase(s, u) /\ u.obj = s.obj
      /\ Remaining(u) \subseteq Remaining(s) \ {o}
  BY <1>1, UnlinkedIs
<1>5. s.gcstate = "sweep" /\ o \in Ids /\ Exists(s, o) /\ s.obj[o].kind # "string" /\ o \in Remaining(s)
      /\ ~IsOpenUpval(s, o)
  BY SweptFacts DEF Swepts
<1>6. u.gcstate = "sweep" /\ u.tmudata = s.tmudata /\ u.currentwhite = s.currentwhite
  BY <1>4, <1>5 DEF SamePhase
<1>7. Closes(u, b, {o}) /\ b.obj[o] = u.obj[o] /\ OpenOf(b, o) = {}
  <2>1. CASE u.obj[o].kind = "thread"
    <3>1. b = CloseUpvals(u, o, 1)
      BY <2>1, <1>2
    <3>2. Closes(u, b, {o}) /\ \A p \in OpenOf(b, o) : b.obj[p].slot < 1
      BY <3>1, <2>1, <1>4, <1>5, <1>6, CloseUpvalsCloses, Constants
    <3>3. b.obj[o] = u.obj[o]
      BY <3>2, <2>1, <1>5, <1>6 DEF Closes
    <3>4. \A p \in OpenOf(b, o) : FALSE
      <4> SUFFICES ASSUME NEW p \in OpenOf(b, o) PROVE FALSE
        OBVIOUS
      <4>1. b \in States
        BY <3>2, InvFacts DEF Closes
      <4>2. b.obj[p].slot \in Slots /\ b.obj[p].slot # 0
        BY <4>1, FieldsOf DEF OpenOf, IsOpenUpval
      <4>3. b.obj[p].slot \in 1 .. StackSlots /\ b.obj[p].slot < 1
        BY <4>2, <3>2 DEF Slots, Places
      <4> QED
        BY <4>3, Constants
    <3> QED
      BY <3>2, <3>3, <3>4
  <2>2. CASE u.obj[o].kind # "thread"
    <3>1. b = u
      BY <2>2, <1>2
    <3>2. OpenApart(u)
      BY <1>4, InvFacts
    <3> QED
      BY <3>1, <3>2, <2>2, <1>4 DEF Closes, SamePhase, OpenOf, OpenApart
  <2> QED
    BY <2>1, <2>2
<1>8. InvBut(b, {o}) /\ b.gcstate = "sweep" /\ b.currentwhite = s.currentwhite
      /\ b.tmudata = s.tmudata /\ Remaining(b) \subseteq Remaining(u)
  BY <1>6, <1>7 DEF Closes, SamePhase
<1>9. Exists(b, o) /\ isdead(b, o) /\ b.obj[o].kind # "string"
  BY <1>4, <1>5, <1>7, <1>8 DEF Exists, isdead, otherwhite
<1>10. /\ InvBut(r, {o} \ {o}) /\ SamePhase(b, r) /\ Remaining(r) \subseteq Remaining(b)
  BY <1>3, <1>5, <1>7, <1>8, <1>9, FreedKeeps
<1>11. {o} \ {o} = {}
  OBVIOUS
<1>12. CollectorInv(r)
  BY <1>10, <1>11 DEF CollectorInv
<1>13. r.gcstate = "sweep" /\ r.tmudata = s.tmudata
  BY <1>8, <1>10 DEF SamePhase
<1> QED
  BY <1>4, <1>5, <1>8, <1>10, <1>12, <1>13 DEF Sweeps, r

\* A thread has its open upvalues swept with it, before it is looked at.
LEMMA OpenSwept ==
  ASSUME NEW s, CollectorInv(s), s.gcstate = "sweep", NEW o, o = NextToSweep(s), o # 0,
         NEW a, a = IF s.obj[o].kind = "thread" THEN SweepOpen(s, o) ELSE s
  PROVE  /\ Swepts(a, o) /\ a.tmudata = s.tmudata /\ o \in Ids /\ o \in Remaining(s)
         /\ Remaining(a) \subseteq Remaining(s)
<1>1. /\ s \in States /\ Graph(s) /\ RootLists(s, {}) /\ OpenApart(s) /\ Sweeping(s, {})
      /\ o \in Ids /\ o \in Remaining(s)
  BY SweptFacts
<1>2. /\ CollectorInv(a) /\ SamePhase(s, a) /\ a.rootgc = s.rootgc
      /\ \A p \in OpenOf(a, o) : a.obj[p].color = a.currentwhite
      /\ Remaining(a) \subseteq Remaining(s)
  <2>1. CASE s.obj[o].kind = "thread"
    <3>1. a = SweepOpen(s, o)
      BY <2>1
    <3> QED
      BY <3>1, <1>1, SweepOpenKeeps DEF SamePhase
  <2>2. CASE s.obj[o].kind # "thread"
    BY <2>2, <1>1 DEF SamePhase, OpenOf, OpenApart
  <2> QED
    BY <2>1, <2>2
<1>3. a.gcstate = "sweep" /\ o = NextToSweep(a) /\ a.tmudata = s.tmudata
  BY <1>2 DEF SamePhase, NextToSweep, NextPlace
<1>4. Behind(a, o)
  <2> SUFFICES ASSUME NEW p \in Ids, Exists(a, p), p # o
               PROVE  \/ a.obj[p].color = a.currentwhite
                      \/ p \in ToSet(a.tmudata)
                      \/ p \in After(a.rootgc, a.sweepgc)
                      \/ /\ IsOpenUpval(a, p) /\ a.obj[p].th # o
                         /\ a.obj[p].th \in After(a.rootgc, a.sweepgc)
    BY DEF Behind
  <2>1. AsNew(a, {})
    BY <1>2, <1>3, InvFacts DEF CollectorInv, Sweeping
  <2>2. a.obj[p].color = a.currentwhite \/ ToSweep(a, p)
    BY <2>1 DEF AsNew
  <2>3. IsOpenUpval(a, p) /\ a.obj[p].th = o => a.obj[p].color = a.currentwhite
    BY <1>2 DEF OpenOf
  <2> QED
    BY <2>2, <2>3, <1>3 DEF ToSweep, Ahead
<1>5. Swepts(a, o)
  BY <1>2, <1>3, <1>4 DEF Swepts
<1> QED
  BY <1>1, <1>2, <1>3, <1>5

LEMMA SweepObjectSweeps ==
  ASSUME NEW s, CollectorInv(s), s.gcstate = "sweep", NextToSweep(s) # 0
  PROVE  \E o \in Ids : Sweeps(s, SweepObject(s), o)
<1>1. PICK o : o = NextToSweep(s)
  OBVIOUS
<1>2. PICK a : a = IF s.obj[o].kind = "thread" THEN SweepOpen(s, o) ELSE s
  OBVIOUS
<1>3. SweepObject(s) = IF isdead(a, o) THEN freeobj(Unlinked(a), o)
                       ELSE [makewhite(a, o) EXCEPT !.sweepgc = o]
  BY <1>1, <1>2 DEF SweepObject
<1>4. /\ Swepts(a, o) /\ a.tmudata = s.tmudata /\ o \in Ids /\ o \in Remaining(s)
      /\ Remaining(a) \subseteq Remaining(s)
  BY <1>1, <1>2, OpenSwept
<1>5. Sweeps(a, SweepObject(s), o)
  BY <1>3, <1>4, SweptAlive, SweptDead
<1> QED
  BY <1>4, <1>5 DEF Sweeps

\* The same objects in another phase.
LEMMA RephasedIs ==
  ASSUME NEW s, NEW r, Graph(s), RootLists(s, {}), r \in States, r.obj = s.obj, r.rootgc = s.rootgc,
         r.strt = s.strt, r.tmudata = s.tmudata, r.currentwhite = s.currentwhite, r.stack = s.stack
  PROVE  /\ Graph(r) /\ RootLists(r, {})
         /\ \A p \in Ids : /\ Exists(r, p) <=> Exists(s, p)
                           /\ IsOpenUpval(r, p) <=> IsOpenUpval(s, p)
<1>1. s \in States /\ OpenApart(s)
  BY DEF Graph
<1>2. \A p : (Exists(r, p) <=> Exists(s, p)) /\ (IsOpenUpval(r, p) <=> IsOpenUpval(s, p))
  BY DEF Exists, IsOpenUpval
<1>3. Prunes(s, r)
  BY <1>1 DEF Prunes, Pruned
<1>4. \A p \in Ids : IsOpenUpval(r, p) => Exists(r, r.obj[p].th)
  BY <1>1, <1>2 DEF OpenApart, Exists
<1>5. Graph(r) /\ \A p \in Ids : Alive(r, p) <=> Alive(s, p)
  BY <1>3, <1>4, GraphPruned
<1>6. RootLists(r, {})
  BY <1>1, <1>2, <1>5, RootListsFrom
<1> QED
  BY <1>2, <1>5, <1>6

\* A step of the sweep: it ends, or less remains to be swept.
LEMMA sweeplistKeeps ==
  ASSUME NEW s, CollectorInv(s), s.gcstate = "sweep"
  PROVE  LET w == sweeplist(s)
         IN  /\ CollectorInv(w) /\ w.tmudata = s.tmudata
             /\ w.gcstate \in {"sweep", "finalize"}
             /\ w.gcstate = "sweep" =>
                  Remaining(w) \subseteq Remaining(s) /\ Remaining(w) # Remaining(s)
<1> DEFINE k == GCSWEEPMAX
           Fine(x, i) == /\ CollectorInv(x) /\ x.gcstate = "sweep" /\ x.tmudata = s.tmudata
                         /\ Remaining(x) \subseteq Remaining(s)
                         /\ i # 0 => NextToSweep(x) = 0 \/ Remaining(x) # Remaining(s)
           f(x, n) == SweepNext(x)
           T == [i \in 0 .. k |-> {x \in States : Fine(x, i)}]
           Step == [i \in 1 .. k |-> [x \in T[i - 1] |-> f(x, i)]]
<1>0. s \in States
  BY InvFacts DEF CollectorInv
<1>1. k \in Nat /\ k # 0
  BY Constants
<1>2. s \in T[0]
  <2>1. Fine(s, 0)
    OBVIOUS
  <2> HIDE DEF Fine, k
  <2>2. 0 \in 0 .. k
    BY <1>1
  <2> QED
    BY <1>0, <2>1, <2>2
<1>3. ASSUME NEW i \in 1 .. k, NEW x \in T[i - 1]
      PROVE  f(x, i) \in T[i]
  <2> DEFINE y == f(x, i)
  <2> HIDE DEF k
  <2>1. i - 1 \in 0 .. k /\ i \in 0 .. k /\ i \in Nat
    BY <1>1
  <2>2. x \in States /\ Fine(x, i - 1)
    <3> HIDE DEF Fine
    <3> QED
      BY <2>1
  <2>3. CASE NextToSweep(x) = 0
    <3>1. y = x
      BY <2>3 DEF SweepNext
    <3>2. Fine(y, i)
      BY <2>2, <2>3, <3>1
    <3> HIDE DEF Fine
    <3> QED
      BY <2>1, <2>2, <3>1, <3>2
  <2>4. CASE NextToSweep(x) # 0
    <3>1. y = SweepObject(x)
      BY <2>4 DEF SweepNext
    <3> HIDE DEF y, f
    <3>2. PICK o : Sweeps(x, y, o)
      BY <2>2, <2>4, <3>1, SweepObjectSweeps
    <3>3. CollectorInv(y) /\ y.gcstate = "sweep" /\ y.tmudata = s.tmudata /\ y \in States
      BY <2>2, <3>2, InvFacts DEF Sweeps, CollectorInv
    <3>4. Remaining(y) \subseteq Remaining(s) /\ Remaining(y) # Remaining(s)
      BY <2>2, <3>2 DEF Sweeps
    <3>5. Fine(y, i)
      BY <3>3, <3>4
    <3> HIDE DEF Fine
    <3> QED
      BY <2>1, <3>3, <3>5 DEF y
  <2> QED
    BY <2>3, <2>4
<1> DEFINE Of(h) == IF NextToSweep(h) = 0 THEN [h EXCEPT !.gcstate = "finalize"] ELSE h
<1>4. Within(k, T, Step)
  <2> HIDE DEF T, f
  <2> QED
    BY <1>3 DEF Within
<1>5. PICK m : Repeats(k, T, Step, s, m)
  <2> HIDE DEF T, Step, k
  <2> QED
    BY <1>1, <1>2, <1>4, Repeated
<1>6. m = [i \in 0 .. k |-> IF i = 0 THEN s ELSE f(m[i - 1], i)]
  <2> HIDE DEF T, f
  <2>1. \A i \in 1 .. k : Step[i][m[i - 1]] = f(m[i - 1], i)
    <3> SUFFICES ASSUME NEW i \in 1 .. k PROVE Step[i][m[i - 1]] = f(m[i - 1], i)
      OBVIOUS
    <3>1. i - 1 \in 0 .. k
      BY <1>1
    <3>2. m[i - 1] \in T[i - 1]
      BY <3>1, <1>5 DEF Repeats
    <3> QED
      BY <3>2
  <2> HIDE DEF Step
  <2>2. \A i \in 0 .. k : i # 0 => i \in 1 .. k
    BY <1>1
  <2> QED
    BY <1>5, <2>1, <2>2 DEF Repeats
<1>7. PICK r : r = CHOOSE h : h = [n \in 0 .. k |-> IF n = 0 THEN s ELSE f(h[n - 1], n)]
  OBVIOUS
<1>8. r = [n \in 0 .. k |-> IF n = 0 THEN s ELSE f(r[n - 1], n)]
  <2> HIDE DEF f
  <2> QED
    BY <1>6, <1>7
<1>9. sweeplist(s) = Of(r[k])
  BY <1>7 DEF sweeplist, k, Of
<1>10. r[k] \in T[k]
  <2>1. r[0] \in T[0]
    <3> HIDE DEF T, f
    <3>1. 0 \in 0 .. k
      BY <1>1
    <3> QED
      BY <1>2, <1>8, <3>1
  <2>2. \A i \in 1 .. k : r[i - 1] \in T[i - 1] => r[i] \in T[i]
    <3> HIDE DEF T
    <3> SUFFICES ASSUME NEW i \in 1 .. k, r[i - 1] \in T[i - 1] PROVE r[i] \in T[i]
      OBVIOUS
    <3>1. i \in 0 .. k /\ i # 0
      BY <1>1
    <3>2. r[i] = f(r[i - 1], i)
      <4> HIDE DEF f
      <4> QED
        BY <1>8, <3>1
    <3> QED
      BY <1>3, <3>2
  <2>3. \A i \in 0 .. k : r[i] \in T[i]
    <3> HIDE DEF T, f
    <3> QED
      BY <1>1, <2>1, <2>2, PassedOn
  <2>4. k \in 0 .. k
    BY <1>1
  <2> QED
    BY <2>3, <2>4
<1>11. PICK x : x = r[k]
  OBVIOUS
<1>12. x \in States /\ Fine(x, k)
  <2> HIDE DEF k, Fine
  <2>1. k \in 0 .. k
    BY <1>1
  <2> QED
    BY <1>10, <1>11, <2>1
<1>13. sweeplist(s) = Of(x)
  BY <1>9, <1>11
<1>14. CASE NextToSweep(x) # 0
  BY <1>1, <1>12, <1>13, <1>14
<1>15. CASE NextToSweep(x) = 0
  <2>1. PICK w : w = [x EXCEPT !.gcstate = "finalize"]
    OBVIOUS
  <2>2. /\ w \in States /\ w.obj = x.obj /\ w.rootgc = x.rootgc /\ w.strt = x.strt
        /\ w.tmudata = x.tmudata /\ w.currentwhite = x.currentwhite /\ w.stack = x.stack
        /\ w.gcstate = "finalize"
    BY <1>12, <2>1 DEF States, Phases
  <2>3. Graph(x) /\ RootLists(x, {}) /\ Sweeping(x, {})
    BY <1>12, InvFacts DEF CollectorInv
  <2>4. Graph(w) /\ RootLists(w, {}) /\ \A p \in Ids : Exists(w, p) => Exists(x, p)
    BY <2>2, <2>3, RephasedIs
  <2>5. After(x.rootgc, x.sweepgc) = {}
    BY <1>12, <1>15, <2>3, NextIs DEF RootLists, Sweeping
  <2>6. AsNew(w, {})
    <3> SUFFICES ASSUME NEW p \in Ids, Exists(w, p)
                 PROVE  w.obj[p].color = w.currentwhite \/ ToSweep(w, p)
      BY DEF AsNew
    <3>1. x.obj[p].color = x.currentwhite \/ ToSweep(x, p)
      BY <2>3, <2>4 DEF Sweeping, AsNew
    <3> QED
      BY <3>1, <1>12, <2>2, <2>5 DEF ToSweep, Ahead
  <2>7. Sweeping(w, {})
    BY <2>2, <2>6 DEF Sweeping
  <2>8. CollectorInv(w)
    BY <2>2, <2>4, <2>7 DEF CollectorInv, InvBut
  <2> QED
    BY <1>12, <1>13, <1>15, <2>1, <2>2, <2>8
<1> QED
  BY <1>14, <1>15

\* Strings are swept at once.
LEMMA sweepstringsKeeps ==
  ASSUME NEW s, CollectorInv(s), s.gcstate = "sweepstring"
  PROVE  LET r == sweepstrings(s)
         IN  CollectorInv(r) /\ r.gcstate = "sweep" /\ r.tmudata = s.tmudata
<1> DEFINE r == sweepstrings(s)
           w == [o \in Ids |-> IF o \in s.strt THEN Swept(s, o) ELSE s.obj[o]]
           left == {o \in s.strt : ~isdead(s, o)}
<1>1. s \in States /\ Graph(s) /\ RootLists(s, {}) /\ OpenApart(s) /\ Sweeping(s, {})
      /\ \A o \in ToSet(s.tmudata) : o \in Ids
  BY InvFacts DEF CollectorInv
<1>2. \A o \in Ids : s.obj[o] \in Objects /\ s.currentwhite \in Colors /\ NoObject \in Objects
  BY <1>1, FieldsOf DEF NoObject, Object, Objects, Kinds, Colors, Whites, Names, Slots
<1>3. \A o \in Ids : Swept(s, o) \in Objects
  BY <1>2 DEF Swept, Objects
<1>4. w \in [Ids -> Objects] /\ left \subseteq Ids
  BY <1>1, <1>2, <1>3, FieldsOf
<1>5. \A o \in Ids : /\ s.obj[o].kind # "string" => w[o] = s.obj[o]
                     /\ s.obj[o].kind = "string" => w[o] = Swept(s, o)
                     /\ o \in left <=> s.obj[o].kind = "string" /\ ~isdead(s, o)
  BY <1>1 DEF RootLists
<1> HIDE DEF w, left
<1>6. r = [s EXCEPT !.obj = w, !.strt = left, !.gcstate = "sweep"]
  BY DEF sweepstrings, w, left
<1> HIDE DEF r
<1>7. /\ r \in States /\ r.obj = w /\ r.strt = left /\ r.gcstate = "sweep" /\ r.rootgc = s.rootgc
      /\ r.tmudata = s.tmudata /\ r.currentwhite = s.currentwhite /\ r.sweepgc = s.sweepgc
      /\ r.stack = s.stack
  BY <1>1, <1>4, <1>6 DEF States, Phases
<1>8. \A o \in Ids : s.obj[o].kind = "string" =>
        IF isdead(s, o) THEN r.obj[o] = NoObject
        ELSE r.obj[o] = [s.obj[o] EXCEPT !.color = s.currentwhite]
  BY <1>5, <1>7 DEF Swept
<1>9. \A o \in Ids : s.obj[o].kind = "string" =>
        IF isdead(s, o) THEN ~Exists(r, o)
        ELSE r.obj[o].kind = "string" /\ r.obj[o].color = s.currentwhite
  <2> SUFFICES ASSUME NEW o \in Ids, s.obj[o].kind = "string"
               PROVE  IF isdead(s, o) THEN ~Exists(r, o)
                      ELSE r.obj[o].kind = "string" /\ r.obj[o].color = s.currentwhite
    OBVIOUS
  <2>1. CASE isdead(s, o)
    <3>1. r.obj[o] = NoObject /\ NoObject.kind = "free"
      BY <2>1, <1>8 DEF NoObject, Object
    <3> QED
      BY <3>1, <2>1 DEF Exists
  <2>2. CASE ~isdead(s, o)
    <3>1. r.obj[o] = [s.obj[o] EXCEPT !.color = s.currentwhite]
      BY <2>2, <1>8
    <3> QED
      BY <3>1, <2>2, <1>2 DEF Objects
  <2> QED
    BY <2>1, <2>2
<1>10. Prunes(s, r)
  <2> SUFFICES ASSUME NEW o \in Ids PROVE Pruned(s, r, o)
    BY <1>1, <1>7 DEF Prunes
  <2>1. CASE s.obj[o].kind # "string"
    BY <2>1, <1>5, <1>7 DEF Pruned
  <2>2. CASE s.obj[o].kind = "string" /\ isdead(s, o)
    BY <2>2, <1>8 DEF Pruned, Exists
  <2>3. CASE s.obj[o].kind = "string" /\ ~isdead(s, o)
    BY <2>3, <1>2, <1>8 DEF Pruned, Objects
  <2> QED
    BY <2>1, <2>2, <2>3
<1>11. \A o \in Ids : s.obj[o].kind # "string" => r.obj[o] = s.obj[o]
  BY <1>5, <1>7
<1>12. \A o \in Ids : IsOpenUpval(r, o) <=> IsOpenUpval(s, o)
  BY <1>9, <1>11 DEF IsOpenUpval, Exists
<1>13. \A u \in Ids : IsOpenUpval(r, u) => Exists(r, r.obj[u].th)
  BY <1>1, <1>11, <1>12 DEF OpenApart, Exists, IsOpenUpval
<1>14. Graph(r) /\ \A p \in Ids : (Alive(r, p) <=> Alive(s, p)) /\ (Exists(r, p) => Exists(s, p))
  BY <1>1, <1>10, <1>13, GraphPruned
<1>15. RootLists(r, {})
  <2>1. \A p \in Ids : InRootgc(r, p) <=> InRootgc(s, p)
    BY <1>7, <1>9, <1>11, <1>12 DEF InRootgc, Exists
  <2>2. \A p \in Ids : p \in r.strt <=> r.obj[p].kind = "string"
    BY <1>5, <1>7, <1>9, <1>11 DEF Exists
  <2>3. \A p \in ToSet(s.tmudata) : Alive(r, p) /\ r.obj[p].kind = "udata"
    BY <1>1, <1>11, <1>14 DEF RootLists
  <2> QED
    BY <2>1, <2>2, <2>3, <1>1, <1>7 DEF RootLists
<1>16. Sweeping(r, {})
  <2>1. \A o : Ahead(s, o) => Ahead(r, o)
    BY <1>7 DEF Ahead
  <2>2. AsNew(r, {})
    <3> SUFFICES ASSUME NEW o \in Ids, Exists(r, o)
                 PROVE  r.obj[o].color = r.currentwhite \/ ToSweep(r, o)
      BY DEF AsNew
    <3>1. CASE s.obj[o].kind = "string"
      BY <3>1, <1>7, <1>9
    <3>2. CASE s.obj[o].kind # "string"
      <4>1. s.obj[o].color = s.currentwhite \/ ToSweep(s, o)
        BY <1>1, <1>14 DEF Sweeping, AsNew
      <4> QED
        BY <3>2, <4>1, <2>1, <1>7, <1>11, <1>12 DEF ToSweep
    <3> QED
      BY <3>1, <3>2
  <2> QED
    BY <2>2, <1>1, <1>7 DEF Sweeping
<1> QED
  BY <1>7, <1>14, <1>15, <1>16 DEF CollectorInv, InvBut, r

-----------------------------------------------------------------------------
(* What the program stores.                                                *)

\* Values move to places of the main stack and to stacks of coroutines.
Moved(s, w) ==
  /\ w \in States
  /\ w.rootgc = s.rootgc /\ w.strt = s.strt /\ w.tmudata = s.tmudata
  /\ w.gray = s.gray /\ w.grayagain = s.grayagain /\ w.weak = s.weak
  /\ w.currentwhite = s.currentwhite /\ w.gcstate = s.gcstate /\ w.sweepgc = s.sweepgc
  /\ \A i \in Places : Value(s, w.stack[i])
  /\ \A o \in Ids : /\ w.obj[o].kind = s.obj[o].kind /\ w.obj[o].color = s.obj[o].color
                    /\ w.obj[o].slot = s.obj[o].slot /\ w.obj[o].th = s.obj[o].th
                    /\ \/ w.obj[o].val = s.obj[o].val
                       \/ s.obj[o].kind = "thread" /\ o # Main /\ Value(s, w.obj[o].val)

LEMMA MovedKeeps ==
  ASSUME NEW s, NEW w, CollectorInv(s), Moved(s, w)
  PROVE  CollectorInv(w)
<1>1. s \in States /\ Graph(s) /\ RootLists(s, {}) /\ OpenApart(s) /\ AllRefer(s) /\ RootsAlive(s)
      /\ BlackKinds(s) /\ Plain(s) /\ w \in States
  BY InvFacts DEF CollectorInv, Moved
<1>2. \A o \in Ids : /\ Exists(w, o) <=> Exists(s, o)
                     /\ IsOpenUpval(w, o) <=> IsOpenUpval(s, o)
                     /\ iswhite(w, o) <=> iswhite(s, o)
                     /\ isdead(w, o) <=> isdead(s, o)
                     /\ Leaf(w, o) <=> Leaf(s, o)
                     /\ Alive(w, o) <=> Alive(s, o)
                     /\ w.obj[o].kind = s.obj[o].kind /\ w.obj[o].color = s.obj[o].color
                     /\ w.obj[o].slot = s.obj[o].slot /\ w.obj[o].th = s.obj[o].th
                     /\ s.obj[o].kind # "thread" => w.obj[o].val = s.obj[o].val
  BY DEF Moved, Exists, IsOpenUpval, iswhite, isdead, otherwhite, Leaf, Alive
<1>3. \A v : Value(s, v) => Value(w, v)
  BY <1>2 DEF Value
<1>4. \A o \in Ids : s.obj[o].val \in Names /\ (s.obj[o].val # 0 => s.obj[o].val \in Ids)
  BY <1>1, FieldsOf DEF Names
<1>5. \A o \in Ids : IsOpenUpval(s, o) => Value(s, Held(w, o)) \/ Held(w, o) = Held(s, o)
  <2> SUFFICES ASSUME NEW o \in Ids, IsOpenUpval(s, o)
               PROVE  Value(s, Held(w, o)) \/ Held(w, o) = Held(s, o)
    OBVIOUS
  <2>1. PICK t : t = s.obj[o].th
    OBVIOUS
  <2>2. PICK i : i = s.obj[o].slot
    OBVIOUS
  <2>3. t \in Ids /\ i \in Places
    <3>1. s.obj[o].slot \in Slots /\ s.obj[o].slot # 0
      BY <1>1, FieldsOf DEF IsOpenUpval
    <3> QED
      BY <3>1, <2>1, <2>2, <1>1 DEF Slots, OpenApart
  <2>4. Held(w, o) = UpvalSlot(w, t, i) /\ Held(s, o) = UpvalSlot(s, t, i)
    BY <2>1, <2>2, <1>2 DEF Held
  <2>5. CASE t = Main
    BY <2>3, <2>4, <2>5 DEF UpvalSlot, Moved
  <2>6. CASE t # Main
    BY <2>3, <2>4, <2>6 DEF UpvalSlot, Moved
  <2> QED
    BY <2>5, <2>6
<1>6. RootsAlive(w)
  <2>1. \A i \in Places : Value(w, w.stack[i])
    BY <1>3 DEF Moved
  <2>2. w.obj[Main].val = s.obj[Main].val
    BY Constants DEF Moved
  <2> QED
    BY <2>1, <2>2, <1>1, <1>2, Constants DEF RootsAlive
<1>7. AllRefer(w)
  <2> SUFFICES ASSUME NEW o \in Ids, Alive(w, o) PROVE Refers(w, o)
    BY DEF AllRefer
  <2>1. Refers(s, o)
    BY <1>1, <1>2 DEF AllRefer
  <2>2. CASE s.obj[o].kind = "thread"
    <3>1. Value(s, s.obj[o].val)
      BY <2>1, <2>2 DEF Refers
    <3>2. Value(s, w.obj[o].val)
      BY <3>1 DEF Moved
    <3> QED
      BY <3>2, <2>2, <1>2, <1>3 DEF Refers
  <2>3. CASE s.obj[o].kind = "upval"
    <3>1. Value(s, Held(s, o))
      BY <2>1, <2>3 DEF Refers
    <3>2. ~IsOpenUpval(s, o) => Held(w, o) = Held(s, o)
      BY <2>3, <1>2 DEF Held
    <3>3. Value(w, Held(w, o))
      BY <3>1, <3>2, <1>3, <1>5
    <3> QED
      BY <3>3, <2>3, <1>2 DEF Refers
  <2>4. CASE s.obj[o].kind \notin {"thread", "upval"}
    <3>1. w.obj[o].val = s.obj[o].val
      BY <2>4, <1>2
    <3> QED
      BY <3>1, <2>1, <2>4, <1>2, <1>3, <1>4 DEF Refers
  <2> QED
    BY <2>2, <2>3, <2>4
<1>8. OpenApart(w)
  BY <1>1, <1>2 DEF OpenApart
<1>9. BlackKinds(w) /\ Plain(w)
  BY <1>1, <1>2 DEF BlackKinds, Plain, IsOpenUpval
<1>10. Graph(w)
  BY <1>1, <1>6, <1>7, <1>8, <1>9 DEF Graph
<1>11. RootLists(w, {})
  BY <1>1, <1>2, RootListsFrom DEF Moved
<1>12. CASE s.gcstate = "propagate"
  <2>1. NoneDead(s) /\ GrayLists(s) /\ NoGrayLeaf(s, Again(s)) /\ Closed(s, Again(s))
        /\ ~iswhite(s, Main)
    BY <1>12, InvFacts DEF CollectorInv, Marking, Marked
  <2>2. NoneDead(w) /\ ~iswhite(w, Main)
    BY <2>1, <1>2, Constants DEF NoneDead
  <2>3. w.gray = s.gray /\ w.grayagain = s.grayagain /\ w.weak = s.weak /\ w.tmudata = s.tmudata
        /\ w.gcstate = s.gcstate
    BY DEF Moved
  <2>4. GrayLists(w)
    <3>1. \A p : Listed(w, p) <=> Listed(s, p)
      BY <2>3 DEF Listed
    <3>2. s.gray \in Seq(Ids) /\ s.grayagain \in Seq(Ids) /\ s.weak \in Seq(Ids)
      BY <1>1, FieldsOf
    <3>3. \A p : Listed(s, p) => p \in Ids
      BY <3>2 DEF Listed, ToSet
    <3> QED
      BY <1>2, <2>1, <2>3, <3>1, <3>3 DEF GrayLists, ListsApart, Listed
  <2>5. Again(w) = Again(s)
    BY <2>3, <1>2 DEF Again, GrayUpvals
  <2>6. NoGrayLeaf(w, Again(w))
    BY <2>1, <2>5, <1>2 DEF NoGrayLeaf
  <2>7. Closed(w, Again(w))
    <3> SUFFICES ASSUME NEW o \in Ids, o \notin Again(s), Exists(w, o), ~iswhite(w, o),
                        o \notin ToSet(w.gray), w.obj[o].kind # "weak"
                 PROVE  Done(w, o)
      BY <2>5 DEF Closed
    <3>1. Done(s, o)
      BY <1>2, <2>1, <2>3 DEF Closed
    <3>2. s.obj[o].color \in Colors
      BY <1>1, FieldsOf
    <3>3. s.obj[o].kind # "thread"
      <4> SUFFICES ASSUME s.obj[o].kind = "thread" PROVE FALSE
        OBVIOUS
      <4>1. s.obj[o].color = "gray"
        BY <3>2, <1>1, <1>2 DEF BlackKinds, Blacks, iswhite, Colors
      <4>2. Listed(s, o)
        BY <4>1, <2>1 DEF GrayLists, Traversed
      <4> QED
        BY <4>2, <2>1, <2>3 DEF Listed, GrayLists, Again
    <3>4. ~IsOpenUpval(s, o)
      <4> SUFFICES ASSUME IsOpenUpval(s, o) PROVE FALSE
        OBVIOUS
      <4>1. s.obj[o].color = "gray"
        BY <3>2, <1>1, <1>2 DEF BlackKinds, iswhite, Colors
      <4> QED
        BY <4>1 DEF Again, GrayUpvals
    <3>5. w.obj[o].val = s.obj[o].val /\ w.obj[o].kind = s.obj[o].kind
      BY <3>3, <1>2
    <3>6. Strong(w, o) = Strong(s, o)
      <4>1. Held(w, o) = Held(s, o)
        BY <3>4, <3>5, <1>2 DEF Held
      <4>2. s.obj[o].kind # "weak"
        BY <1>2
      <4> QED
        BY <4>1, <4>2, <3>3, <3>5 DEF Strong
    <3> QED
      BY <3>1, <3>6, <1>2 DEF Done
  <2> QED
    BY <1>10, <1>11, <1>12, <2>2, <2>3, <2>4, <2>6, <2>7 DEF CollectorInv, InvBut, Marking, Marked
<1>13. CASE s.gcstate # "propagate"
  <2>1. Sweeping(s, {})
    BY <1>13, InvFacts DEF CollectorInv
  <2>2. \A o : Ahead(w, o) <=> Ahead(s, o)
    BY DEF Ahead, Moved
  <2>3. \A o \in Ids : ToSweep(w, o) <=> ToSweep(s, o)
    BY <1>2, <2>2 DEF ToSweep, Moved
  <2>4. w.currentwhite = s.currentwhite /\ w.gcstate = s.gcstate /\ w.sweepgc = s.sweepgc
        /\ w.rootgc = s.rootgc
    BY DEF Moved
  <2>5. AsNew(w, {})
    BY <1>2, <2>1, <2>3, <2>4 DEF Sweeping, AsNew
  <2>6. Sweeping(w, {})
    BY <2>1, <2>4, <2>5 DEF Sweeping
  <2> QED
    BY <1>10, <1>11, <1>13, <2>4, <2>6 DEF CollectorInv, InvBut
<1> QED
  BY <1>12, <1>13

LEMMA StoredKeeps ==
  ASSUME NEW s, CollectorInv(s), NEW i \in Places, NEW v, Value(s, v)
  PROVE  LET w == Stored(s, i, v)
         IN  CollectorInv(w) /\ w.gcstate = s.gcstate /\ w.tmudata = s.tmudata
<1> DEFINE w == Stored(s, i, v)
<1>1. s \in States /\ v \in Names /\ \A j \in Places : Value(s, s.stack[j])
  BY InvFacts DEF CollectorInv, RootsAlive, Value, Names
<1>2. w.stack = [s.stack EXCEPT ![i] = v] /\ w.stack \in [Places -> Names]
  BY <1>1 DEF Stored, States
<1>3. w \in States
  BY <1>1, <1>2 DEF Stored, States
<1>4. /\ w.rootgc = s.rootgc /\ w.strt = s.strt /\ w.tmudata = s.tmudata
      /\ w.gray = s.gray /\ w.grayagain = s.grayagain /\ w.weak = s.weak
      /\ w.currentwhite = s.currentwhite /\ w.gcstate = s.gcstate /\ w.sweepgc = s.sweepgc
      /\ w.obj = s.obj
  BY <1>1 DEF Stored, States
<1>5. s.stack \in [Places -> Names]
  BY <1>1, FieldsOf
<1> HIDE DEF w
<1>6. \A j \in Places : Value(s, w.stack[j])
  BY <1>1, <1>2, <1>5
<1>7. Moved(s, w)
  BY <1>3, <1>4, <1>6 DEF Moved
<1> QED
  BY <1>4, <1>7, MovedKeeps DEF w

-----------------------------------------------------------------------------
(* The steps of the collector.                                             *)

\* The main thread is in the list of all objects: a userdata comes after it.
LEMMA AfterMainIs ==
  ASSUME NEW s, Graph(s), RootLists(s, {}), NEW o \in Ids
  PROVE  LET q == AfterMain(s.rootgc, o)
         IN  /\ q \in Seq(Ids)
             /\ \A x : x \in ToSet(q) <=> x = o \/ x \in ToSet(s.rootgc)
             /\ IsInjective(q) <=> o \notin ToSet(s.rootgc)
             /\ \A z : z # o => /\ After(s.rootgc, z) \subseteq After(q, z)
                                /\ After(q, z) \subseteq After(s.rootgc, z) \cup {o}
<1>1. s.rootgc \in Seq(Ids) /\ IsInjective(s.rootgc) /\ s \in States
  BY FieldsOf DEF Graph, RootLists
<1>2. Main \in ToSet(s.rootgc)
  <2>1. s.obj[Main].kind = "thread"
    BY DEF Graph, RootsAlive
  <2>2. InRootgc(s, Main)
    BY <2>1 DEF InRootgc, Exists, IsOpenUpval, RootLists
  <2> QED
    BY <2>2, Constants DEF RootLists
<1>3. PICK p : p = PlaceAfter(s.rootgc, Main)
  OBVIOUS
<1>4. p \in 1 .. Len(s.rootgc) + 1
  BY <1>1, <1>2, <1>3, PlaceAfterIs
<1>5. PICK q : q = InsertAt(s.rootgc, p, o)
  OBVIOUS
<1>6. q \in Seq(Ids) /\ Inserted(s.rootgc, q, p, o)
  BY <1>1, <1>4, <1>5, InsertAtIs
<1>7. q = AfterMain(s.rootgc, o)
  BY <1>3, <1>5 DEF AfterMain
<1>8. /\ \A x : x \in ToSet(q) <=> x = o \/ x \in ToSet(s.rootgc)
      /\ IsInjective(q) <=> IsInjective(s.rootgc) /\ o \notin ToSet(s.rootgc)
      /\ \A z : z # o => /\ After(s.rootgc, z) \subseteq After(q, z)
                         /\ After(q, z) \subseteq After(s.rootgc, z) \cup {o}
  BY <1>1, <1>6, InsertedIs
<1> QED
  BY <1>1, <1>6, <1>7, <1>8

LEMMA BackInListKeeps ==
  ASSUME NEW s, CollectorInv(s), s.gcstate = "finalize", s.tmudata # <<>>
  PROVE  LET r == BackInList(s, Head(s.tmudata))
         IN  CollectorInv(r) /\ r.gcstate = "finalize" /\ Value(r, Head(s.tmudata))
<1>1. PICK o : o = Head(s.tmudata)
  OBVIOUS
<1>2. PICK q : q = AfterMain(s.rootgc, o)
  OBVIOUS
<1>3. PICK rest : rest = Tail(s.tmudata)
  OBVIOUS
<1>4. s \in States /\ Graph(s) /\ RootLists(s, {}) /\ OpenApart(s) /\ s.tmudata \in Seq(Ids)
  BY InvFacts, FieldsOf DEF CollectorInv
<1>5. /\ o \in Ids /\ rest \in Seq(Ids) /\ o \in ToSet(s.tmudata)
      /\ IsInjective(rest) /\ o \notin ToSet(rest)
      /\ (\A p \in ToSet(rest) : p \in ToSet(s.tmudata))
      /\ \A p \in ToSet(s.tmudata) : p # o => p \in ToSet(rest)
  BY <1>1, <1>3, <1>4, PopIs DEF RootLists
<1>6. /\ q \in Seq(Ids)
      /\ \A x : x \in ToSet(q) <=> x = o \/ x \in ToSet(s.rootgc)
      /\ IsInjective(q) <=> o \notin ToSet(s.rootgc)
  BY <1>2, <1>4, <1>5, AfterMainIs
<1>7. o \notin ToSet(s.rootgc) /\ Alive(s, o) /\ s.obj[o].kind = "udata"
  BY <1>4, <1>5 DEF RootLists, InRootgc
<1>8. PICK t : t = [s EXCEPT !.tmudata = rest, !.rootgc = q]
  OBVIOUS
<1>9. /\ t \in States /\ t.obj = s.obj /\ t.rootgc = q /\ t.strt = s.strt /\ t.tmudata = rest
      /\ t.currentwhite = s.currentwhite /\ t.gcstate = "finalize" /\ t.sweepgc = s.sweepgc
      /\ t.stack = s.stack
  BY <1>4, <1>5, <1>6, <1>8 DEF States
<1>10. t.currentwhite \in Colors
  BY <1>9, FieldsOf DEF Colors, Whites
<1>11. PICK r : r = Painted(t, o, t.currentwhite)
  OBVIOUS
<1>12. BackInList(s, o) = r
  BY <1>2, <1>3, <1>8, <1>11 DEF BackInList, makewhite
<1>13. SameGraph(t, r) /\ OnlyPaints(t, r, o, t.currentwhite)
  BY <1>5, <1>9, <1>10, <1>11, PaintedIs
<1>14. /\ r \in States /\ r.rootgc = q /\ r.strt = s.strt /\ r.tmudata = rest
       /\ r.currentwhite = s.currentwhite /\ r.gcstate = "finalize" /\ r.stack = s.stack
       /\ r.obj[o].color = s.currentwhite
       /\ \A p \in Ids : /\ r.obj[p].kind = s.obj[p].kind /\ r.obj[p].val = s.obj[p].val
                         /\ r.obj[p].slot = s.obj[p].slot /\ r.obj[p].th = s.obj[p].th
                         /\ p # o => r.obj[p].color = s.obj[p].color
  BY <1>5, <1>9, <1>13 DEF SameGraph, OnlyPaints
<1>15. \A p \in Ids : (IsOpenUpval(r, p) <=> IsOpenUpval(s, p)) /\ (Exists(r, p) <=> Exists(s, p))
  BY <1>14 DEF IsOpenUpval, Exists
<1>16. Prunes(s, r)
  BY <1>4, <1>7, <1>14 DEF Prunes, Pruned, Alive
<1>17. \A u \in Ids : IsOpenUpval(r, u) => Exists(r, r.obj[u].th)
  BY <1>4, <1>14, <1>15 DEF OpenApart, Exists
<1>18. Graph(r) /\ \A p \in Ids : Alive(r, p) <=> Alive(s, p)
  BY <1>4, <1>16, <1>17, GraphPruned
<1>19. RootLists(r, {})
  <2>1. \A p \in Ids : InRootgc(r, p) <=> p = o \/ InRootgc(s, p)
    BY <1>5, <1>7, <1>14, <1>15 DEF InRootgc, Alive, Exists, IsOpenUpval
  <2>2. \A p \in Ids : p \in ToSet(r.rootgc) <=> InRootgc(r, p) /\ p \notin {}
    BY <2>1, <1>4, <1>6, <1>14 DEF RootLists
  <2>3. \A p \in Ids : p \in r.strt <=> r.obj[p].kind = "string"
    BY <1>4, <1>14 DEF RootLists
  <2>4. \A p \in ToSet(r.tmudata) : p \in Ids
    BY <1>5, <1>14 DEF ToSet
  <2>5. \A p \in ToSet(r.tmudata) : Alive(r, p) /\ r.obj[p].kind = "udata"
    BY <2>4, <1>4, <1>5, <1>14, <1>18 DEF RootLists
  <2>6. IsInjective(r.rootgc) /\ IsInjective(r.tmudata)
    BY <1>5, <1>6, <1>7, <1>14
  <2> QED
    BY <2>2, <2>3, <2>5, <2>6 DEF RootLists
<1>20. AsNew(r, {})
  <2> SUFFICES ASSUME NEW p \in Ids, Exists(r, p)
               PROVE  r.obj[p].color = r.currentwhite \/ ToSweep(r, p)
    BY DEF AsNew
  <2>1. s.obj[p].color = s.currentwhite \/ p \in ToSet(s.tmudata)
    BY <1>15, NothingToSweep
  <2> QED
    BY <2>1, <1>5, <1>14 DEF ToSweep
<1>21. CollectorInv(r)
  BY <1>14, <1>18, <1>19, <1>20 DEF CollectorInv, InvBut, Sweeping
<1>22. Value(r, o)
  BY <1>5, <1>7, <1>14, <1>18 DEF Value
<1> QED
  BY <1>1, <1>12, <1>14, <1>21, <1>22

LEMMA GCTMKeeps ==
  ASSUME NEW s, CollectorInv(s), s.gcstate = "finalize", s.tmudata # <<>>,
         NEW keep \in Places \cup {0}
  PROVE  CollectorInv(GCTM(s, keep)) /\ GCTM(s, keep).gcstate = "finalize"
<1>1. PICK r : r = BackInList(s, Head(s.tmudata))
  OBVIOUS
<1>2. CollectorInv(r) /\ r.gcstate = "finalize" /\ Value(r, Head(s.tmudata))
  BY <1>1, BackInListKeeps
<1>3. CASE keep = 0
  BY <1>1, <1>2, <1>3 DEF GCTM
<1>4. CASE keep # 0
  <2>1. GCTM(s, keep) = Stored(r, keep, Head(s.tmudata)) /\ keep \in Places
    BY <1>1, <1>4 DEF GCTM, Stored
  <2> QED
    BY <2>1, <1>2, StoredKeeps
<1> QED
  BY <1>3, <1>4

LEMMA FinalizedKeeps ==
  ASSUME NEW s, CollectorInv(s), s.gcstate = "finalize"
  PROVE  LET r == [s EXCEPT !.gcstate = "pause"]
         IN  CollectorInv(r) /\ r.gcstate = "pause" /\ r.tmudata = s.tmudata
<1>1. PICK r : r = [s EXCEPT !.gcstate = "pause"]
  OBVIOUS
<1>2. s \in States /\ Graph(s) /\ RootLists(s, {})
  BY InvFacts DEF CollectorInv
<1>3. /\ r \in States /\ r.obj = s.obj /\ r.rootgc = s.rootgc /\ r.strt = s.strt
      /\ r.tmudata = s.tmudata /\ r.currentwhite = s.currentwhite /\ r.stack = s.stack
      /\ r.gcstate = "pause"
  BY <1>1, <1>2 DEF States, Phases
<1>4. Graph(r) /\ RootLists(r, {}) /\ \A p \in Ids : Exists(r, p) => Exists(s, p)
  BY <1>2, <1>3, RephasedIs
<1>5. AsNew(r, {})
  <2> SUFFICES ASSUME NEW p \in Ids, Exists(r, p)
               PROVE  r.obj[p].color = r.currentwhite \/ ToSweep(r, p)
    BY DEF AsNew
  <2>1. s.obj[p].color = s.currentwhite \/ p \in ToSet(s.tmudata)
    BY <1>4, NothingToSweep
  <2> QED
    BY <2>1, <1>3 DEF ToSweep
<1>6. CollectorInv(r)
  BY <1>3, <1>4, <1>5 DEF CollectorInv, InvBut, Sweeping
<1> QED
  BY <1>1, <1>3, <1>6

\* propagatemark: one mark less is left.
LEMMA propagatemarkKeeps ==
  ASSUME NEW s, CollectorInv(s), s.gcstate = "propagate", s.gray # <<>>
  PROVE  LET r == propagatemark(s)
         IN  CollectorInv(r) /\ r.gcstate = "propagate" /\ r.tmudata = s.tmudata
             /\ MarksLeft(r) + 1 <= MarksLeft(s)
<1>1. PICK r : r = propagatemark(s)
  OBVIOUS
<1>2. Marking(s) /\ Graph(s) /\ RootLists(s, {})
  BY InvFacts DEF CollectorInv
<1>3. Marking(r) /\ Traverses(s, r)
  BY <1>1, <1>2, PropagateKeeps
<1>4. SameGraph(s, r) /\ MarksLeft(r) + 1 <= MarksLeft(s)
  BY <1>3 DEF Traverses
<1>5. RootLists(r, {})
  BY <1>2, <1>3, <1>4, RootListsSame DEF Marking, Marked
<1> QED
  BY <1>1, <1>3, <1>4, <1>5 DEF CollectorInv, InvBut, SameGraph, Marking, Marked

\* Every step; what is to be finalized is, before the next cycle begins.
LEMMA singlestepKeeps ==
  ASSUME NEW s, CollectorInv(s), NEW keep \in Places \cup {0}
  PROVE  LET r == singlestep(s, keep)
         IN  /\ CollectorInv(r)
             /\ s.gcstate = "pause" => r.gcstate = "propagate" /\ r.tmudata = s.tmudata
             /\ s.gcstate = "propagate" =>
                  \/ r.gcstate = "sweepstring"
                  \/ /\ r.gcstate = "propagate" /\ r.tmudata = s.tmudata
                     /\ MarksLeft(r) + 1 <= MarksLeft(s)
             /\ s.gcstate = "sweepstring" => r.gcstate = "sweep"
             /\ s.gcstate = "sweep" =>
                  \/ r.gcstate = "finalize"
                  \/ /\ r.gcstate = "sweep"
                     /\ Remaining(r) \subseteq Remaining(s) /\ Remaining(r) # Remaining(s)
             /\ s.gcstate = "finalize" =>
                  \/ r.gcstate = "finalize"
                  \/ r.gcstate = "pause" /\ r.tmudata = <<>>
<1>1. s.gcstate \in Phases
  BY InvFacts, FieldsOf DEF CollectorInv
<1>2. CASE s.gcstate = "pause"
  <2>1. singlestep(s, keep) = markroot(s)
    BY <1>2 DEF singlestep
  <2> QED
    BY <1>2, <2>1, markrootKeeps
<1>3. CASE s.gcstate = "propagate"
  <2>1. singlestep(s, keep) = IF s.gray # <<>> THEN propagatemark(s) ELSE atomic(s)
    BY <1>3 DEF singlestep
  <2>2. CASE s.gray # <<>>
    BY <1>3, <2>1, <2>2, propagatemarkKeeps
  <2>3. CASE s.gray = <<>>
    BY <1>3, <2>1, <2>3, atomicKeeps
  <2> QED
    BY <2>2, <2>3
<1>4. CASE s.gcstate = "sweepstring"
  <2>1. singlestep(s, keep) = sweepstrings(s)
    BY <1>4 DEF singlestep
  <2> QED
    BY <1>4, <2>1, sweepstringsKeeps
<1>5. CASE s.gcstate = "sweep"
  <2>1. singlestep(s, keep) = sweeplist(s)
    BY <1>5 DEF singlestep
  <2> QED
    BY <1>5, <2>1, sweeplistKeeps
<1>6. CASE s.gcstate = "finalize"
  <2>1. singlestep(s, keep) = IF s.tmudata # <<>> THEN GCTM(s, keep)
                              ELSE [s EXCEPT !.gcstate = "pause"]
    BY <1>6 DEF singlestep
  <2>2. CASE s.tmudata # <<>>
    BY <1>6, <2>1, <2>2, GCTMKeeps
  <2>3. CASE s.tmudata = <<>>
    BY <1>6, <2>1, <2>3, FinalizedKeeps
  <2> QED
    BY <2>2, <2>3
<1> QED
  BY <1>1, <1>2, <1>3, <1>4, <1>5, <1>6 DEF Phases

-----------------------------------------------------------------------------
(* A full collection.                                                      *)

LEMMA AbandonedKeeps ==
  ASSUME NEW s, CollectorInv(s)
  PROVE  CollectorInv(Abandoned(s))
         /\ Abandoned(s).gcstate \in {"sweepstring", "sweep", "finalize"}
<1>1. s \in States /\ Graph(s) /\ RootLists(s, {}) /\ s.gcstate \in Phases
  BY InvFacts, FieldsOf DEF CollectorInv
<1>2. CASE s.gcstate \notin {"pause", "propagate"}
  BY <1>1, <1>2 DEF Abandoned, Phases
<1>3. CASE s.gcstate \in {"pause", "propagate"}
  <2>1. PICK r : r = [s EXCEPT !.gray = <<>>, !.grayagain = <<>>, !.weak = <<>>, !.sweepgc = 0,
                               !.gcstate = "sweepstring"]
    OBVIOUS
  <2>2. <<>> \in Seq(Ids) /\ 0 \in Names
    BY EmptyIs DEF Names
  <2>3. /\ r \in States /\ r.obj = s.obj /\ r.rootgc = s.rootgc /\ r.strt = s.strt
        /\ r.tmudata = s.tmudata /\ r.currentwhite = s.currentwhite /\ r.stack = s.stack
        /\ r.gcstate = "sweepstring" /\ r.sweepgc = 0
    BY <1>1, <2>1, <2>2 DEF States, Phases
  <2>4. Graph(r) /\ RootLists(r, {})
    BY <1>1, <2>3, RephasedIs
  <2>5. Sweeping(r, {})
    BY <2>3, <2>4, AllToSweep DEF Graph
  <2>6. Abandoned(s) = r
    BY <1>3, <2>1 DEF Abandoned
  <2> QED
    BY <2>3, <2>4, <2>5, <2>6 DEF CollectorInv, InvBut
<1> QED
  BY <1>2, <1>3

LEMMA RemainingNat ==
  ASSUME NEW s
  PROVE  /\ Cardinality(Remaining(s)) \in 0 .. MaxObjects + 2
         /\ \A r : Remaining(r) \subseteq Remaining(s) /\ Remaining(r) # Remaining(s) =>
              Cardinality(Remaining(r)) + 1 <= Cardinality(Remaining(s))
<1>1. Remaining(s) \subseteq Ids /\ IsFiniteSet(Ids) /\ Cardinality(Ids) = MaxObjects + 2
  <2>1. MaxObjects + 2 \in Nat /\ Ids = 1 .. MaxObjects + 2
    BY Constants
  <2> QED
    BY <2>1, FS_Interval, Constants DEF Remaining
<1>2. IsFiniteSet(Remaining(s)) /\ Cardinality(Remaining(s)) \in Nat
      /\ Cardinality(Remaining(s)) <= MaxObjects + 2
  BY <1>1, FS_Subset, FS_CardinalityType
<1>3. ASSUME NEW r, Remaining(r) \subseteq Remaining(s), Remaining(r) # Remaining(s)
      PROVE  Cardinality(Remaining(r)) + 1 <= Cardinality(Remaining(s))
  <2>1. PICK o \in Remaining(s) : o \notin Remaining(r)
    BY <1>3
  <2>2. Remaining(r) \subseteq Remaining(s) \ {o}
    BY <1>3, <2>1
  <2>3. IsFiniteSet(Remaining(s) \ {o})
        /\ Cardinality(Remaining(s) \ {o}) = Cardinality(Remaining(s)) - 1
    BY <1>2, <2>1, FS_RemoveElement
  <2>4. Cardinality(Remaining(r)) <= Cardinality(Remaining(s) \ {o})
        /\ IsFiniteSet(Remaining(r)) /\ Cardinality(Remaining(r)) \in Nat
    BY <2>2, <2>3, FS_Subset, FS_CardinalityType
  <2> QED
    BY <1>2, <2>3, <2>4
<1> QED
  BY <1>2, <1>3, Constants

\* Until everything is swept.
LEMMA SteppedToFinalize ==
  ASSUME NEW s, CollectorInv(s), s.gcstate \in {"sweepstring", "sweep", "finalize"}
  PROVE  CollectorInv(StepsTo(s, "finalize")) /\ StepsTo(s, "finalize").gcstate = "finalize"
<1> DEFINE k == FullSteps
           Fine(x, i) ==
             /\ CollectorInv(x)
             /\ \/ x.gcstate = "finalize"
                \/ x.gcstate = "sweep" /\ Cardinality(Remaining(x)) + i <= MaxObjects + 3
                \/ x.gcstate = "sweepstring" /\ i = 0
           f(x, n) == StepUnless(x, "finalize")
           T == [i \in 0 .. k |-> {x \in States : Fine(x, i)}]
           Step == [i \in 1 .. k |-> [x \in T[i - 1] |-> f(x, i)]]
<1>0. s \in States
  BY InvFacts DEF CollectorInv
<1>1. k \in Nat /\ k > MaxObjects + 3
  BY Constants DEF FullSteps
<1>2. s \in T[0]
  <2>1. Cardinality(Remaining(s)) + 0 <= MaxObjects + 3
    BY RemainingNat, Constants
  <2>2. Fine(s, 0)
    BY <2>1
  <2> HIDE DEF Fine, k
  <2>3. 0 \in 0 .. k
    BY <1>1
  <2> QED
    BY <1>0, <2>2, <2>3
<1>3. ASSUME NEW i \in 1 .. k, NEW x \in T[i - 1]
      PROVE  f(x, i) \in T[i]
  <2> DEFINE y == f(x, i)
  <2> HIDE DEF k
  <2>1. i - 1 \in 0 .. k /\ i \in 0 .. k /\ i \in Nat
    BY <1>1
  <2>2. x \in States /\ Fine(x, i - 1)
    <3> HIDE DEF Fine
    <3> QED
      BY <2>1
  <2>3. CASE x.gcstate = "finalize"
    <3>1. y = x
      BY <2>3 DEF StepUnless
    <3>2. Fine(y, i)
      BY <2>2, <2>3, <3>1
    <3> HIDE DEF Fine
    <3> QED
      BY <2>1, <2>2, <3>1, <3>2
  <2>4. CASE x.gcstate # "finalize"
    <3>1. y = singlestep(x, 0)
      BY <2>4 DEF StepUnless
    <3> HIDE DEF y, f
    <3>2. /\ CollectorInv(y)
          /\ x.gcstate = "sweepstring" => y.gcstate = "sweep"
          /\ x.gcstate = "sweep" =>
               \/ y.gcstate = "finalize"
               \/ /\ y.gcstate = "sweep"
                  /\ Remaining(y) \subseteq Remaining(x) /\ Remaining(y) # Remaining(x)
      BY <2>2, <3>1, singlestepKeeps
    <3>3. y \in States
      BY <3>2, InvFacts DEF CollectorInv
    <3>4. CASE x.gcstate = "sweepstring"
      <4>1. i = 1
        BY <2>1, <2>2, <2>4, <3>4
      <4>2. Cardinality(Remaining(y)) + i <= MaxObjects + 3
        BY <4>1, RemainingNat, Constants
      <4>3. Fine(y, i)
        BY <3>2, <3>4, <4>2
      <4> HIDE DEF Fine
      <4> QED
        BY <2>1, <3>3, <4>3 DEF y
    <3>5. CASE x.gcstate = "sweep"
      <4>1. Cardinality(Remaining(x)) + (i - 1) <= MaxObjects + 3
        BY <2>2, <3>5
      <4>2. Remaining(y) \subseteq Remaining(x) /\ Remaining(y) # Remaining(x) =>
              Cardinality(Remaining(y)) + 1 <= Cardinality(Remaining(x))
        BY RemainingNat
      <4>3. Cardinality(Remaining(x)) \in Nat /\ Cardinality(Remaining(y)) \in Nat
        BY RemainingNat
      <4>4. Cardinality(Remaining(y)) + 1 <= Cardinality(Remaining(x)) =>
              Cardinality(Remaining(y)) + i <= MaxObjects + 3
        BY <2>1, <4>1, <4>3, Constants
      <4>5. Fine(y, i)
        BY <3>2, <3>5, <4>2, <4>4
      <4> HIDE DEF Fine
      <4> QED
        BY <2>1, <3>3, <4>5 DEF y
    <3> QED
      BY <2>2, <2>4, <3>4, <3>5
  <2> QED
    BY <2>3, <2>4
<1>4. Within(k, T, Step)
  <2> HIDE DEF T, f
  <2> QED
    BY <1>3 DEF Within
<1>5. PICK m : Repeats(k, T, Step, s, m)
  <2> HIDE DEF T, Step, k
  <2> QED
    BY <1>1, <1>2, <1>4, Repeated
<1>6. m = [i \in 0 .. k |-> IF i = 0 THEN s ELSE f(m[i - 1], i)]
  <2> HIDE DEF T, f
  <2>1. \A i \in 1 .. k : Step[i][m[i - 1]] = f(m[i - 1], i)
    <3> SUFFICES ASSUME NEW i \in 1 .. k PROVE Step[i][m[i - 1]] = f(m[i - 1], i)
      OBVIOUS
    <3>1. i - 1 \in 0 .. k
      BY <1>1
    <3>2. m[i - 1] \in T[i - 1]
      BY <3>1, <1>5 DEF Repeats
    <3> QED
      BY <3>2
  <2> HIDE DEF Step
  <2>2. \A i \in 0 .. k : i # 0 => i \in 1 .. k
    BY <1>1
  <2> QED
    BY <1>5, <2>1, <2>2 DEF Repeats
<1>7. PICK r : r = CHOOSE h : h = [n \in 0 .. k |-> IF n = 0 THEN s ELSE f(h[n - 1], n)]
  OBVIOUS
<1>8. r = [n \in 0 .. k |-> IF n = 0 THEN s ELSE f(r[n - 1], n)]
  <2> HIDE DEF f
  <2> QED
    BY <1>6, <1>7
<1>9. StepsTo(s, "finalize") = r[k]
  BY <1>7 DEF StepsTo, k
<1>10. r[k] \in T[k]
  <2>1. r[0] \in T[0]
    <3> HIDE DEF T, f
    <3>1. 0 \in 0 .. k
      BY <1>1
    <3> QED
      BY <1>2, <1>8, <3>1
  <2>2. \A i \in 1 .. k : r[i - 1] \in T[i - 1] => r[i] \in T[i]
    <3> HIDE DEF T
    <3> SUFFICES ASSUME NEW i \in 1 .. k, r[i - 1] \in T[i - 1] PROVE r[i] \in T[i]
      OBVIOUS
    <3>1. i \in 0 .. k /\ i # 0
      BY <1>1
    <3>2. r[i] = f(r[i - 1], i)
      <4> HIDE DEF f
      <4> QED
        BY <1>8, <3>1
    <3> QED
      BY <1>3, <3>2
  <2>3. \A i \in 0 .. k : r[i] \in T[i]
    <3> HIDE DEF T, f
    <3> QED
      BY <1>1, <2>1, <2>2, PassedOn
  <2>4. k \in 0 .. k
    BY <1>1
  <2> QED
    BY <2>3, <2>4
<1>11. PICK x : x = r[k]
  OBVIOUS
<1>12. x \in States /\ Fine(x, k)
  <2> HIDE DEF k, Fine
  <2>1. k \in 0 .. k
    BY <1>1
  <2> QED
    BY <1>10, <1>11, <2>1
<1>13. ~(Cardinality(Remaining(x)) + k <= MaxObjects + 3) /\ k # 0
  <2> HIDE DEF k
  <2>1. Cardinality(Remaining(x)) \in Nat
    BY RemainingNat
  <2> QED
    BY <2>1, <1>1, Constants
<1> QED
  BY <1>9, <1>11, <1>12, <1>13

\* Through the next cycle.
LEMMA SteppedToPause ==
  ASSUME NEW s, CollectorInv(s), s.gcstate = "propagate", MarksLeft(s) <= MaxObjects + 2
  PROVE  LET w == StepsTo(s, "pause")
         IN  /\ CollectorInv(w) /\ w.gcstate # "propagate"
             /\ w.gcstate = "pause" => w.tmudata = <<>>
<1> DEFINE k == FullSteps
           Fine(x, i) ==
             /\ CollectorInv(x)
             /\ x.gcstate = "propagate" => MarksLeft(x) + i <= MaxObjects + 2
             /\ x.gcstate = "pause" => x.tmudata = <<>>
           f(x, n) == StepUnless(x, "pause")
           T == [i \in 0 .. k |-> {x \in States : Fine(x, i)}]
           Step == [i \in 1 .. k |-> [x \in T[i - 1] |-> f(x, i)]]
<1>0. s \in States
  BY InvFacts DEF CollectorInv
<1>1. k \in Nat /\ k > MaxObjects + 2
  BY Constants DEF FullSteps
<1>2. s \in T[0]
  <2>1. MarksLeft(s) + 0 <= MaxObjects + 2
    BY <1>0, MarksLeftNat
  <2>2. Fine(s, 0)
    BY <2>1
  <2> HIDE DEF Fine, k
  <2>3. 0 \in 0 .. k
    BY <1>1
  <2> QED
    BY <1>0, <2>2, <2>3
<1>3. ASSUME NEW i \in 1 .. k, NEW x \in T[i - 1]
      PROVE  f(x, i) \in T[i]
  <2> DEFINE y == f(x, i)
  <2> HIDE DEF k
  <2>1. i - 1 \in 0 .. k /\ i \in 0 .. k /\ i \in Nat
    BY <1>1
  <2>2. x \in States /\ Fine(x, i - 1)
    <3> HIDE DEF Fine
    <3> QED
      BY <2>1
  <2>3. CASE x.gcstate = "pause"
    <3>1. y = x
      BY <2>3 DEF StepUnless
    <3>2. Fine(y, i)
      BY <2>2, <2>3, <3>1
    <3> HIDE DEF Fine
    <3> QED
      BY <2>1, <2>2, <3>1, <3>2
  <2>4. CASE x.gcstate # "pause"
    <3>1. y = singlestep(x, 0)
      BY <2>4 DEF StepUnless
    <3> HIDE DEF y, f
    <3>2. /\ CollectorInv(y)
          /\ x.gcstate = "propagate" =>
               \/ y.gcstate = "sweepstring"
               \/ y.gcstate = "propagate" /\ MarksLeft(y) + 1 <= MarksLeft(x)
          /\ x.gcstate = "sweepstring" => y.gcstate = "sweep"
          /\ x.gcstate = "sweep" => y.gcstate \in {"sweep", "finalize"}
          /\ x.gcstate = "finalize" => y.gcstate = "finalize" \/ (y.gcstate = "pause" /\ y.tmudata = <<>>)
      BY <2>2, <3>1, singlestepKeeps
    <3>3. y \in States /\ x.gcstate \in Phases
      BY <2>2, <3>2, InvFacts, FieldsOf DEF CollectorInv
    <3>4. x.gcstate = "propagate" /\ MarksLeft(y) + 1 <= MarksLeft(x) =>
            MarksLeft(y) + i <= MaxObjects + 2
      <4>1. MarksLeft(x) \in Nat /\ MarksLeft(y) \in Nat
        BY <2>2, <3>3, MarksLeftNat
      <4>2. x.gcstate = "propagate" => MarksLeft(x) + (i - 1) <= MaxObjects + 2
        BY <2>2
      <4> HIDE DEF Fine
      <4> QED
        BY <2>1, <4>1, <4>2, Constants
    <3>5. Fine(y, i)
      BY <2>4, <3>2, <3>3, <3>4 DEF Phases
    <3> HIDE DEF Fine
    <3> QED
      BY <2>1, <3>3, <3>5 DEF y
  <2> QED
    BY <2>3, <2>4
<1>4. Within(k, T, Step)
  <2> HIDE DEF T, f
  <2> QED
    BY <1>3 DEF Within
<1>5. PICK m : Repeats(k, T, Step, s, m)
  <2> HIDE DEF T, Step, k
  <2> QED
    BY <1>1, <1>2, <1>4, Repeated
<1>6. m = [i \in 0 .. k |-> IF i = 0 THEN s ELSE f(m[i - 1], i)]
  <2> HIDE DEF T, f
  <2>1. \A i \in 1 .. k : Step[i][m[i - 1]] = f(m[i - 1], i)
    <3> SUFFICES ASSUME NEW i \in 1 .. k PROVE Step[i][m[i - 1]] = f(m[i - 1], i)
      OBVIOUS
    <3>1. i - 1 \in 0 .. k
      BY <1>1
    <3>2. m[i - 1] \in T[i - 1]
      BY <3>1, <1>5 DEF Repeats
    <3> QED
      BY <3>2
  <2> HIDE DEF Step
  <2>2. \A i \in 0 .. k : i # 0 => i \in 1 .. k
    BY <1>1
  <2> QED
    BY <1>5, <2>1, <2>2 DEF Repeats
<1>7. PICK r : r = CHOOSE h : h = [n \in 0 .. k |-> IF n = 0 THEN s ELSE f(h[n - 1], n)]
  OBVIOUS
<1>8. r = [n \in 0 .. k |-> IF n = 0 THEN s ELSE f(r[n - 1], n)]
  <2> HIDE DEF f
  <2> QED
    BY <1>6, <1>7
<1>9. StepsTo(s, "pause") = r[k]
  BY <1>7 DEF StepsTo, k
<1>10. r[k] \in T[k]
  <2>1. r[0] \in T[0]
    <3> HIDE DEF T, f
    <3>1. 0 \in 0 .. k
      BY <1>1
    <3> QED
      BY <1>2, <1>8, <3>1
  <2>2. \A i \in 1 .. k : r[i - 1] \in T[i - 1] => r[i] \in T[i]
    <3> HIDE DEF T
    <3> SUFFICES ASSUME NEW i \in 1 .. k, r[i - 1] \in T[i - 1] PROVE r[i] \in T[i]
      OBVIOUS
    <3>1. i \in 0 .. k /\ i # 0
      BY <1>1
    <3>2. r[i] = f(r[i - 1], i)
      <4> HIDE DEF f
      <4> QED
        BY <1>8, <3>1
    <3> QED
      BY <1>3, <3>2
  <2>3. \A i \in 0 .. k : r[i] \in T[i]
    <3> HIDE DEF T, f
    <3> QED
      BY <1>1, <2>1, <2>2, PassedOn
  <2>4. k \in 0 .. k
    BY <1>1
  <2> QED
    BY <2>3, <2>4
<1>11. PICK x : x = r[k]
  OBVIOUS
<1>12. x \in States /\ Fine(x, k)
  <2> HIDE DEF k, Fine
  <2>1. k \in 0 .. k
    BY <1>1
  <2> QED
    BY <1>10, <1>11, <2>1
<1>13. ~(MarksLeft(x) + k <= MaxObjects + 2)
  <2> HIDE DEF k
  <2>1. MarksLeft(x) \in Nat
    BY <1>12, MarksLeftNat
  <2> QED
    BY <2>1, <1>1, Constants
<1> QED
  BY <1>9, <1>11, <1>12, <1>13

LEMMA luaC_fullgcKeeps ==
  ASSUME NEW s, CollectorInv(s)
  PROVE  CollectorInv(luaC_fullgc(s)) /\ NothingPending(luaC_fullgc(s))
<1>1. PICK a : a = Abandoned(s)
  OBVIOUS
<1>2. CollectorInv(a) /\ a.gcstate \in {"sweepstring", "sweep", "finalize"}
  BY <1>1, AbandonedKeeps
<1>3. PICK b : b = StepsTo(a, "finalize")
  OBVIOUS
<1>4. CollectorInv(b) /\ b.gcstate = "finalize"
  BY <1>2, <1>3, SteppedToFinalize
<1>5. PICK c : c = markroot(b)
  OBVIOUS
<1>6. CollectorInv(c) /\ c.gcstate = "propagate" /\ MarksLeft(c) <= MaxObjects + 2
  BY <1>4, <1>5, markrootKeeps
<1>7. luaC_fullgc(s) = StepsTo(c, "pause")
  BY <1>1, <1>3, <1>5 DEF luaC_fullgc
<1> QED
  BY <1>6, <1>7, SteppedToPause DEF NothingPending

-----------------------------------------------------------------------------
(* Allocation.                                                             *)

\* What is alive refers to what is alive.
LEMMA StrongAlive ==
  ASSUME NEW s, Graph(s), NEW o \in Ids, Alive(s, o)
  PROVE  /\ \A p \in Strong(s, o) : p = 0 \/ (p \in Ids /\ Alive(s, p))
         /\ \A p \in Referred(s, o) : p \in Ids /\ Exists(s, p)
<1>1. s \in States /\ RootsAlive(s) /\ AllRefer(s) /\ OpenApart(s) /\ Plain(s)
  BY DEF Graph
<1>2. Refers(s, o) /\ s.obj[o].kind \in Kinds /\ Exists(s, o) /\ s.obj[o].val \in Names
  BY <1>1, FieldsOf DEF AllRefer, Alive
<1>3. \A v : Value(s, v) => v = 0 \/ (v \in Ids /\ Alive(s, v))
  BY DEF Value
<1>4. GlobalTable \in Ids /\ Alive(s, GlobalTable)
  BY <1>1, Constants DEF RootsAlive
<1>5. \A p \in ToSet(s.stack) : Value(s, p)
  <2>1. DOMAIN s.stack = Places
    BY <1>1, FieldsOf
  <2> QED
    BY <2>1, <1>1 DEF RootsAlive, ToSet
<1>6. s.obj[o].kind # "upval" \/ ~IsOpenUpval(s, o) =>
        s.obj[o].val = 0 \/ (s.obj[o].val \in Ids /\ Alive(s, s.obj[o].val))
  <2>1. CASE s.obj[o].kind \in {"table", "weak", "thread"}
    BY <2>1, <1>2, <1>3 DEF Refers
  <2>2. CASE s.obj[o].kind \in {"closure", "udata", "string"}
    BY <2>2, <1>2 DEF Refers, Names
  <2>3. CASE s.obj[o].kind = "upval" /\ ~IsOpenUpval(s, o)
    <3>1. Held(s, o) = s.obj[o].val
      BY <2>3 DEF Held
    <3> QED
      BY <3>1, <2>3, <1>2, <1>3 DEF Refers
  <2> QED
    BY <2>1, <2>2, <2>3, <1>2 DEF Kinds, Exists, IsOpenUpval
<1>7. \A p \in Strong(s, o) : p = 0 \/ (p \in Ids /\ Alive(s, p))
  <2>1. CASE s.obj[o].kind = "upval"
    <3>1. Strong(s, o) = {Held(s, o)}
      BY <2>1 DEF Strong
    <3> QED
      BY <3>1, <2>1, <1>2, <1>3 DEF Refers
  <2>2. CASE s.obj[o].kind = "thread"
    BY <2>2, <1>3, <1>4, <1>5, <1>6 DEF Strong
  <2>3. CASE s.obj[o].kind \notin {"upval", "thread"}
    <3>1. Strong(s, o) \subseteq {s.obj[o].val}
      BY <2>3 DEF Strong
    <3> QED
      BY <3>1, <2>3, <1>6
  <2> QED
    BY <2>1, <2>2, <2>3
<1>8. \A p \in Referred(s, o) : p \in Ids /\ Exists(s, p)
  <2> SUFFICES ASSUME NEW p \in Referred(s, o) PROVE p \in Ids /\ Exists(s, p)
    OBVIOUS
  <2>1. CASE p = s.obj[o].val
    <3>1. p # 0
      BY DEF Referred
    <3>2. ~IsOpenUpval(s, o)
      BY <3>1, <2>1, <1>1 DEF Plain
    <3> QED
      BY <3>1, <3>2, <2>1, <1>6 DEF Alive
  <2>2. CASE p \in Strong(s, o)
    BY <2>2, <1>7 DEF Referred, Alive
  <2>3. CASE IsOpenUpval(s, o) /\ p = s.obj[o].th
    BY <2>3, <1>1 DEF OpenApart, Exists
  <2> QED
    BY <2>1, <2>2, <2>3 DEF Referred
<1> QED
  BY <1>7, <1>8

\* A new object, white: its value is one, and it is in its list.
NewRefers(s, w, o) ==
  LET v == w.obj[o].val IN
  /\ w.obj[o].kind \in {"table", "weak", "thread"} => Value(s, v)
  /\ w.obj[o].kind = "closure" => v \in Ids /\ Alive(s, v) /\ s.obj[v].kind = "upval"
  /\ w.obj[o].kind = "udata" => v \in Ids /\ Alive(s, v) /\ s.obj[v].kind \in {"table", "weak"}
  /\ w.obj[o].kind = "string" => v = 0
  /\ w.obj[o].kind = "upval" =>
       /\ IsOpenUpval(w, o) /\ v = 0 /\ w.obj[o].slot \in Places /\ w.obj[o].th \in Ids
       /\ s.obj[w.obj[o].th].kind = "thread"
       /\ UpvalsAt(s, w.obj[o].th, w.obj[o].slot) = {}
       /\ Value(s, UpvalSlot(s, w.obj[o].th, w.obj[o].slot))
NewListed(s, w, o) ==
  IF w.obj[o].kind = "string" THEN w.rootgc = s.rootgc /\ w.strt = s.strt \cup {o}
  ELSE IF w.obj[o].kind = "upval" THEN w.rootgc = s.rootgc /\ w.strt = s.strt
  ELSE /\ w.strt = s.strt
       /\ \A x : x \in ToSet(w.rootgc) <=> x = o \/ x \in ToSet(s.rootgc)
       /\ IsInjective(w.rootgc) <=> o \notin ToSet(s.rootgc)
       /\ \A z : z # o => After(s.rootgc, z) \subseteq After(w.rootgc, z)
Adds(s, w, o) ==
  /\ w \in States /\ o \in Ids /\ ~Exists(s, o) /\ Exists(w, o)
  /\ w.obj[o].color = s.currentwhite /\ NewRefers(s, w, o) /\ NewListed(s, w, o)
  /\ \A p \in Ids : p # o => w.obj[p] = s.obj[p]
  /\ w.tmudata = s.tmudata /\ w.gray = s.gray /\ w.grayagain = s.grayagain /\ w.weak = s.weak
  /\ w.currentwhite = s.currentwhite /\ w.gcstate = s.gcstate /\ w.sweepgc = s.sweepgc
  /\ w.stack = s.stack

LEMMA AddsKeeps ==
  ASSUME NEW s, NEW w, NEW o, CollectorInv(s), Adds(s, w, o)
  PROVE  CollectorInv(w) /\ Alive(w, o)
<1>1. s \in States /\ Graph(s) /\ RootLists(s, {}) /\ OpenApart(s) /\ AllRefer(s) /\ RootsAlive(s)
      /\ BlackKinds(s) /\ Plain(s) /\ \A p \in ToSet(s.tmudata) : p \in Ids
  BY InvFacts DEF CollectorInv
<1>2. /\ w \in States /\ o \in Ids /\ ~Exists(s, o) /\ Exists(w, o)
      /\ w.obj[o].color = s.currentwhite /\ NewRefers(s, w, o) /\ NewListed(s, w, o)
      /\ \A p \in Ids : p # o => w.obj[p] = s.obj[p]
      /\ w.tmudata = s.tmudata /\ w.gray = s.gray /\ w.grayagain = s.grayagain /\ w.weak = s.weak
      /\ w.currentwhite = s.currentwhite /\ w.gcstate = s.gcstate /\ w.sweepgc = s.sweepgc
      /\ w.stack = s.stack
  BY DEF Adds
<1>3. s.currentwhite \in Whites /\ otherwhite(w) = otherwhite(s) /\ otherwhite(s) # s.currentwhite
  BY <1>1, <1>2, Colours, FieldsOf DEF otherwhite
<1>4. Alive(w, o) /\ iswhite(w, o) /\ w.obj[o].color \notin {"black", "gray"}
  BY <1>2, <1>3 DEF Alive, isdead, iswhite, Whites
<1>5. \A p \in Ids : p # o =>
        /\ w.obj[p] = s.obj[p]
        /\ Exists(w, p) <=> Exists(s, p)
        /\ IsOpenUpval(w, p) <=> IsOpenUpval(s, p)
        /\ iswhite(w, p) <=> iswhite(s, p)
        /\ isdead(w, p) <=> isdead(s, p)
        /\ Leaf(w, p) <=> Leaf(s, p)
        /\ Alive(w, p) <=> Alive(s, p)
  BY <1>2, <1>3 DEF Exists, IsOpenUpval, iswhite, isdead, Leaf, Alive
<1>6. \A v : Value(s, v) => Value(w, v) /\ v # o
  BY <1>2, <1>5, Constants DEF Value, Alive
<1>7. \A p \in Ids : Exists(s, p) => p # o
  BY <1>2
<1>8. \A p \in Ids : Exists(s, p) => Held(w, p) = Held(s, p)
  <2> SUFFICES ASSUME NEW p \in Ids, Exists(s, p) PROVE Held(w, p) = Held(s, p)
    OBVIOUS
  <2>1. p # o
    BY <1>7
  <2>2. CASE IsOpenUpval(s, p)
    <3>1. s.obj[p].th \in Ids /\ s.obj[p].th # o
      BY <2>2, <1>1, <1>2 DEF OpenApart, Exists
    <3> QED
      BY <3>1, <2>1, <2>2, <1>2, <1>5 DEF Held, UpvalSlot
  <2>3. CASE ~IsOpenUpval(s, p)
    BY <2>1, <2>3, <1>5 DEF Held
  <2> QED
    BY <2>2, <2>3
<1>9. RootsAlive(w)
  <2>1. Main # o /\ GlobalTable # o /\ Main \in Ids /\ GlobalTable \in Ids
    BY <1>1, <1>7, Constants DEF RootsAlive, Alive
  <2> QED
    BY <2>1, <1>1, <1>2, <1>5, <1>6 DEF RootsAlive
<1>10. AllRefer(w)
  <2> SUFFICES ASSUME NEW p \in Ids, Alive(w, p) PROVE Refers(w, p)
    BY DEF AllRefer
  <2>1. CASE p # o
    <3>1. Refers(s, p) /\ w.obj[p] = s.obj[p] /\ Exists(s, p)
      BY <2>1, <1>1, <1>5 DEF AllRefer, Alive
    <3>2. Held(w, p) = Held(s, p)
      BY <3>1, <1>8
    <3>3. s.obj[p].val \in Names
      BY <1>1, FieldsOf
    <3>4. \A v \in Ids : Alive(s, v) => Alive(w, v) /\ w.obj[v].kind = s.obj[v].kind
      BY <1>2, <1>5 DEF Alive
    <3> QED
      BY <3>1, <3>2, <3>3, <3>4, <1>6 DEF Refers, Names
  <2>2. CASE p = o
    <3>1. \A v \in Ids : Alive(s, v) => v # 0 /\ Alive(w, v) /\ w.obj[v].kind = s.obj[v].kind
      BY <1>2, <1>5, Constants DEF Alive
    <3>2. w.obj[o].kind = "upval" => Value(w, Held(w, o))
      <4> SUFFICES ASSUME w.obj[o].kind = "upval" PROVE Value(w, Held(w, o))
        OBVIOUS
      <4>1. PICK t : t = w.obj[o].th
        OBVIOUS
      <4>2. PICK i : i = w.obj[o].slot
        OBVIOUS
      <4>3. IsOpenUpval(w, o) /\ t \in Ids /\ s.obj[t].kind = "thread" /\ Value(s, UpvalSlot(s, t, i))
        BY <4>1, <4>2, <1>2 DEF NewRefers
      <4>4. t # o
        BY <4>3, <1>2 DEF Exists
      <4>5. UpvalSlot(w, t, i) = UpvalSlot(s, t, i)
        BY <4>3, <4>4, <1>2 DEF UpvalSlot
      <4>6. Held(w, o) = UpvalSlot(w, t, i)
        BY <4>1, <4>2, <4>3 DEF Held
      <4> QED
        BY <4>3, <4>5, <4>6, <1>6
    <3> QED
      BY <3>1, <3>2, <2>2, <1>2, <1>6 DEF Refers, NewRefers
  <2> QED
    BY <2>1, <2>2
<1>11. OpenApart(w)
  <2> SUFFICES ASSUME NEW u \in Ids, IsOpenUpval(w, u)
               PROVE  /\ w.obj[u].th \in Ids /\ w.obj[w.obj[u].th].kind = "thread"
                      /\ \A v \in Ids : IsOpenUpval(w, v) /\ w.obj[v].th = w.obj[u].th
                                          /\ w.obj[v].slot = w.obj[u].slot => u = v
    BY DEF OpenApart
  <2>1. w.obj[u].th \in Ids /\ s.obj[w.obj[u].th].kind = "thread"
    <3>1. CASE u = o
      BY <3>1, <1>2 DEF NewRefers, IsOpenUpval
    <3>2. CASE u # o
      BY <3>2, <1>1, <1>5 DEF OpenApart
    <3> QED
      BY <3>1, <3>2
  <2>2. w.obj[w.obj[u].th].kind = "thread"
    BY <2>1, <1>2 DEF Exists
  <2>3. \A v \in Ids : IsOpenUpval(s, v) /\ IsOpenUpval(w, o) =>
          ~(s.obj[v].th = w.obj[o].th /\ s.obj[v].slot = w.obj[o].slot)
    BY <1>2 DEF NewRefers, UpvalsAt, OpenOf, IsOpenUpval
  <2>4. ASSUME NEW v \in Ids, IsOpenUpval(w, v), w.obj[v].th = w.obj[u].th,
               w.obj[v].slot = w.obj[u].slot
        PROVE  u = v
    <3>1. CASE u # o /\ v # o
      BY <3>1, <2>4, <1>1, <1>5 DEF OpenApart
    <3>2. CASE u = o /\ v # o
      BY <3>2, <2>3, <2>4, <1>5
    <3>3. CASE u # o /\ v = o
      BY <3>3, <2>3, <2>4, <1>5
    <3> QED
      BY <3>1, <3>2, <3>3
  <2> QED
    BY <2>1, <2>2, <2>4
<1>12. BlackKinds(w)
  BY <1>1, <1>4, <1>5 DEF BlackKinds
<1>13. Plain(w)
  BY <1>1, <1>2, <1>5 DEF Plain, NewRefers, IsOpenUpval
<1>14. Graph(w)
  BY <1>2, <1>9, <1>10, <1>11, <1>12, <1>13 DEF Graph
<1>15. o \notin ToSet(s.rootgc) /\ o \notin ToSet(s.tmudata)
  BY <1>1, <1>2 DEF RootLists, InRootgc, Alive
<1>16. RootLists(w, {})
  <2>1. \A p \in Ids : p # o => (InRootgc(w, p) <=> InRootgc(s, p))
    BY <1>2, <1>5 DEF InRootgc
  <2>2. InRootgc(w, o) <=> w.obj[o].kind \notin {"string", "upval"}
    BY <1>2, <1>15 DEF InRootgc, NewRefers, IsOpenUpval
  <2>3. /\ IsInjective(w.rootgc)
        /\ \A p \in Ids : p \in ToSet(w.rootgc) <=> InRootgc(w, p)
        /\ \A p \in Ids : p \in w.strt <=> w.obj[p].kind = "string"
    <3>1. CASE w.obj[o].kind = "string"
      <4>1. w.rootgc = s.rootgc /\ w.strt = s.strt \cup {o}
        BY <3>1, <1>2 DEF NewListed
      <4> QED
        BY <3>1, <4>1, <1>1, <1>2, <1>15, <2>1, <2>2 DEF RootLists
    <3>2. CASE w.obj[o].kind = "upval"
      <4>1. w.rootgc = s.rootgc /\ w.strt = s.strt
        BY <3>2, <1>2 DEF NewListed
      <4>2. o \notin s.strt
        BY <1>1, <1>2 DEF RootLists, Exists
      <4> QED
        BY <3>2, <4>1, <4>2, <1>1, <1>2, <1>15, <2>1, <2>2 DEF RootLists
    <3>3. CASE w.obj[o].kind \notin {"string", "upval"}
      <4>1. /\ w.strt = s.strt
            /\ \A x : x \in ToSet(w.rootgc) <=> x = o \/ x \in ToSet(s.rootgc)
            /\ IsInjective(w.rootgc)
        BY <3>3, <1>2, <1>15 DEF NewListed
      <4>2. o \notin s.strt
        BY <1>1, <1>2 DEF RootLists, Exists
      <4> QED
        BY <3>3, <4>1, <4>2, <1>1, <1>2, <1>15, <2>1, <2>2 DEF RootLists
    <3> QED
      BY <3>1, <3>2, <3>3
  <2>4. \A p \in ToSet(s.tmudata) : Alive(w, p) /\ w.obj[p].kind = "udata"
    BY <1>1, <1>5, <1>15 DEF RootLists
  <2> QED
    BY <2>3, <2>4, <1>1, <1>2 DEF RootLists
<1>17. CASE s.gcstate = "propagate"
  <2>1. NoneDead(s) /\ GrayLists(s) /\ NoGrayLeaf(s, Again(s)) /\ Closed(s, Again(s))
        /\ ~iswhite(s, Main)
    BY <1>17, InvFacts DEF CollectorInv, Marking, Marked
  <2>2. NoneDead(w)
    BY <2>1, <1>4, <1>5 DEF NoneDead, Alive
  <2>3. ~iswhite(w, Main)
    <3>1. Main # o /\ Main \in Ids
      BY <1>1, <1>7, Constants DEF RootsAlive, Alive
    <3> QED
      BY <3>1, <2>1, <1>5
  <2>4. ~Listed(s, o)
    BY <2>1, <1>2 DEF GrayLists, Listed, Traversed, Exists
  <2>5. GrayLists(w)
    <3>1. \A p : Listed(w, p) <=> Listed(s, p)
      BY <1>2 DEF Listed
    <3>2. s.gray \in Seq(Ids) /\ s.grayagain \in Seq(Ids) /\ s.weak \in Seq(Ids)
      BY <1>1, FieldsOf
    <3>3. \A p : Listed(s, p) => p \in Ids /\ p # o
      BY <3>2, <2>4 DEF Listed, ToSet
    <3>4. ListsApart(w)
      BY <1>2, <2>1 DEF GrayLists, ListsApart
    <3>5. \A p \in Ids : Listed(w, p) => w.obj[p].color = "gray"
      BY <3>1, <3>3, <1>5, <2>1 DEF GrayLists
    <3>6. \A p \in Ids : w.obj[p].color = "gray" /\ w.obj[p].kind \in Traversed => Listed(w, p)
      BY <3>1, <1>4, <1>5, <2>1 DEF GrayLists
    <3>7. /\ \A p \in ToSet(w.gray) : w.obj[p].kind \in Traversed
          /\ \A p \in ToSet(w.grayagain) : w.obj[p].kind \in {"table", "thread"}
          /\ \A p \in ToSet(w.weak) : w.obj[p].kind = "weak"
      BY <3>3, <1>2, <2>1 DEF GrayLists, Listed
    <3> QED
      BY <3>4, <3>5, <3>6, <3>7 DEF GrayLists
  <2>6. Again(w) = Again(s)
    <3>1. GrayUpvals(w) = GrayUpvals(s)
      BY <1>2, <1>4, <1>5 DEF GrayUpvals, IsOpenUpval, Exists
    <3> QED
      BY <3>1, <1>2 DEF Again
  <2>7. NoGrayLeaf(w, Again(w))
    BY <2>1, <2>6, <1>4, <1>5 DEF NoGrayLeaf
  <2>8. Closed(w, Again(w))
    <3> SUFFICES ASSUME NEW p \in Ids, p \notin Again(s), Exists(w, p), ~iswhite(w, p),
                        p \notin ToSet(w.gray), w.obj[p].kind # "weak"
                 PROVE  Done(w, p)
      BY <2>6 DEF Closed
    <3>1. p # o
      BY <1>4
    <3>2. Exists(s, p) /\ Alive(s, p) /\ w.obj[p] = s.obj[p]
      BY <3>1, <1>5, <2>1 DEF NoneDead, Alive
    <3>3. Done(s, p)
      BY <3>1, <3>2, <1>2, <1>5, <2>1 DEF Closed
    <3>4. \A q \in Strong(s, p) : q = 0 \/ (q \in Ids /\ Alive(s, q))
      BY <3>2, <1>1, StrongAlive
    <3>5. Strong(w, p) = Strong(s, p)
      <4>1. Held(w, p) = Held(s, p)
        BY <3>2, <1>8
      <4> QED
        BY <3>2, <4>1, <1>2 DEF Strong
    <3>6. \A q \in Strong(s, p) : q \in Ids => q # o
      BY <3>4, <1>7, Constants DEF Alive
    <3> QED
      BY <3>3, <3>5, <3>6, <1>5 DEF Done
  <2> QED
    BY <1>2, <1>4, <1>14, <1>16, <1>17, <2>2, <2>3, <2>5, <2>7, <2>8
       DEF CollectorInv, InvBut, Marking, Marked
<1>18. CASE s.gcstate # "propagate"
  <2>1. Sweeping(s, {})
    BY <1>18, InvFacts DEF CollectorInv
  <2>2. /\ \A x \in ToSet(s.rootgc) : x \in ToSet(w.rootgc)
        /\ \A z : z # o => After(s.rootgc, z) \subseteq After(w.rootgc, z)
    BY <1>2 DEF NewListed
  <2>3. s.gcstate \in {"sweepstring", "sweep"} =>
          s.sweepgc # o /\ (s.sweepgc = 0 \/ s.sweepgc \in ToSet(w.rootgc))
    BY <2>1, <2>2, <1>2, <1>15, Constants DEF Sweeping
  <2>4. \A p : Ahead(s, p) => Ahead(w, p)
    BY <2>2, <2>3, <1>2 DEF Ahead
  <2>5. \A p \in Ids : p # o /\ ToSweep(s, p) => ToSweep(w, p)
    BY <2>4, <1>2, <1>5 DEF ToSweep
  <2>6. AsNew(w, {})
    BY <1>2, <1>5, <2>1, <2>5 DEF AsNew, Sweeping
  <2> QED
    BY <1>2, <1>4, <1>14, <1>16, <1>18, <2>3, <2>6 DEF CollectorInv, InvBut, Sweeping
<1> QED
  BY <1>17, <1>18

\* What an operation of the program leaves as the collector needs it.
Kept(s, r) == CollectorInv(r) /\ r.gcstate = s.gcstate /\ r.tmudata = s.tmudata

LEMMA NewIdIs ==
  ASSUME NEW s, FreeIds(s) # {}
  PROVE  NewId(s) \in Ids /\ ~Exists(s, NewId(s)) /\ NewId(s) \in FreeIds(s)
<1>1. FreeIds(s) \subseteq Nat /\ FreeIds(s) \subseteq Ids
  BY Constants DEF FreeIds
<1>2. Min(FreeIds(s)) \in FreeIds(s)
  BY <1>1, LeastOf
<1> QED
  BY <1>1, <1>2 DEF NewId, FreeIds

\* There is room for one object, for two.
LEMMA RoomIs ==
  ASSUME NEW s
  PROVE  /\ Cardinality(FreeIds(s)) >= 1 => FreeIds(s) # {}
         /\ Cardinality(FreeIds(s)) >= 2 => FreeIds(s) \ {NewId(s)} # {}
<1> DEFINE F == FreeIds(s)
<1>1. IsFiniteSet(F)
  BY Constants, FS_Subset DEF FreeIds
<1>2. ~(0 >= 1) /\ ~(0 >= 2) /\ ~(1 >= 2) /\ Cardinality({}) = 0
  BY FS_EmptySet
<1> HIDE DEF F
<1>3. Cardinality(F) >= 1 => F # {}
  BY <1>2
<1>4. Cardinality(F) >= 2 => F \ {NewId(s)} # {}
  <2> SUFFICES ASSUME Cardinality(F) >= 2, F \ {NewId(s)} = {} PROVE FALSE
    OBVIOUS
  <2>1. F = {} \/ F = {NewId(s)}
    OBVIOUS
  <2>2. Cardinality({NewId(s)}) = 1
    BY FS_Singleton
  <2> QED
    BY <2>1, <2>2, <1>2
<1> QED
  BY <1>3, <1>4 DEF F

LEMMA ObjectIs ==
  ASSUME NEW s \in States, NEW kind \in Kinds, NEW val \in Names
  PROVE  LET e == Object(kind, s.currentwhite, val)
         IN  /\ e \in Objects /\ e.kind = kind /\ e.color = s.currentwhite /\ e.val = val
             /\ e.slot = 0 /\ e.th = 0
<1>1. s.currentwhite \in Colors
  BY FieldsOf DEF Colors, Whites
<1> QED
  BY <1>1 DEF Object, Objects, Names, Slots

LEMMA AllocatedIs ==
  ASSUME NEW s \in States, NEW o \in Ids, NEW e \in Objects
  PROVE  LET w == [s EXCEPT !.obj[o] = e]
         IN  /\ w \in States /\ w.obj[o] = e /\ \A p \in Ids : p # o => w.obj[p] = s.obj[p]
             /\ w.rootgc = s.rootgc /\ w.strt = s.strt /\ w.tmudata = s.tmudata
             /\ w.gray = s.gray /\ w.grayagain = s.grayagain /\ w.weak = s.weak
             /\ w.currentwhite = s.currentwhite /\ w.gcstate = s.gcstate
             /\ w.sweepgc = s.sweepgc /\ w.stack = s.stack
<1> DEFINE ob == [s.obj EXCEPT ![o] = e]
           w == [s EXCEPT !.obj = ob]
<1>1. w = [s EXCEPT !.obj[o] = e]
  OBVIOUS
<1>2. ob \in [Ids -> Objects] /\ ob[o] = e /\ \A p \in Ids : p # o => ob[p] = s.obj[p]
  BY DEF States
<1> HIDE DEF ob
<1>3. w \in States
  BY <1>2 DEF States
<1>4. w.obj = ob
  BY DEF States
<1>5. /\ w.rootgc = s.rootgc /\ w.strt = s.strt /\ w.tmudata = s.tmudata
      /\ w.gray = s.gray /\ w.grayagain = s.grayagain /\ w.weak = s.weak
      /\ w.currentwhite = s.currentwhite /\ w.gcstate = s.gcstate
      /\ w.sweepgc = s.sweepgc /\ w.stack = s.stack
  BY DEF States
<1> QED
  BY <1>1, <1>2, <1>3, <1>4, <1>5

\* luaC_link: a new object at the head of the list.
LEMMA LinkAdds ==
  ASSUME NEW s, CollectorInv(s), NEW o \in Ids, ~Exists(s, o),
         NEW kind \in {"table", "weak", "thread", "closure"}, NEW val \in Names,
         NEW t \in States, t.obj[o] = Object(kind, s.currentwhite, val),
         \A p \in Ids : p # o => t.obj[p] = s.obj[p],
         t.rootgc = <<o>> \o s.rootgc, t.strt = s.strt, t.tmudata = s.tmudata,
         t.gray = s.gray, t.grayagain = s.grayagain, t.weak = s.weak,
         t.currentwhite = s.currentwhite, t.gcstate = s.gcstate, t.sweepgc = s.sweepgc,
         t.stack = s.stack,
         kind = "closure" => val \in Ids /\ Alive(s, val) /\ s.obj[val].kind = "upval",
         kind # "closure" => Value(s, val)
  PROVE  Adds(s, t, o)
<1>1. s \in States /\ s.rootgc \in Seq(Ids) /\ IsInjective(s.rootgc)
  BY InvFacts, FieldsOf DEF CollectorInv, RootLists
<1>2. kind \in Kinds
  BY DEF Kinds
<1>3. t.obj[o].kind = kind /\ t.obj[o].color = s.currentwhite /\ t.obj[o].val = val
  BY <1>1, <1>2, ObjectIs
<1>4. Exists(t, o)
  BY <1>3 DEF Exists
<1>5. NewRefers(s, t, o)
  BY <1>3 DEF NewRefers
<1>6. /\ <<o>> \o s.rootgc \in Seq(Ids) /\ Inserted(s.rootgc, <<o>> \o s.rootgc, 1, o)
  BY <1>1, PushIs, PushInserts
<1>7. PICK q : q = <<o>> \o s.rootgc
  OBVIOUS
<1>8. /\ \A x : x \in ToSet(q) <=> x = o \/ x \in ToSet(s.rootgc)
      /\ IsInjective(q) <=> o \notin ToSet(s.rootgc)
      /\ \A z : z # o => After(s.rootgc, z) \subseteq After(q, z)
  <2>1. q \in Seq(Ids) /\ Inserted(s.rootgc, q, 1, o)
    BY <1>6, <1>7
  <2>2. /\ \A x : x \in ToSet(q) <=> x = o \/ x \in ToSet(s.rootgc)
        /\ IsInjective(q) <=> IsInjective(s.rootgc) /\ o \notin ToSet(s.rootgc)
        /\ \A z : z # o => /\ After(s.rootgc, z) \subseteq After(q, z)
                           /\ After(q, z) \subseteq After(s.rootgc, z) \cup {o}
    BY <1>1, <2>1, InsertedIs
  <2> QED
    BY <2>2, <1>1
<1>9. NewListed(s, t, o)
  BY <1>3, <1>7, <1>8 DEF NewListed
<1> QED
  BY <1>3, <1>4, <1>5, <1>9 DEF Adds

LEMMA LinkIs ==
  ASSUME NEW s, s \in States, FreeIds(s) # {}, NEW kind \in {"table", "weak", "thread", "closure"}
  PROVE  LET w == luaC_link(s, kind, 0)
             o == NewId(s)
         IN  /\ w \in States /\ w.obj[o] = Object(kind, s.currentwhite, 0)
             /\ \A p \in Ids : p # o => w.obj[p] = s.obj[p]
             /\ w.rootgc = <<o>> \o s.rootgc /\ w.strt = s.strt /\ w.tmudata = s.tmudata
             /\ w.gray = s.gray /\ w.grayagain = s.grayagain /\ w.weak = s.weak
             /\ w.currentwhite = s.currentwhite /\ w.gcstate = s.gcstate
             /\ w.sweepgc = s.sweepgc /\ w.stack = s.stack
<1> DEFINE o == NewId(s)
           e == Object(kind, s.currentwhite, 0)
           t == [s EXCEPT !.obj[o] = e]
           q == <<o>> \o s.rootgc
           w == [t EXCEPT !.rootgc = q]
<1>1. o \in Ids /\ s.rootgc \in Seq(Ids)
  BY NewIdIs, FieldsOf
<1>2. kind \in Kinds /\ 0 \in Names
  BY DEF Kinds, Names
<1>3. e \in Objects
  BY <1>2, ObjectIs
<1> HIDE DEF e
<1>4. /\ t \in States /\ t.obj[o] = e /\ \A p \in Ids : p # o => t.obj[p] = s.obj[p]
      /\ t.rootgc = s.rootgc /\ t.strt = s.strt /\ t.tmudata = s.tmudata
      /\ t.gray = s.gray /\ t.grayagain = s.grayagain /\ t.weak = s.weak
      /\ t.currentwhite = s.currentwhite /\ t.gcstate = s.gcstate
      /\ t.sweepgc = s.sweepgc /\ t.stack = s.stack
  BY <1>1, <1>3, AllocatedIs
<1>5. luaC_link(s, kind, 0) = [t EXCEPT !.rootgc = <<o>> \o t.rootgc]
  BY DEF luaC_link, Linked, Allocated, e
<1>6. q \in Seq(Ids)
  BY <1>1, PushIs
<1> HIDE DEF t, o, q
<1>7. luaC_link(s, kind, 0) = w
  BY <1>4, <1>5 DEF q
<1>8. w \in States
  BY <1>4, <1>6 DEF States
<1>9. /\ w.obj = t.obj /\ w.rootgc = q /\ w.strt = t.strt /\ w.tmudata = t.tmudata
      /\ w.gray = t.gray /\ w.grayagain = t.grayagain /\ w.weak = t.weak
      /\ w.currentwhite = t.currentwhite /\ w.gcstate = t.gcstate
      /\ w.sweepgc = t.sweepgc /\ w.stack = t.stack
  BY <1>4 DEF States
<1> HIDE DEF w
<1> QED
  BY <1>4, <1>7, <1>8, <1>9 DEF o, q, e

\* A new object on the stack.
LEMMA AddedKept ==
  ASSUME NEW s, NEW t, NEW o, CollectorInv(s), Adds(s, t, o), t.obj[o].kind # "upval",
         NEW i \in Places
  PROVE  Kept(s, Stored(t, i, o)) /\ Kept(s, t)
<1>1. CollectorInv(t) /\ Alive(t, o)
  BY AddsKeeps
<1>2. Value(t, o) /\ t.gcstate = s.gcstate /\ t.tmudata = s.tmudata
  BY <1>1 DEF Adds, Value
<1> QED
  BY <1>1, <1>2, StoredKeeps DEF Kept

LEMMA NewKept ==
  ASSUME NEW s, CollectorInv(s), FreeIds(s) # {}, NEW kind \in {"table", "weak", "thread"},
         NEW i \in Places
  PROVE  /\ Kept(s, New(s, kind, i))
         /\ FreeIds(s) \ {NewId(s)} \subseteq FreeIds(New(s, kind, i))
         /\ New(s, kind, i).stack = [s.stack EXCEPT ![i] = NewId(s)]
         /\ New(s, kind, i).obj[NewId(s)].kind = kind
         /\ \A p \in Ids : p # NewId(s) => New(s, kind, i).obj[p] = s.obj[p]
<1> DEFINE o == NewId(s)
           t == luaC_link(s, kind, 0)
<1>1. s \in States /\ o \in Ids /\ ~Exists(s, o) /\ 0 \in Names /\ kind \in Kinds
  BY InvFacts, NewIdIs DEF CollectorInv, Names, Kinds
<1>2. /\ t \in States /\ t.obj[o] = Object(kind, s.currentwhite, 0)
      /\ \A p \in Ids : p # o => t.obj[p] = s.obj[p]
      /\ t.rootgc = <<o>> \o s.rootgc /\ t.strt = s.strt /\ t.tmudata = s.tmudata
      /\ t.gray = s.gray /\ t.grayagain = s.grayagain /\ t.weak = s.weak
      /\ t.currentwhite = s.currentwhite /\ t.gcstate = s.gcstate
      /\ t.sweepgc = s.sweepgc /\ t.stack = s.stack
  BY <1>1, LinkIs
<1>3. Value(s, 0)
  BY DEF Value
<1> HIDE DEF t, o
<1>4. Adds(s, t, o)
  BY <1>1, <1>2, <1>3, LinkAdds
<1>5. t.obj[o].kind = kind
  BY <1>1, <1>2, ObjectIs
<1>6. New(s, kind, i) = Stored(t, i, o)
  BY DEF New, t, o
<1>7. Stored(t, i, o).obj = t.obj /\ Stored(t, i, o).stack = [s.stack EXCEPT ![i] = o]
  BY <1>2 DEF Stored, States
<1>8. FreeIds(s) \ {o} \subseteq FreeIds(Stored(t, i, o))
  BY <1>2, <1>7, Constants DEF FreeIds, Exists
<1>9. Kept(s, New(s, kind, i))
  BY <1>4, <1>5, <1>6, AddedKept
<1> QED
  BY <1>2, <1>5, <1>6, <1>7, <1>8, <1>9 DEF o

\* luaS_newudata: after the main thread in the list, with the globals for
\* its environment.
LEMMA NewUdataKept ==
  ASSUME NEW s, CollectorInv(s), FreeIds(s) # {}, NEW gc \in BOOLEAN, NEW i \in Places
  PROVE  LET w == Stored(NewUdata(s, gc), i, NewId(s))
         IN  /\ Kept(s, w) /\ FreeIds(s) \ {NewId(s)} \subseteq FreeIds(w)
             /\ w.stack = [s.stack EXCEPT ![i] = NewId(s)] /\ w.obj[NewId(s)].kind = "udata"
             /\ Alive(w, NewId(s)) /\ NewId(s) \in Ids
<1> DEFINE o == NewId(s)
           e == Object("udata", s.currentwhite, GlobalTable)
           d == [e EXCEPT !.gc = gc]
           t == [s EXCEPT !.obj[o] = d]
           q == AfterMain(s.rootgc, o)
           w == [t EXCEPT !.rootgc = q]
<1>1. s \in States /\ o \in Ids /\ ~Exists(s, o) /\ Graph(s) /\ RootLists(s, {}) /\ RootsAlive(s)
  BY InvFacts, NewIdIs DEF CollectorInv
<1>2. "udata" \in Kinds /\ GlobalTable \in Names
  BY Constants DEF Kinds, Names
<1>3. e \in Objects /\ e.kind = "udata" /\ e.color = s.currentwhite /\ e.val = GlobalTable
  BY <1>1, <1>2, ObjectIs
<1> HIDE DEF e
<1>4. d \in Objects /\ d.kind = "udata" /\ d.color = s.currentwhite /\ d.val = GlobalTable
  BY <1>3 DEF Objects
<1> HIDE DEF d
<1>5. /\ t \in States /\ t.obj[o] = d /\ \A p \in Ids : p # o => t.obj[p] = s.obj[p]
      /\ t.rootgc = s.rootgc /\ t.strt = s.strt /\ t.tmudata = s.tmudata
      /\ t.gray = s.gray /\ t.grayagain = s.grayagain /\ t.weak = s.weak
      /\ t.currentwhite = s.currentwhite /\ t.gcstate = s.gcstate
      /\ t.sweepgc = s.sweepgc /\ t.stack = s.stack
  BY <1>1, <1>4, AllocatedIs
<1> HIDE DEF o
<1>6. NewUdata(s, gc) = w
  <2>1. Allocated(s, "udata", GlobalTable) = [s EXCEPT !.obj = [s.obj EXCEPT ![o] = e]]
    BY DEF Allocated, o, e
  <2>2. NewUdata(s, gc) = [[Allocated(s, "udata", GlobalTable) EXCEPT
                              !.rootgc = AfterMain(Allocated(s, "udata", GlobalTable).rootgc, o)] EXCEPT
                             !.obj[o].gc = gc]
    BY DEF NewUdata, o
  <2>3. PICK a : a = [s.obj EXCEPT ![o] = e]
    OBVIOUS
  <2>4. a[o] = e /\ [a EXCEPT ![o] = d] = [s.obj EXCEPT ![o] = d]
    BY <2>3, <1>1 DEF States
  <2>5. PICK b : b = [s EXCEPT !.obj = a]
    OBVIOUS
  <2>6. b.obj = a /\ b.rootgc = s.rootgc /\ b \in [DOMAIN s -> {b[x] : x \in DOMAIN s}]
    BY <2>5, <1>1 DEF States
  <2>7. NewUdata(s, gc) = [[b EXCEPT !.rootgc = q] EXCEPT !.obj[o].gc = gc]
    BY <2>1, <2>2, <2>3, <2>5, <2>6
  <2>8. PICK c : c = [b EXCEPT !.rootgc = q]
    OBVIOUS
  <2>9. c.obj = a /\ c = [[s EXCEPT !.obj = a] EXCEPT !.rootgc = q]
    BY <2>5, <2>8, <1>1 DEF States
  <2>10. [c EXCEPT !.obj[o].gc = gc] = [c EXCEPT !.obj = [a EXCEPT ![o] = d]]
    BY <2>4, <2>9 DEF d
  <2>11. [c EXCEPT !.obj = [a EXCEPT ![o] = d]] = w
    <3> DEFINE y == [s.obj EXCEPT ![o] = d]
    <3>1. [a EXCEPT ![o] = d] = y /\ w = [[s EXCEPT !.obj = y] EXCEPT !.rootgc = q]
      BY <2>4
    <3> HIDE DEF y, q
    <3>2. [c EXCEPT !.obj = y] = [[s EXCEPT !.obj = y] EXCEPT !.rootgc = q]
      BY <2>9, <1>1 DEF States
    <3> QED
      BY <3>1, <3>2
  <2> QED
    BY <2>7, <2>8, <2>10, <2>11
<1>7. /\ q \in Seq(Ids)
      /\ \A x : x \in ToSet(q) <=> x = o \/ x \in ToSet(s.rootgc)
      /\ IsInjective(q) <=> o \notin ToSet(s.rootgc)
      /\ \A z : z # o => After(s.rootgc, z) \subseteq After(q, z)
  BY <1>1, AfterMainIs
<1> HIDE DEF t, q
<1>8. w \in States
  BY <1>5, <1>7 DEF States
<1>9. /\ w.obj = t.obj /\ w.rootgc = q /\ w.strt = t.strt /\ w.tmudata = t.tmudata
      /\ w.gray = t.gray /\ w.grayagain = t.grayagain /\ w.weak = t.weak
      /\ w.currentwhite = t.currentwhite /\ w.gcstate = t.gcstate
      /\ w.sweepgc = t.sweepgc /\ w.stack = t.stack
  BY <1>5 DEF States
<1> HIDE DEF w
<1>10. w.obj[o].kind = "udata" /\ w.obj[o].color = s.currentwhite /\ w.obj[o].val = GlobalTable
  BY <1>4, <1>5, <1>9
<1>11. NewRefers(s, w, o)
  BY <1>1, <1>10, Constants DEF NewRefers, RootsAlive
<1>12. NewListed(s, w, o)
  BY <1>5, <1>7, <1>9, <1>10 DEF NewListed
<1>13. Adds(s, w, o)
  BY <1>1, <1>5, <1>8, <1>9, <1>10, <1>11, <1>12 DEF Adds, Exists
<1>14. Kept(s, Stored(w, i, o)) /\ CollectorInv(w) /\ Alive(w, o)
  BY <1>10, <1>13, AddedKept, AddsKeeps
<1>15. /\ Stored(w, i, o).obj = w.obj /\ Stored(w, i, o).stack = [s.stack EXCEPT ![i] = o]
       /\ Stored(w, i, o).currentwhite = w.currentwhite
  BY <1>5, <1>8, <1>9 DEF Stored, States
<1>16. FreeIds(s) \ {o} \subseteq FreeIds(Stored(w, i, o))
  <2> SUFFICES ASSUME NEW p \in FreeIds(s), p # o PROVE p \in FreeIds(Stored(w, i, o))
    OBVIOUS
  <2>1. p \in Ids /\ w.obj[p] = s.obj[p]
    BY <1>5, <1>9, Constants DEF FreeIds
  <2> QED
    BY <2>1, <1>15 DEF FreeIds, Exists
<1>17. Alive(Stored(w, i, o), o)
  BY <1>14, <1>15 DEF Alive, Exists, isdead, otherwhite
<1> QED
  BY <1>1, <1>6, <1>10, <1>14, <1>15, <1>16, <1>17 DEF o

\* luaS_newlstr: a string that was not in the table.
LEMMA NewStringKept ==
  ASSUME NEW s, CollectorInv(s), FreeIds(s) # {}, NEW i \in Places
  PROVE  Kept(s, Stored(NewString(s), i, NewId(s)))
<1> DEFINE o == NewId(s)
           e == Object("string", s.currentwhite, 0)
           t == [s EXCEPT !.obj[o] = e]
           q == s.strt \cup {o}
           w == [t EXCEPT !.strt = q]
<1>1. s \in States /\ o \in Ids /\ ~Exists(s, o) /\ s.strt \subseteq Ids
  BY InvFacts, NewIdIs, FieldsOf DEF CollectorInv
<1>2. "string" \in Kinds /\ 0 \in Names
  BY DEF Kinds, Names
<1>3. e \in Objects /\ e.kind = "string" /\ e.color = s.currentwhite /\ e.val = 0
  BY <1>1, <1>2, ObjectIs
<1> HIDE DEF e
<1>4. /\ t \in States /\ t.obj[o] = e /\ \A p \in Ids : p # o => t.obj[p] = s.obj[p]
      /\ t.rootgc = s.rootgc /\ t.strt = s.strt /\ t.tmudata = s.tmudata
      /\ t.gray = s.gray /\ t.grayagain = s.grayagain /\ t.weak = s.weak
      /\ t.currentwhite = s.currentwhite /\ t.gcstate = s.gcstate
      /\ t.sweepgc = s.sweepgc /\ t.stack = s.stack
  BY <1>1, <1>3, AllocatedIs
<1>5. NewString(s) = [t EXCEPT !.strt = t.strt \cup {o}]
  BY DEF NewString, Allocated, e
<1> HIDE DEF t, o
<1>6. NewString(s) = w /\ q \subseteq Ids
  BY <1>1, <1>4, <1>5
<1> HIDE DEF q
<1>7. w \in States
  BY <1>4, <1>6 DEF States
<1>8. /\ w.obj = t.obj /\ w.strt = q /\ w.rootgc = t.rootgc /\ w.tmudata = t.tmudata
      /\ w.gray = t.gray /\ w.grayagain = t.grayagain /\ w.weak = t.weak
      /\ w.currentwhite = t.currentwhite /\ w.gcstate = t.gcstate
      /\ w.sweepgc = t.sweepgc /\ w.stack = t.stack
  BY <1>4 DEF States
<1> HIDE DEF w
<1>9. w.obj[o].kind = "string" /\ w.obj[o].color = s.currentwhite /\ w.obj[o].val = 0
  BY <1>3, <1>4, <1>8
<1>10. NewRefers(s, w, o) /\ NewListed(s, w, o)
  BY <1>4, <1>8, <1>9 DEF NewRefers, NewListed, q
<1>11. Adds(s, w, o)
  BY <1>1, <1>4, <1>7, <1>8, <1>9, <1>10 DEF Adds, Exists
<1> QED
  BY <1>6, <1>9, <1>11, AddedKept DEF o

\* A string or an open upvalue is found again: a dead one lives on.
LEMMA RevivedKeeps ==
  ASSUME NEW s, CollectorInv(s), NEW o \in Ids, Exists(s, o),
         s.obj[o].kind = "string" \/ (IsOpenUpval(s, o) /\ Value(s, Held(s, o)))
  PROVE  LET r == Revived(s, o)
         IN  /\ Kept(s, r) /\ Alive(r, o) /\ SameGraph(s, r) /\ r.gray = s.gray
             /\ r.grayagain = s.grayagain /\ r.weak = s.weak
<1>1. s \in States /\ Graph(s) /\ RootLists(s, {}) /\ OpenApart(s) /\ AllRefer(s)
      /\ RootsAlive(s) /\ BlackKinds(s) /\ Plain(s)
  BY InvFacts DEF CollectorInv
<1>2. CASE ~isdead(s, o)
  <2>1. Revived(s, o) = s
    BY <1>2 DEF Revived
  <2> QED
    BY <2>1, <1>1, <1>2, SameChain DEF Kept, Alive
<1>3. CASE isdead(s, o)
  <2>1. PICK r : r = Painted(s, o, s.currentwhite)
    OBVIOUS
  <2>2. Revived(s, o) = r
    BY <1>3, <2>1 DEF Revived, makewhite
  <2>3. s.currentwhite \in Colors /\ s.currentwhite # "black" /\ s.currentwhite # otherwhite(s)
    BY <1>1, FieldsOf, Colours DEF Colors, Whites
  <2>4. SameGraph(s, r) /\ SameLists(s, r) /\ OnlyPaints(s, r, o, s.currentwhite)
    BY <1>1, <2>1, <2>3, PaintedIs
  <2>5. otherwhite(r) = otherwhite(s) /\ r \in States
    BY <2>4 DEF SameGraph, otherwhite
  <2>6. \A p \in Ids : /\ Exists(r, p) <=> Exists(s, p)
                       /\ IsOpenUpval(r, p) <=> IsOpenUpval(s, p)
                       /\ Held(r, p) = Held(s, p)
                       /\ r.obj[p].kind = s.obj[p].kind /\ r.obj[p].val = s.obj[p].val
                       /\ r.obj[p].slot = s.obj[p].slot /\ r.obj[p].th = s.obj[p].th
    BY <1>1, <2>4, SameIs DEF SameGraph
  <2>7. \A p \in Ids : Alive(s, p) => Alive(r, p)
    BY <1>3, <2>4, <2>5, <2>6 DEF Alive, isdead, OnlyPaints
  <2>8. \A p \in Ids : p # o => (Alive(r, p) <=> Alive(s, p))
    BY <2>4, <2>5, <2>6 DEF Alive, isdead, OnlyPaints
  <2>9. Alive(r, o)
    BY <2>3, <2>4, <2>5, <2>6 DEF Alive, isdead, OnlyPaints
  <2>10. \A v : Value(s, v) => Value(r, v)
    BY <2>6, <2>7 DEF Value
  <2>11. RootsAlive(r)
    BY <1>1, <2>4, <2>6, <2>7, <2>10, Constants DEF RootsAlive, SameGraph
  <2>12. AllRefer(r)
    <3> SUFFICES ASSUME NEW p \in Ids, Alive(r, p) PROVE Refers(r, p)
      BY DEF AllRefer
    <3>1. s.obj[p].val \in Names
      BY <1>1, FieldsOf
    <3>2. CASE p # o
      <4>1. Refers(s, p)
        BY <3>2, <2>8, <1>1 DEF AllRefer
      <4> QED
        BY <4>1, <3>1, <2>6, <2>7, <2>10 DEF Refers, Names
    <3>3. CASE p = o
      <4>1. r.obj[o].val = 0 /\ r.obj[o].kind \in {"string", "upval"}
        BY <1>1, <2>6 DEF Plain, IsOpenUpval
      <4>2. r.obj[o].kind = "upval" => Value(r, Held(r, o))
        BY <2>6, <2>10
      <4> QED
        BY <3>3, <4>1, <4>2 DEF Refers
    <3> QED
      BY <3>2, <3>3
  <2>13. OpenApart(r)
    BY <1>1, <2>6 DEF OpenApart
  <2>14. BlackKinds(r)
    <3> SUFFICES ASSUME NEW p \in Ids, r.obj[p].color = "black"
                 PROVE  r.obj[p].kind \in Blacks /\ ~IsOpenUpval(r, p)
      BY DEF BlackKinds
    <3>1. p # o
      BY <2>3, <2>4 DEF OnlyPaints
    <3>2. s.obj[p].color = "black"
      BY <3>1, <2>4 DEF OnlyPaints
    <3> QED
      BY <3>2, <1>1, <2>6 DEF BlackKinds
  <2>15. Graph(r)
    BY <1>1, <2>5, <2>6, <2>11, <2>12, <2>13, <2>14 DEF Graph, Plain
  <2>16. /\ r.rootgc = s.rootgc /\ r.strt = s.strt /\ r.tmudata = s.tmudata
         /\ r.currentwhite = s.currentwhite /\ r.gcstate = s.gcstate /\ r.sweepgc = s.sweepgc
    BY <2>4 DEF SameGraph
  <2>17. RootLists(r, {})
    BY <1>1, <2>6, <2>7, <2>16, RootListsFrom
  <2>18. s.gcstate # "propagate"
    BY <1>3, InvFacts DEF CollectorInv, Marking, Marked, NoneDead
  <2>19. Sweeping(s, {})
    BY <2>18, InvFacts DEF CollectorInv
  <2>20. \A p : ToSweep(s, p) /\ p \in Ids => ToSweep(r, p)
    BY <2>6, <2>16 DEF ToSweep, Ahead
  <2>21. AsNew(r, {})
    BY <2>4, <2>6, <2>16, <2>19, <2>20 DEF AsNew, Sweeping, OnlyPaints
  <2>22. CollectorInv(r)
    BY <2>15, <2>16, <2>17, <2>18, <2>19, <2>21 DEF CollectorInv, InvBut, Sweeping
  <2> QED
    BY <2>2, <2>4, <2>9, <2>16, <2>22 DEF Kept, SameLists
<1> QED
  BY <1>2, <1>3

LEMMA InternKept ==
  ASSUME NEW s, CollectorInv(s), NEW o \in s.strt, NEW i \in Places
  PROVE  Kept(s, Stored(Revived(s, o), i, o))
<1>1. s \in States /\ RootLists(s, {}) /\ s.strt \subseteq Ids
  BY InvFacts, FieldsOf DEF CollectorInv
<1>2. o \in Ids /\ s.obj[o].kind = "string" /\ Exists(s, o)
  BY <1>1 DEF RootLists, Exists
<1>3. PICK r : r = Revived(s, o)
  OBVIOUS
<1>4. Kept(s, r) /\ Alive(r, o) /\ SameGraph(s, r)
  BY <1>2, <1>3, RevivedKeeps
<1>5. Value(r, o)
  BY <1>2, <1>4 DEF Value, SameGraph
<1> QED
  BY <1>3, <1>4, <1>5, StoredKeeps DEF Kept

\* OP_CLOSURE: the closure and its variable, found or new.
LEMMA WithClosureKept ==
  ASSUME NEW s, CollectorInv(s), FreeIds(s) # {}, FreeIds(s) \ {NewId(s)} # {},
         NEW i \in Places, NEW j \in Places, NEW th \in Ids, s.obj[th].kind = "thread",
         Value(s, UpvalSlot(s, th, j))
  PROVE  Kept(s, WithClosure(s, i, th, j))
<1>1. PICK cl : cl = NewId(s)
  OBVIOUS
<1>2. PICK t : t = luaC_link(s, "closure", 0)
  OBVIOUS
<1>3. s \in States /\ cl \in Ids /\ ~Exists(s, cl)
  BY <1>1, InvFacts, NewIdIs DEF CollectorInv
<1>4. /\ t \in States /\ t.obj[cl] = Object("closure", s.currentwhite, 0)
      /\ \A p \in Ids : p # cl => t.obj[p] = s.obj[p]
      /\ t.rootgc = <<cl>> \o s.rootgc /\ t.strt = s.strt /\ t.tmudata = s.tmudata
      /\ t.gray = s.gray /\ t.grayagain = s.grayagain /\ t.weak = s.weak
      /\ t.currentwhite = s.currentwhite /\ t.gcstate = s.gcstate
      /\ t.sweepgc = s.sweepgc /\ t.stack = s.stack
  BY <1>1, <1>2, <1>3, LinkIs
<1>5. "closure" \in Kinds /\ 0 \in Names
  BY DEF Kinds, Names
<1>6. t.obj[cl].kind = "closure" /\ t.obj[cl].slot = 0
  BY <1>3, <1>4, <1>5, ObjectIs
<1>7. UpvalsAt(t, th, j) = UpvalsAt(s, th, j)
  <2>1. \A p \in Ids : IsOpenUpval(t, p) <=> IsOpenUpval(s, p)
    BY <1>3, <1>4, <1>6 DEF IsOpenUpval, Exists
  <2>2. \A p \in Ids : IsOpenUpval(s, p) => p # cl
    BY <1>3 DEF IsOpenUpval, Exists
  <2> QED
    BY <2>1, <2>2, <1>4 DEF UpvalsAt, OpenOf
<1>8. PICK w : w = FindUpval(t, th, j, cl)
  OBVIOUS
\* The variable, in a state that has no closure yet.
<1>9. \E v, u : /\ Kept(s, v) /\ u \in Ids /\ u # cl /\ Alive(v, u) /\ v.obj[u].kind = "upval"
                /\ v \in States /\ ~Exists(v, cl)
                /\ w = [t EXCEPT !.obj = [[t.obj EXCEPT ![u] = v.obj[u]] EXCEPT ![cl].val = u]]
                /\ \A p \in Ids : p # u => v.obj[p] = s.obj[p]
                /\ v.rootgc = s.rootgc /\ v.strt = s.strt
                /\ v.gray = s.gray /\ v.grayagain = s.grayagain /\ v.weak = s.weak
                /\ v.currentwhite = s.currentwhite /\ v.sweepgc = s.sweepgc /\ v.stack = s.stack
  <2>1. CASE UpvalsAt(s, th, j) # {}
    <3>1. PICK u : u = CHOOSE x \in UpvalsAt(s, th, j) : TRUE
      OBVIOUS
    <3>2. u \in Ids /\ IsOpenUpval(s, u) /\ s.obj[u].th = th /\ s.obj[u].slot = j
      BY <2>1, <3>1 DEF UpvalsAt, OpenOf
    <3>3. Held(s, u) = UpvalSlot(s, th, j)
      BY <3>2 DEF Held
    <3>4. PICK v : v = Revived(s, u)
      OBVIOUS
    <3>5. /\ Kept(s, v) /\ Alive(v, u) /\ SameGraph(s, v) /\ v.gray = s.gray
          /\ v.grayagain = s.grayagain /\ v.weak = s.weak
      BY <3>2, <3>3, <3>4, RevivedKeeps DEF IsOpenUpval, Exists
    <3>6. u # cl /\ v.obj[u].kind = "upval" /\ v \in States
      BY <3>2, <3>5, <1>3 DEF SameGraph, IsOpenUpval, Exists
    <3>7. \A p \in Ids : p # u => v.obj[p] = s.obj[p]
      <4>1. CASE ~isdead(s, u)
        BY <4>1, <3>4 DEF Revived
      <4>2. CASE isdead(s, u)
        BY <4>2, <3>4, <1>3 DEF Revived, makewhite, Painted, States
      <4> QED
        BY <4>1, <4>2
    <3>8. w = [Revived(t, u) EXCEPT !.obj[cl].val = u]
      BY <1>7, <1>8, <2>1, <3>1 DEF FindUpval
    <3>9. /\ Revived(t, u) \in States /\ Revived(t, u).obj = [t.obj EXCEPT ![u] = v.obj[u]]
          /\ Revived(t, u) = [t EXCEPT !.obj = [t.obj EXCEPT ![u] = v.obj[u]]]
      <4>0. t.obj[u] = s.obj[u] /\ (isdead(t, u) <=> isdead(s, u))
        BY <1>4, <3>2, <3>6 DEF isdead, otherwhite
      <4>1. CASE ~isdead(s, u)
        <5>1. v.obj[u] = t.obj[u] /\ Revived(t, u) = t
          BY <4>0, <4>1, <3>4 DEF Revived
        <5>2. [t.obj EXCEPT ![u] = t.obj[u]] = t.obj
          BY <1>4, <3>2 DEF States
        <5>3. [t EXCEPT !.obj = t.obj] = t
          BY <1>4 DEF States
        <5> QED
          BY <5>1, <5>2, <5>3, <1>4
      <4>2. CASE isdead(s, u)
        <5>1. v = [s EXCEPT !.obj = [s.obj EXCEPT ![u] = [s.obj[u] EXCEPT !.color = s.currentwhite]]]
          BY <4>2, <3>4 DEF Revived, makewhite, Painted
        <5>2. v.obj[u] = [s.obj[u] EXCEPT !.color = s.currentwhite]
          BY <5>1, <1>3, <3>2 DEF States
        <5>3. Revived(t, u) = [t EXCEPT !.obj = [t.obj EXCEPT ![u] = [t.obj[u] EXCEPT !.color = t.currentwhite]]]
          BY <4>0, <4>2 DEF Revived, makewhite, Painted
        <5>4. Revived(t, u) = [t EXCEPT !.obj = [t.obj EXCEPT ![u] = v.obj[u]]]
          BY <4>0, <5>2, <5>3, <1>4
        <5>5. v.obj[u] \in Objects
          BY <3>2, <3>6, FieldsOf
        <5>6. Revived(t, u) \in States
          BY <5>4, <5>5, <3>2, <1>4, AllocatedIs
        <5>7. Revived(t, u).obj = [t.obj EXCEPT ![u] = v.obj[u]]
          BY <5>4, <1>4 DEF States
        <5> QED
          BY <5>4, <5>6, <5>7
      <4> QED
        BY <4>1, <4>2
    <3>10. w = [t EXCEPT !.obj = [[t.obj EXCEPT ![u] = v.obj[u]] EXCEPT ![cl].val = u]]
      <4>1. PICK a : a = [t.obj EXCEPT ![u] = v.obj[u]]
        OBVIOUS
      <4>2. PICK b : b = [t EXCEPT !.obj = a]
        OBVIOUS
      <4>3. w = [b EXCEPT !.obj = [b.obj EXCEPT ![cl].val = u]] /\ b.obj = a
        BY <3>8, <3>9, <4>1, <4>2
      <4>4. [b EXCEPT !.obj = [a EXCEPT ![cl].val = u]] = [t EXCEPT !.obj = [a EXCEPT ![cl].val = u]]
        BY <4>2, <1>4 DEF States
      <4> QED
        BY <4>1, <4>3, <4>4
    <3>11. ~Exists(v, cl)
      BY <3>6, <3>7, <1>3 DEF Exists
    <3>12. /\ v.rootgc = s.rootgc /\ v.strt = s.strt
           /\ v.gray = s.gray /\ v.grayagain = s.grayagain /\ v.weak = s.weak
           /\ v.currentwhite = s.currentwhite /\ v.sweepgc = s.sweepgc /\ v.stack = s.stack
      BY <3>5 DEF SameGraph
    <3>13. Kept(s, v) /\ u \in Ids /\ Alive(v, u)
      BY <3>2, <3>5
    <3> QED
      BY <3>6, <3>7, <3>10, <3>11, <3>12, <3>13
  <2>2. CASE UpvalsAt(s, th, j) = {}
    <3>1. PICK u : u = NewId(t)
      OBVIOUS
    <3>2. FreeIds(t) # {}
      <4>1. \A p \in FreeIds(s) : p # cl => p \in FreeIds(t)
        BY <1>4, Constants DEF FreeIds, Exists
      <4> QED
        BY <4>1, <1>1
    <3>3. u \in Ids /\ ~Exists(t, u)
      BY <3>1, <3>2, NewIdIs
    <3>4. u # cl /\ ~Exists(s, u)
      BY <3>3, <1>3, <1>4, <1>6 DEF Exists
    <3>5. PICK e : e = [Object("upval", s.currentwhite, 0) EXCEPT !.slot = j, !.th = th]
      OBVIOUS
    <3>6. /\ e \in Objects /\ e.kind = "upval" /\ e.color = s.currentwhite /\ e.val = 0
          /\ e.slot = j /\ e.th = th
      <4>1. "upval" \in Kinds /\ j \in Slots /\ th \in Names
        BY DEF Kinds, Slots, Names
      <4>2. PICK d : d = Object("upval", s.currentwhite, 0)
        OBVIOUS
      <4>3. d \in Objects /\ d.kind = "upval" /\ d.color = s.currentwhite /\ d.val = 0
        BY <4>1, <4>2, <1>3, <1>5, ObjectIs
      <4>4. e = [d EXCEPT !.slot = j, !.th = th]
        BY <3>5, <4>2
      <4> QED
        BY <4>1, <4>3, <4>4 DEF Objects
    <3>7. PICK v : v = [s EXCEPT !.obj[u] = e]
      OBVIOUS
    <3>8. /\ v \in States /\ v.obj[u] = e /\ \A p \in Ids : p # u => v.obj[p] = s.obj[p]
          /\ v.rootgc = s.rootgc /\ v.strt = s.strt /\ v.tmudata = s.tmudata
          /\ v.gray = s.gray /\ v.grayagain = s.grayagain /\ v.weak = s.weak
          /\ v.currentwhite = s.currentwhite /\ v.gcstate = s.gcstate
          /\ v.sweepgc = s.sweepgc /\ v.stack = s.stack
      BY <3>3, <3>6, <3>7, <1>3, AllocatedIs
    <3>9. NewRefers(s, v, u) /\ NewListed(s, v, u)
      <4>1. j # 0
        BY DEF Places
      <4> QED
        BY <4>1, <2>2, <3>6, <3>8 DEF NewRefers, NewListed, IsOpenUpval
    <3>10. Adds(s, v, u)
      BY <3>3, <3>4, <3>6, <3>8, <3>9 DEF Adds, Exists
    <3>11. Kept(s, v) /\ Alive(v, u)
      BY <3>8, <3>10, AddsKeeps DEF Kept
    <3>12. w = [Opened(t, th, j) EXCEPT !.obj[cl].val = u]
      BY <1>7, <1>8, <2>2, <3>1 DEF FindUpval
    <3>13. Opened(t, th, j) = [t EXCEPT !.obj[u] = e]
      BY <3>1, <3>5, <1>4 DEF Opened
    <3>14. w = [t EXCEPT !.obj = [[t.obj EXCEPT ![u] = v.obj[u]] EXCEPT ![cl].val = u]]
      <4>1. PICK a : a = [t.obj EXCEPT ![u] = v.obj[u]]
        OBVIOUS
      <4>2. PICK b : b = [t EXCEPT !.obj = a]
        OBVIOUS
      <4>3. b.obj = a
        BY <4>2, <1>4 DEF States
      <4>4. w = [b EXCEPT !.obj = [b.obj EXCEPT ![cl].val = u]]
        BY <3>8, <3>12, <3>13, <4>1, <4>2
      <4>5. [b EXCEPT !.obj = [a EXCEPT ![cl].val = u]] = [t EXCEPT !.obj = [a EXCEPT ![cl].val = u]]
        BY <4>2, <1>4 DEF States
      <4> QED
        BY <4>1, <4>3, <4>4, <4>5
    <3>15. ~Exists(v, cl)
      BY <3>4, <3>8, <1>3 DEF Exists
    <3> QED
      BY <3>3, <3>4, <3>6, <3>8, <3>11, <3>14, <3>15
  <2> QED
    BY <2>1, <2>2
<1>10. PICK v, u : /\ Kept(s, v) /\ u \in Ids /\ u # cl /\ Alive(v, u) /\ v.obj[u].kind = "upval"
                   /\ v \in States /\ ~Exists(v, cl)
                   /\ w = [t EXCEPT !.obj = [[t.obj EXCEPT ![u] = v.obj[u]] EXCEPT ![cl].val = u]]
                   /\ \A p \in Ids : p # u => v.obj[p] = s.obj[p]
                   /\ v.rootgc = s.rootgc /\ v.strt = s.strt
                   /\ v.gray = s.gray /\ v.grayagain = s.grayagain /\ v.weak = s.weak
                   /\ v.currentwhite = s.currentwhite /\ v.sweepgc = s.sweepgc /\ v.stack = s.stack
  BY <1>9
\* The closure is added to that state.
<1>11. PICK ob : ob = [[t.obj EXCEPT ![u] = v.obj[u]] EXCEPT ![cl].val = u]
  OBVIOUS
<1>12. v.currentwhite = s.currentwhite /\ u \in Names /\ v.obj[u] \in Objects
  BY <1>10, FieldsOf DEF Names
<1>13. ob[cl] = Object("closure", v.currentwhite, u) /\ ob[u] = v.obj[u]
       /\ \A p \in Ids : p # u /\ p # cl => ob[p] = t.obj[p]
  <2>1. t.obj \in [Ids -> Objects]
    BY <1>4, FieldsOf
  <2>2. PICK a : a = [t.obj EXCEPT ![u] = v.obj[u]]
    OBVIOUS
  <2>3. a \in [Ids -> Objects] /\ a[u] = v.obj[u] /\ a[cl] = t.obj[cl]
        /\ \A p \in Ids : p # u => a[p] = t.obj[p]
    BY <2>1, <2>2, <1>3, <1>10, <1>12
  <2>4. ob = [a EXCEPT ![cl] = [a[cl] EXCEPT !.val = u]]
    BY <1>11, <2>2
  <2>5. [Object("closure", s.currentwhite, 0) EXCEPT !.val = u] = Object("closure", s.currentwhite, u)
    <3>1. PICK d : d = [Object("closure", s.currentwhite, 0) EXCEPT !.val = u]
      OBVIOUS
    <3>2. PICK e : e = Object("closure", s.currentwhite, u)
      OBVIOUS
    <3>3. /\ DOMAIN d = DOMAIN e /\ d.kind = e.kind /\ d.color = e.color /\ d.val = e.val
          /\ d.slot = e.slot /\ d.th = e.th /\ d.gc = e.gc /\ d.final = e.final
      BY <3>1, <3>2 DEF Object
    <3>4. DOMAIN e = {"kind", "color", "val", "slot", "th", "gc", "final"}
      BY <3>2 DEF Object
    <3>5. d = [x \in DOMAIN d |-> d[x]] /\ e = [x \in DOMAIN e |-> e[x]]
      BY <3>1, <3>2 DEF Object
    <3> QED
      BY <3>1, <3>2, <3>3, <3>4, <3>5
  <2>6. [a[cl] EXCEPT !.val = u] = Object("closure", v.currentwhite, u)
    BY <2>3, <2>5, <1>4, <1>12
  <2> QED
    BY <2>3, <2>4, <2>6, <1>3, <1>10
<1>14. ob \in [Ids -> Objects]
  <2>1. Object("closure", v.currentwhite, u) \in Objects
    BY <1>5, <1>10, <1>12, ObjectIs
  <2>2. t.obj \in [Ids -> Objects]
    BY <1>4, FieldsOf
  <2>3. DOMAIN ob = Ids /\ ob = [p \in Ids |-> ob[p]]
    BY <1>11, <2>2
  <2>4. \A p \in Ids : ob[p] \in Objects
    BY <2>1, <2>2, <1>12, <1>13
  <2> QED
    BY <2>3, <2>4
<1>15. w = [t EXCEPT !.obj = ob]
  BY <1>10, <1>11
<1>16. /\ w \in States /\ w.obj = ob /\ w.rootgc = t.rootgc /\ w.strt = t.strt
       /\ w.tmudata = t.tmudata /\ w.gray = t.gray /\ w.grayagain = t.grayagain
       /\ w.weak = t.weak /\ w.currentwhite = t.currentwhite /\ w.gcstate = t.gcstate
       /\ w.sweepgc = t.sweepgc /\ w.stack = t.stack
  BY <1>4, <1>14, <1>15 DEF States
<1>17. CollectorInv(v) /\ v.gcstate = s.gcstate /\ v.tmudata = s.tmudata
  BY <1>10 DEF Kept
<1>18. \A p \in Ids : p # cl => w.obj[p] = v.obj[p]
  BY <1>4, <1>10, <1>13, <1>16
<1>19. Adds(v, w, cl)
  <2>1. PICK kind : kind = "closure"
    OBVIOUS
  <2>2. kind \in {"table", "weak", "thread", "closure"}
    BY <2>1
  <2>3. w.obj[cl] = Object(kind, v.currentwhite, u)
    BY <2>1, <1>13, <1>16
  <2>4. w.rootgc = <<cl>> \o v.rootgc /\ w.strt = v.strt /\ w.tmudata = v.tmudata
        /\ w.gray = v.gray /\ w.grayagain = v.grayagain /\ w.weak = v.weak
        /\ w.currentwhite = v.currentwhite /\ w.gcstate = v.gcstate /\ w.sweepgc = v.sweepgc
        /\ w.stack = v.stack
    BY <1>4, <1>10, <1>16, <1>17
  <2> QED
    BY <2>1, <2>2, <2>3, <2>4, <1>3, <1>10, <1>12, <1>16, <1>17, <1>18, LinkAdds
<1>20. w.obj[cl].kind = "closure"
  <2>1. v \in States /\ w.obj[cl] = Object("closure", v.currentwhite, u)
    BY <1>10, <1>13, <1>16
  <2> QED
    BY <2>1, <1>5, <1>12, ObjectIs
<1>21. Kept(v, Stored(w, i, cl))
  BY <1>17, <1>19, <1>20, AddedKept
<1>22. WithClosure(s, i, th, j) = Stored(w, i, cl)
  BY <1>1, <1>2, <1>8 DEF WithClosure
<1> QED
  BY <1>17, <1>21, <1>22 DEF Kept

\* The field of an object that is alive is stored into, before any barrier.
Puts(s, w, o, x) ==
  /\ o \in Ids /\ Alive(s, o) /\ x \in Names
  /\ \/ s.obj[o].kind \in {"table", "weak"} /\ Value(s, x)
     \/ s.obj[o].kind = "upval" /\ ~IsOpenUpval(s, o) /\ Value(s, x)
     \/ s.obj[o].kind = "udata" /\ x # 0 /\ Alive(s, x) /\ s.obj[x].kind \in {"table", "weak"}
  /\ w \in States /\ w.obj[o].val = x
  /\ \A p \in Ids : /\ w.obj[p].kind = s.obj[p].kind /\ w.obj[p].color = s.obj[p].color
                    /\ w.obj[p].slot = s.obj[p].slot /\ w.obj[p].th = s.obj[p].th
                    /\ p # o => w.obj[p].val = s.obj[p].val
  /\ w.rootgc = s.rootgc /\ w.strt = s.strt /\ w.tmudata = s.tmudata
  /\ w.gray = s.gray /\ w.grayagain = s.grayagain /\ w.weak = s.weak
  /\ w.currentwhite = s.currentwhite /\ w.gcstate = s.gcstate /\ w.sweepgc = s.sweepgc
  /\ w.stack = s.stack

LEMMA PutIs ==
  ASSUME NEW s, CollectorInv(s), NEW o \in Ids, Alive(s, o), NEW x \in Names,
         \/ s.obj[o].kind \in {"table", "weak"} /\ Value(s, x)
         \/ s.obj[o].kind = "upval" /\ ~IsOpenUpval(s, o) /\ Value(s, x)
         \/ s.obj[o].kind = "udata" /\ x # 0 /\ Alive(s, x) /\ s.obj[x].kind \in {"table", "weak"}
  PROVE  Puts(s, [s EXCEPT !.obj[o].val = x], o, x)
<1>1. s \in States
  BY InvFacts DEF CollectorInv
<1>2. PICK e : e = [s.obj[o] EXCEPT !.val = x]
  OBVIOUS
<1>3. /\ e \in Objects /\ e.kind = s.obj[o].kind /\ e.color = s.obj[o].color /\ e.val = x
      /\ e.slot = s.obj[o].slot /\ e.th = s.obj[o].th
  BY <1>1, <1>2 DEF States, Objects
<1>4. PICK w : w = [s EXCEPT !.obj[o] = e]
  OBVIOUS
<1>5. w = [s EXCEPT !.obj[o].val = x]
  BY <1>2, <1>4
<1>6. /\ w \in States /\ w.obj[o] = e /\ \A p \in Ids : p # o => w.obj[p] = s.obj[p]
      /\ w.rootgc = s.rootgc /\ w.strt = s.strt /\ w.tmudata = s.tmudata
      /\ w.gray = s.gray /\ w.grayagain = s.grayagain /\ w.weak = s.weak
      /\ w.currentwhite = s.currentwhite /\ w.gcstate = s.gcstate
      /\ w.sweepgc = s.sweepgc /\ w.stack = s.stack
  BY <1>1, <1>3, <1>4, AllocatedIs
<1>7. \A p \in Ids : /\ w.obj[p].kind = s.obj[p].kind /\ w.obj[p].color = s.obj[p].color
                     /\ w.obj[p].slot = s.obj[p].slot /\ w.obj[p].th = s.obj[p].th
                     /\ p # o => w.obj[p].val = s.obj[p].val
  BY <1>3, <1>6
<1>8. w.obj[o].val = x
  BY <1>3, <1>6
<1>9. Puts(s, w, o, x)
  BY <1>6, <1>7, <1>8 DEF Puts
<1> QED
  BY <1>5, <1>9

\* All is well but for a marked object that now refers to a white one.
LEMMA PutsKeeps ==
  ASSUME NEW s, NEW w, NEW o, NEW x, CollectorInv(s), Puts(s, w, o, x)
  PROVE  /\ Graph(w) /\ RootLists(w, {}) /\ Strong(w, o) \subseteq {x}
         /\ x # 0 => x \in Ids /\ Exists(w, x)
         /\ w.gcstate # "propagate" => CollectorInv(w)
         /\ w.gcstate = "propagate" =>
              /\ Marked(w, Again(w) \cup {o}) /\ ~iswhite(w, Main)
              /\ Again(w) = Again(s)
              /\ ~NeedsBarrier(w, o, x) => Marked(w, Again(w))
<1>1. s \in States /\ Graph(s) /\ RootLists(s, {}) /\ OpenApart(s) /\ AllRefer(s) /\ RootsAlive(s)
      /\ BlackKinds(s) /\ Plain(s)
  BY InvFacts DEF CollectorInv
<1>2. /\ o \in Ids /\ Alive(s, o) /\ x \in Names
      /\ w \in States /\ w.obj[o].val = x
      /\ w.rootgc = s.rootgc /\ w.strt = s.strt /\ w.tmudata = s.tmudata
      /\ w.gray = s.gray /\ w.grayagain = s.grayagain /\ w.weak = s.weak
      /\ w.currentwhite = s.currentwhite /\ w.gcstate = s.gcstate /\ w.sweepgc = s.sweepgc
      /\ w.stack = s.stack
  BY DEF Puts
<1>3. \A p \in Ids : /\ w.obj[p].kind = s.obj[p].kind /\ w.obj[p].color = s.obj[p].color
                     /\ w.obj[p].slot = s.obj[p].slot /\ w.obj[p].th = s.obj[p].th
                     /\ p # o => w.obj[p].val = s.obj[p].val
  BY DEF Puts
<1>4. \/ s.obj[o].kind \in {"table", "weak"} /\ Value(s, x)
      \/ s.obj[o].kind = "upval" /\ ~IsOpenUpval(s, o) /\ Value(s, x)
      \/ s.obj[o].kind = "udata" /\ x # 0 /\ Alive(s, x) /\ s.obj[x].kind \in {"table", "weak"}
  BY DEF Puts
<1>5. \A p \in Ids : /\ Exists(w, p) <=> Exists(s, p)
                     /\ IsOpenUpval(w, p) <=> IsOpenUpval(s, p)
                     /\ iswhite(w, p) <=> iswhite(s, p)
                     /\ isdead(w, p) <=> isdead(s, p)
                     /\ Leaf(w, p) <=> Leaf(s, p)
                     /\ Alive(w, p) <=> Alive(s, p)
  BY <1>2, <1>3 DEF Exists, IsOpenUpval, iswhite, isdead, otherwhite, Leaf, Alive
<1>6. \A v : Value(s, v) => Value(w, v)
  BY <1>3, <1>5 DEF Value
<1>7. x # 0 => x \in Ids /\ Alive(s, x)
  BY <1>2, <1>4 DEF Value, Names
<1>8. \A p \in Ids : p # o => Held(w, p) = Held(s, p)
  <2> SUFFICES ASSUME NEW p \in Ids, p # o PROVE Held(w, p) = Held(s, p)
    OBVIOUS
  <2>1. CASE IsOpenUpval(s, p)
    <3>1. s.obj[p].th \in Ids /\ s.obj[s.obj[p].th].kind = "thread"
      BY <2>1, <1>1 DEF OpenApart
    <3>2. s.obj[p].th # o
      BY <3>1, <1>4
    <3> QED
      BY <2>1, <3>1, <3>2, <1>2, <1>3, <1>5 DEF Held, UpvalSlot
  <2>2. CASE ~IsOpenUpval(s, p)
    BY <2>2, <1>3, <1>5 DEF Held
  <2> QED
    BY <2>1, <2>2
<1>9. ~IsOpenUpval(w, o) /\ Held(w, o) = x
  BY <1>2, <1>4, <1>5 DEF Held, IsOpenUpval
<1>10. RootsAlive(w)
  <2>1. Main \in Ids /\ GlobalTable \in Ids /\ Main # o
    BY <1>1, <1>4, Constants DEF RootsAlive
  <2> QED
    BY <2>1, <1>1, <1>2, <1>3, <1>5, <1>6 DEF RootsAlive
<1>11. AllRefer(w)
  <2> SUFFICES ASSUME NEW p \in Ids, Alive(w, p) PROVE Refers(w, p)
    BY DEF AllRefer
  <2>1. Refers(s, p) /\ s.obj[p].val \in Names
    BY <1>1, <1>5, FieldsOf DEF AllRefer
  <2>2. \A v \in Names : v # 0 => v \in Ids
    BY DEF Names
  <2>3. CASE p # o
    BY <2>1, <2>2, <2>3, <1>3, <1>5, <1>6, <1>8 DEF Refers
  <2>4. CASE p = o
    BY <2>2, <2>4, <1>2, <1>3, <1>4, <1>5, <1>6, <1>7, <1>9 DEF Refers
  <2> QED
    BY <2>3, <2>4
<1>12. OpenApart(w) /\ BlackKinds(w)
  BY <1>1, <1>3, <1>5 DEF OpenApart, BlackKinds
<1>13. Plain(w)
  <2> SUFFICES ASSUME NEW p \in Ids, w.obj[p].kind = "string" \/ IsOpenUpval(w, p)
               PROVE  w.obj[p].val = 0
    BY DEF Plain
  <2>1. s.obj[p].kind = "string" \/ IsOpenUpval(s, p)
    BY <1>3, <1>5
  <2>2. p # o
    BY <2>1, <1>4 DEF IsOpenUpval
  <2> QED
    BY <2>1, <2>2, <1>1, <1>3 DEF Plain
<1>14. Graph(w)
  BY <1>2, <1>10, <1>11, <1>12, <1>13 DEF Graph
<1>15. RootLists(w, {})
  BY <1>1, <1>2, <1>3, <1>5, RootListsFrom
<1>16. Strong(w, o) \subseteq {x}
  BY <1>2, <1>3, <1>4, <1>9 DEF Strong
<1>17. ASSUME s.gcstate # "propagate" PROVE CollectorInv(w)
  <2>1. Sweeping(s, {})
    BY <1>17, InvFacts DEF CollectorInv
  <2>2. \A p \in Ids : ToSweep(s, p) => ToSweep(w, p)
    BY <1>2, <1>3, <1>5 DEF ToSweep, Ahead
  <2>3. AsNew(w, {})
    BY <2>1, <2>2, <1>2, <1>3, <1>5 DEF AsNew, Sweeping
  <2> QED
    BY <1>2, <1>14, <1>15, <1>17, <2>1, <2>3 DEF CollectorInv, InvBut, Sweeping
<1>18. ASSUME s.gcstate = "propagate"
       PROVE  /\ Marked(w, Again(w) \cup {o}) /\ ~iswhite(w, Main) /\ Again(w) = Again(s)
              /\ ~NeedsBarrier(w, o, x) => Marked(w, Again(w))
  <2>1. NoneDead(s) /\ GrayLists(s) /\ NoGrayLeaf(s, Again(s)) /\ Closed(s, Again(s))
        /\ ~iswhite(s, Main)
    BY <1>18, InvFacts DEF CollectorInv, Marking, Marked
  <2>2. NoneDead(w) /\ ~iswhite(w, Main)
    BY <2>1, <1>5, Constants DEF NoneDead
  <2>3. GrayLists(w)
    <3>1. \A p : Listed(w, p) <=> Listed(s, p)
      BY <1>2 DEF Listed
    <3>2. s.gray \in Seq(Ids) /\ s.grayagain \in Seq(Ids) /\ s.weak \in Seq(Ids)
      BY <1>1, FieldsOf
    <3>3. \A p : Listed(s, p) => p \in Ids
      BY <3>2 DEF Listed, ToSet
    <3>4. ListsApart(w)
      BY <1>2, <2>1 DEF GrayLists, ListsApart
    <3>5. /\ \A p \in Ids : Listed(w, p) => w.obj[p].color = "gray"
          /\ \A p \in Ids : w.obj[p].color = "gray" /\ w.obj[p].kind \in Traversed => Listed(w, p)
      BY <3>1, <1>3, <2>1 DEF GrayLists
    <3>6. /\ \A p \in ToSet(w.gray) : w.obj[p].kind \in Traversed
          /\ \A p \in ToSet(w.grayagain) : w.obj[p].kind \in {"table", "thread"}
          /\ \A p \in ToSet(w.weak) : w.obj[p].kind = "weak"
      BY <3>3, <1>2, <1>3, <2>1 DEF GrayLists, Listed
    <3> QED
      BY <3>4, <3>5, <3>6 DEF GrayLists
  <2>4. Again(w) = Again(s)
    <3>1. GrayUpvals(w) = GrayUpvals(s)
      BY <1>3, <1>5 DEF GrayUpvals
    <3> QED
      BY <3>1, <1>2 DEF Again
  <2>5. NoGrayLeaf(w, Again(w))
    BY <2>1, <2>4, <1>3, <1>5 DEF NoGrayLeaf
  <2>6. \A p \in Ids : p # o /\ Alive(s, p) /\ s.obj[p].kind # "weak" => Strong(w, p) = Strong(s, p)
    <3> SUFFICES ASSUME NEW p \in Ids, p # o, Alive(s, p), s.obj[p].kind # "weak"
                 PROVE  Strong(w, p) = Strong(s, p)
      OBVIOUS
    <3>1. Held(w, p) = Held(s, p) /\ w.obj[p].kind = s.obj[p].kind /\ w.obj[p].val = s.obj[p].val
      BY <1>3, <1>8
    <3> QED
      BY <3>1, <1>2 DEF Strong
  <2>7. \A p \in Ids : p # o /\ p \notin Again(s) /\ Exists(w, p) /\ ~iswhite(w, p)
                          /\ p \notin ToSet(w.gray) /\ w.obj[p].kind # "weak" => Done(w, p)
    <3> SUFFICES ASSUME NEW p \in Ids, p # o, p \notin Again(s), Exists(w, p), ~iswhite(w, p),
                        p \notin ToSet(w.gray), w.obj[p].kind # "weak"
                 PROVE  Done(w, p)
      OBVIOUS
    <3>1. Done(s, p)
      BY <2>1, <1>2, <1>3, <1>5 DEF Closed
    <3>2. Alive(s, p)
      BY <2>1, <1>5 DEF NoneDead, Alive
    <3> QED
      BY <2>6, <3>1, <3>2, <1>3, <1>5 DEF Done
  <2>8. Closed(w, Again(w) \cup {o})
    BY <2>4, <2>7 DEF Closed
  <2>9. NoGrayLeaf(w, Again(w) \cup {o})
    BY <2>5 DEF NoGrayLeaf
  <2>10. ASSUME ~NeedsBarrier(w, o, x) PROVE Closed(w, Again(w))
    <3> SUFFICES ASSUME o \notin Again(w), ~iswhite(w, o), o \notin ToSet(w.gray),
                        w.obj[o].kind # "weak"
                 PROVE  Done(w, o)
      BY <2>4, <2>7 DEF Closed
    <3>1. w.obj[o].color \in Colors
      BY <1>2, FieldsOf
    <3>2. w.obj[o].color # "gray"
      <4> SUFFICES ASSUME w.obj[o].color = "gray" PROVE FALSE
        OBVIOUS
      <4>1. CASE w.obj[o].kind = "table"
        <5>1. Listed(w, o)
          BY <4>1, <2>3, <1>2 DEF GrayLists, Traversed
        <5>2. o \notin ToSet(w.grayagain)
          BY DEF Again
        <5>3. o \in ToSet(w.weak)
          BY <5>1, <5>2 DEF Listed
        <5> QED
          BY <5>3, <4>1, <2>3 DEF GrayLists
      <4>2. CASE w.obj[o].kind \in {"upval", "udata"}
        BY <4>2, <2>5, <1>2, <1>9 DEF NoGrayLeaf, Leaf
      <4> QED
        BY <4>1, <4>2, <1>2, <1>3, <1>4
    <3>3. w.obj[o].color = "black"
      BY <3>1, <3>2 DEF Colors, iswhite
    <3>4. x = 0 \/ ~iswhite(w, x)
      BY <2>10, <3>3 DEF NeedsBarrier
    <3> QED
      BY <3>4, <1>16, Constants DEF Done
  <2>11. Marked(w, Again(w) \cup {o})
    BY <1>14, <2>2, <2>3, <2>8, <2>9 DEF Marked
  <2>12. ~NeedsBarrier(w, o, x) => Marked(w, Again(w))
    BY <1>14, <2>2, <2>3, <2>5, <2>10 DEF Marked
  <2> QED
    BY <2>2, <2>4, <2>11, <2>12
<1>19. x # 0 => x \in Ids /\ Exists(w, x)
  BY <1>5, <1>7 DEF Alive
<1> QED
  BY <1>2, <1>14, <1>15, <1>16, <1>17, <1>18, <1>19

\* No barrier was needed.
LEMMA PlainPutKept ==
  ASSUME NEW s, NEW w, NEW o, NEW x, CollectorInv(s), Puts(s, w, o, x), ~NeedsBarrier(w, o, x)
  PROVE  Kept(s, w)
<1>1. /\ Graph(w) /\ RootLists(w, {})
      /\ w.gcstate # "propagate" => CollectorInv(w)
      /\ w.gcstate = "propagate" =>
           /\ Marked(w, Again(w) \cup {o}) /\ ~iswhite(w, Main)
           /\ Again(w) = Again(s)
           /\ ~NeedsBarrier(w, o, x) => Marked(w, Again(w))
  BY PutsKeeps
<1>2. w.gcstate = "propagate" => CollectorInv(w)
  BY <1>1 DEF CollectorInv, InvBut, Marking
<1> QED
  BY <1>1, <1>2 DEF Kept, Puts

\* While nothing is marked, what is repainted is as new or still to be swept.
LEMMA RepaintedKeeps ==
  ASSUME NEW w, NEW r, CollectorInv(w), w.gcstate # "propagate", SameGraph(w, r), BlackKinds(r),
         \A p \in Ids : Alive(r, p) <=> Alive(w, p),
         \A p \in Ids : \/ r.obj[p].color = w.obj[p].color \/ r.obj[p].color = w.currentwhite
                        \/ ToSweep(w, p)
  PROVE  Kept(w, r)
<1>1. w \in States /\ Graph(w) /\ RootLists(w, {}) /\ OpenApart(w) /\ Sweeping(w, {})
  BY InvFacts DEF CollectorInv
<1>2. Graph(r)
  BY <1>1, GraphSame
<1>3. /\ r.rootgc = w.rootgc /\ r.strt = w.strt /\ r.tmudata = w.tmudata
      /\ r.currentwhite = w.currentwhite /\ r.gcstate = w.gcstate /\ r.sweepgc = w.sweepgc
      /\ \A p \in Ids : r.obj[p].kind = w.obj[p].kind /\ r.obj[p].th = w.obj[p].th
  BY DEF SameGraph
<1>4. \A p \in Ids : (Exists(r, p) <=> Exists(w, p)) /\ (IsOpenUpval(r, p) <=> IsOpenUpval(w, p))
  BY <1>1, SameIs
<1>5. RootLists(r, {})
  BY <1>1, <1>3, <1>4, RootListsFrom
<1>6. \A p \in Ids : ToSweep(w, p) => ToSweep(r, p)
  BY <1>3, <1>4 DEF ToSweep, Ahead
<1>7. AsNew(r, {})
  <2> SUFFICES ASSUME NEW p \in Ids, Exists(r, p)
               PROVE  r.obj[p].color = r.currentwhite \/ ToSweep(r, p)
    BY DEF AsNew
  <2>1. w.obj[p].color = w.currentwhite \/ ToSweep(w, p)
    BY <1>1, <1>4 DEF Sweeping, AsNew
  <2> QED
    BY <2>1, <1>3, <1>6
<1> QED
  BY <1>1, <1>2, <1>3, <1>5, <1>7 DEF Kept, CollectorInv, InvBut, Sweeping

\* luaC_barrierback: a marked table is looked at again.
LEMMA SetFieldKept ==
  ASSUME NEW s, NEW w, NEW o, NEW x, CollectorInv(s), Puts(s, w, o, x),
         s.obj[o].kind \in {"table", "weak"}
  PROVE  Kept(s, luaC_barriert(w, o, x))
<1>1. CASE ~NeedsBarrier(w, o, x)
  BY <1>1, PlainPutKept DEF luaC_barriert
<1>2. CASE NeedsBarrier(w, o, x)
  <2>1. /\ Graph(w) /\ RootLists(w, {})
        /\ w.gcstate # "propagate" => CollectorInv(w)
        /\ w.gcstate = "propagate" => Marked(w, Again(w) \cup {o}) /\ ~iswhite(w, Main)
    BY PutsKeeps
  <2>2. /\ o \in Ids /\ w \in States /\ BlackKinds(w) /\ OpenApart(w) /\ w.obj[o].color = "black"
        /\ w.gcstate = s.gcstate /\ w.tmudata = s.tmudata
    BY <1>2, <2>1 DEF Graph, Puts, NeedsBarrier
  <2>3. w.obj[o].kind = "table"
    BY <2>2 DEF Puts, BlackKinds, Blacks
  <2>4. PICK t : t = Painted(w, o, "gray")
    OBVIOUS
  <2>5. SameGraph(w, t) /\ SameLists(w, t) /\ OnlyPaints(w, t, o, "gray")
    BY <2>2, <2>4, PaintedIs DEF Colors
  <2>6. PICK q : q = <<o>> \o w.grayagain
    OBVIOUS
  <2>7. w.gray \in Seq(Ids) /\ w.grayagain \in Seq(Ids) /\ w.weak \in Seq(Ids)
    BY <2>2, FieldsOf
  <2>8. /\ q \in Seq(Ids) /\ \A p : p \in ToSet(q) <=> p = o \/ p \in ToSet(w.grayagain)
        /\ IsInjective(w.grayagain) /\ o \notin ToSet(w.grayagain) => IsInjective(q)
    BY <2>2, <2>6, <2>7, PushIs
  <2>9. PICK r : r = [t EXCEPT !.gray = w.gray, !.grayagain = q, !.weak = w.weak]
    OBVIOUS
  <2>10. t \in States /\ t.gray = w.gray /\ t.grayagain = w.grayagain /\ t.weak = w.weak
    BY <2>5 DEF SameGraph, SameLists
  <2>11. luaC_barriert(w, o, x) = r
    <3>1. luaC_barriert(w, o, x) = [t EXCEPT !.grayagain = q]
      BY <1>2, <2>4, <2>6, <2>10 DEF luaC_barriert, luaC_barrierback
    <3>2. [t EXCEPT !.grayagain = q] = r
      BY <2>9, <2>10 DEF States
    <3> QED
      BY <3>1, <3>2
  <2>12. ListsSet(t, r, w.gray, q, w.weak)
    BY <2>9 DEF ListsSet
  <2>13. r.gray = w.gray /\ r.grayagain = q /\ r.weak = w.weak /\ r.obj = t.obj /\ SameGraph(t, r)
    BY <2>7, <2>8, <2>10, <2>12, WithLists
  <2>14. SameGraph(w, r) /\ OnlyPaints(w, r, o, "gray")
    BY <2>5, <2>13, SameChain DEF OnlyPaints
  <2>15. /\ r \in States /\ otherwhite(r) = otherwhite(w) /\ otherwhite(w) \in Whites
         /\ r.tmudata = w.tmudata /\ r.gcstate = w.gcstate
         /\ \A p \in Ids : r.obj[p].kind = w.obj[p].kind
    BY <2>2, <2>14, Colours DEF SameGraph, otherwhite
  <2>16. \A p \in Ids : /\ Exists(r, p) <=> Exists(w, p)
                        /\ IsOpenUpval(r, p) <=> IsOpenUpval(w, p)
                        /\ Strong(r, p) = Strong(w, p)
                        /\ Leaf(r, p) <=> Leaf(w, p)
    BY <2>2, <2>14, SameIs
  <2>17. r.obj[o].color = "gray" /\ \A p \in Ids : p # o => r.obj[p].color = w.obj[p].color
    BY <2>14 DEF OnlyPaints
  <2>18. \A p \in Ids : (iswhite(r, p) <=> iswhite(w, p)) /\ (isdead(r, p) <=> isdead(w, p))
    BY <2>2, <2>15, <2>17 DEF iswhite, isdead, Whites
  <2>19. BlackKinds(r)
    <3> SUFFICES ASSUME NEW p \in Ids, r.obj[p].color = "black"
                 PROVE  r.obj[p].kind \in Blacks /\ ~IsOpenUpval(r, p)
      BY DEF BlackKinds
    <3>1. w.obj[p].color = "black"
      BY <2>2, <2>17
    <3> QED
      BY <3>1, <2>2, <2>15, <2>16 DEF BlackKinds
  <2>20. \A p \in Ids : Alive(r, p) <=> Alive(w, p)
    BY <2>16, <2>18 DEF Alive
  <2>21. CASE s.gcstate # "propagate"
    <3>1. CollectorInv(w)
      BY <2>1, <2>2, <2>21
    <3>2. Exists(w, o) /\ w.obj[o].color # w.currentwhite
      <4>1. w.currentwhite \in Whites
        BY <2>2, FieldsOf
      <4> QED
        BY <4>1, <2>2, <2>3 DEF Exists, Whites
    <3>3. ToSweep(w, o)
      BY <3>1, <3>2, <2>2, <2>21, InvFacts DEF CollectorInv, Sweeping, AsNew
    <3>4. \A p \in Ids : \/ r.obj[p].color = w.obj[p].color \/ r.obj[p].color = w.currentwhite
                         \/ ToSweep(w, p)
      BY <3>3, <2>17
    <3>5. Kept(w, r)
      BY <3>1, <3>4, <2>2, <2>14, <2>19, <2>20, <2>21, RepaintedKeeps
    <3> QED
      BY <3>5, <2>2, <2>11 DEF Kept
  <2>22. CASE s.gcstate = "propagate"
    <3>1. /\ NoneDead(w) /\ GrayLists(w) /\ NoGrayLeaf(w, Again(w) \cup {o})
          /\ Closed(w, Again(w) \cup {o}) /\ ~iswhite(w, Main)
      BY <2>1, <2>2, <2>22 DEF Marked
    <3>2. Graph(r)
      BY <2>1, <2>14, <2>19, <2>20, GraphSame
    <3>3. NoneDead(r)
      BY <3>1, <2>16, <2>18 DEF NoneDead
    <3>4. Again(r) = Again(w) \cup {o}
      <4>1. GrayUpvals(r) = GrayUpvals(w)
        BY <2>3, <2>15, <2>16, <2>17 DEF GrayUpvals, IsOpenUpval
      <4>2. \A p : p \in ToSet(r.grayagain) <=> p = o \/ p \in ToSet(w.grayagain)
        BY <2>8, <2>13
      <4> QED
        BY <4>1, <4>2, <2>15 DEF Again
    <3>5. ~Listed(w, o)
      BY <3>1, <2>2 DEF GrayLists
    <3>6. \A p : Listed(r, p) <=> p = o \/ Listed(w, p)
      BY <2>8, <2>13 DEF Listed
    <3>7. \A p : Listed(w, p) => p \in Ids
      BY <2>7 DEF Listed, ToSet
    <3>8. ListsApart(r)
      BY <3>1, <3>5, <2>8, <2>13 DEF ListsApart, GrayLists, Listed
    <3>9. /\ \A p \in Ids : Listed(r, p) => r.obj[p].color = "gray"
          /\ \A p \in Ids : r.obj[p].color = "gray" /\ r.obj[p].kind \in Traversed => Listed(r, p)
      BY <3>1, <3>6, <2>15, <2>17 DEF GrayLists
    <3>10. /\ \A p \in ToSet(r.gray) : r.obj[p].kind \in Traversed
           /\ \A p \in ToSet(r.weak) : r.obj[p].kind = "weak"
      BY <3>1, <3>7, <2>13, <2>15 DEF GrayLists, Listed
    <3>11. \A p \in ToSet(r.grayagain) : r.obj[p].kind \in {"table", "thread"}
      BY <3>1, <3>7, <2>2, <2>3, <2>8, <2>13, <2>15 DEF GrayLists, Listed
    <3>12. GrayLists(r)
      BY <3>8, <3>9, <3>10, <3>11 DEF GrayLists
    <3>13. NoGrayLeaf(r, Again(r))
      BY <3>1, <3>4, <2>16, <2>17 DEF NoGrayLeaf
    <3>14. Closed(r, Again(r))
      <4> SUFFICES ASSUME NEW p \in Ids, p \notin Again(r), Exists(r, p), ~iswhite(r, p),
                          p \notin ToSet(r.gray), r.obj[p].kind # "weak"
                   PROVE  Done(r, p)
        BY DEF Closed
      <4>1. Done(w, p)
        BY <3>1, <3>4, <2>13, <2>15, <2>16, <2>18 DEF Closed
      <4> QED
        BY <4>1, <2>16, <2>18 DEF Done
    <3>15. Marking(r)
      BY <3>1, <3>2, <3>3, <3>12, <3>13, <3>14, <2>18, Constants DEF Marking, Marked
    <3>16. RootLists(r, {})
      <4>1. r.rootgc = w.rootgc /\ r.strt = w.strt
        BY <2>14 DEF SameGraph
      <4> QED
        BY <4>1, <2>1, <2>2, <2>15, <2>16, <2>20, RootListsFrom
    <3> QED
      BY <3>2, <3>15, <3>16, <2>2, <2>11, <2>15, <2>22 DEF Kept, CollectorInv, InvBut
  <2> QED
    BY <2>21, <2>22
<1> QED
  BY <1>1, <1>2

\* luaC_barrierf: the value is marked, or the object made white.
LEMMA BarrierKept ==
  ASSUME NEW s, NEW w, NEW o, NEW x, CollectorInv(s), Puts(s, w, o, x)
  PROVE  Kept(s, luaC_barrier(w, o, x))
<1>1. CASE ~NeedsBarrier(w, o, x)
  BY <1>1, PlainPutKept DEF luaC_barrier
<1>2. CASE NeedsBarrier(w, o, x)
  <2>1. /\ Graph(w) /\ RootLists(w, {}) /\ Strong(w, o) \subseteq {x}
        /\ x # 0 => x \in Ids /\ Exists(w, x)
        /\ w.gcstate # "propagate" => CollectorInv(w)
        /\ w.gcstate = "propagate" => Marked(w, Again(w) \cup {o}) /\ ~iswhite(w, Main)
    BY PutsKeeps
  <2>2. /\ o \in Ids /\ w \in States /\ BlackKinds(w) /\ OpenApart(w) /\ w.obj[o].color = "black"
        /\ w.gcstate = s.gcstate /\ w.tmudata = s.tmudata /\ x # 0 /\ iswhite(w, x)
    BY <1>2, <2>1 DEF Graph, Puts, NeedsBarrier
  <2>3. CASE s.gcstate # "propagate"
    <3>1. PICK r : r = Painted(w, o, w.currentwhite)
      OBVIOUS
    <3>2. luaC_barrier(w, o, x) = r
      BY <1>2, <2>2, <2>3, <3>1 DEF luaC_barrier, luaC_barrierf, makewhite
    <3>3. /\ w.currentwhite \in Colors /\ w.currentwhite # "black"
          /\ w.currentwhite # otherwhite(w) /\ otherwhite(w) # "black"
      BY <2>2, FieldsOf, Colours DEF Colors, Whites
    <3>4. SameGraph(w, r) /\ OnlyPaints(w, r, o, w.currentwhite)
      BY <2>2, <3>1, <3>3, PaintedIs
    <3>5. /\ otherwhite(r) = otherwhite(w) /\ r.obj[o].color = w.currentwhite
          /\ \A p \in Ids : p # o => r.obj[p].color = w.obj[p].color
      BY <3>4 DEF SameGraph, otherwhite, OnlyPaints
    <3>6. \A p \in Ids : /\ Exists(r, p) <=> Exists(w, p)
                         /\ IsOpenUpval(r, p) <=> IsOpenUpval(w, p)
                         /\ r.obj[p].kind = w.obj[p].kind
      BY <2>2, <3>4, SameIs DEF SameGraph
    <3>7. \A p \in Ids : isdead(r, p) <=> isdead(w, p)
      BY <2>2, <3>3, <3>5 DEF isdead
    <3>8. \A p \in Ids : Alive(r, p) <=> Alive(w, p)
      BY <3>6, <3>7 DEF Alive
    <3>9. BlackKinds(r)
      <4> SUFFICES ASSUME NEW p \in Ids, r.obj[p].color = "black"
                   PROVE  r.obj[p].kind \in Blacks /\ ~IsOpenUpval(r, p)
        BY DEF BlackKinds
      <4>1. w.obj[p].color = "black"
        BY <2>2, <3>5
      <4> QED
        BY <4>1, <2>2, <3>6 DEF BlackKinds
    <3>10. \A p \in Ids : \/ r.obj[p].color = w.obj[p].color \/ r.obj[p].color = w.currentwhite
                          \/ ToSweep(w, p)
      BY <3>5
    <3>11. CollectorInv(w) /\ w.gcstate # "propagate"
      BY <2>1, <2>2, <2>3
    <3>12. Kept(w, r)
      BY <3>4, <3>8, <3>9, <3>10, <3>11, RepaintedKeeps
    <3> QED
      BY <3>2, <3>12, <2>2 DEF Kept
  <2>4. CASE s.gcstate = "propagate"
    <3>1. Marked(w, Again(w) \cup {o}) /\ ~iswhite(w, Main)
      BY <2>1, <2>2, <2>4
    <3>2. PICK r : r = reallymarkobject(w, x)
      OBVIOUS
    <3>3. luaC_barrier(w, o, x) = r
      BY <1>2, <2>2, <2>4, <3>2 DEF luaC_barrier, luaC_barrierf
    <3>4. Marks(w, r, Again(w) \cup {o}) /\ ~iswhite(r, x)
      BY <2>1, <2>2, <3>1, <3>2, reallymarkobjectMarks
    <3>5. /\ Marked(r, Again(w) \cup {o}) /\ SameGraph(w, r) /\ Graph(r)
          /\ r.grayagain = w.grayagain
          /\ (\A p \in Ids : ~iswhite(w, p) => ~iswhite(r, p))
          /\ \A p \in Ids : w.obj[p].color = "black" => r.obj[p].color = "black"
      BY <3>4 DEF Marks, Marked, Darker, SameAgain
    <3>6. \A p \in Ids : /\ Exists(r, p) <=> Exists(w, p)
                         /\ IsOpenUpval(r, p) <=> IsOpenUpval(w, p)
                         /\ Strong(r, p) = Strong(w, p)
      BY <2>2, <3>5, SameIs
    <3>7. Done(r, o) /\ r.obj[o].color # "gray"
      BY <2>1, <2>2, <3>4, <3>5, <3>6 DEF Done
    <3>8. Marked(r, Again(w))
      BY <2>2, <3>5, <3>7, Released
    <3>9. /\ r.rootgc = w.rootgc /\ r.strt = w.strt /\ r.tmudata = w.tmudata
          /\ r.gcstate = w.gcstate /\ \A p \in Ids : r.obj[p].kind = w.obj[p].kind
      BY <3>5 DEF SameGraph
    <3>10. Again(w) \subseteq Again(r)
      <4>1. \A p \in GrayUpvals(w) : p \in GrayUpvals(r)
        BY <2>1, <3>5, GrayUpvalsStay
      <4> QED
        BY <4>1, <3>5, <3>9 DEF Again
    <3>11. Marking(r)
      <4>1. Marked(r, Again(r))
        BY <3>8, <3>10, MarkedMore
      <4> QED
        BY <4>1, <3>1, <3>5, Constants DEF Marking
    <3>12. \A p \in Ids : Alive(w, p) => Alive(r, p)
      BY <3>6, <3>8 DEF Marked, NoneDead, Alive
    <3>13. RootLists(r, {})
      BY <2>1, <2>2, <3>6, <3>9, <3>12, RootListsFrom
    <3> QED
      BY <3>3, <3>5, <3>9, <3>11, <3>13, <2>2, <2>4 DEF Kept, CollectorInv, InvBut
  <2> QED
    BY <2>3, <2>4
<1> QED
  BY <1>1, <1>2

\* A value moves to the stack of a coroutine.
LEMMA CoroutineSetKept ==
  ASSUME NEW s, CollectorInv(s), NEW co \in Ids, s.obj[co].kind = "thread", co # Main,
         NEW x, Value(s, x)
  PROVE  LET w == [s EXCEPT !.obj[co].val = x]
         IN  Kept(s, w) /\ \A p \in Ids : w.obj[p].color = s.obj[p].color
<1>1. s \in States /\ RootsAlive(s) /\ x \in Names
  BY InvFacts DEF CollectorInv, Value, Names
<1>2. PICK e : e = [s.obj[co] EXCEPT !.val = x]
  OBVIOUS
<1>3. /\ e \in Objects /\ e.kind = s.obj[co].kind /\ e.color = s.obj[co].color /\ e.val = x
      /\ e.slot = s.obj[co].slot /\ e.th = s.obj[co].th
  BY <1>1, <1>2 DEF States, Objects
<1>4. PICK w : w = [s EXCEPT !.obj[co] = e]
  OBVIOUS
<1>5. w = [s EXCEPT !.obj[co].val = x]
  BY <1>2, <1>4
<1>6. /\ w \in States /\ w.obj[co] = e /\ \A p \in Ids : p # co => w.obj[p] = s.obj[p]
      /\ w.rootgc = s.rootgc /\ w.strt = s.strt /\ w.tmudata = s.tmudata
      /\ w.gray = s.gray /\ w.grayagain = s.grayagain /\ w.weak = s.weak
      /\ w.currentwhite = s.currentwhite /\ w.gcstate = s.gcstate
      /\ w.sweepgc = s.sweepgc /\ w.stack = s.stack
  BY <1>1, <1>3, <1>4, AllocatedIs
<1>7. \A p \in Ids : /\ w.obj[p].kind = s.obj[p].kind /\ w.obj[p].color = s.obj[p].color
                     /\ w.obj[p].slot = s.obj[p].slot /\ w.obj[p].th = s.obj[p].th
                     /\ \/ w.obj[p].val = s.obj[p].val
                        \/ s.obj[p].kind = "thread" /\ p # Main /\ Value(s, w.obj[p].val)
  BY <1>3, <1>6
<1>8. \A j \in Places : Value(s, w.stack[j])
  BY <1>1, <1>6 DEF RootsAlive
<1>9. Moved(s, w)
  BY <1>6, <1>7, <1>8 DEF Moved
<1>10. CollectorInv(w)
  BY <1>9, MovedKeeps
<1> QED
  BY <1>5, <1>6, <1>7, <1>10 DEF Kept

\* What a place of the stack holds.
LEMMA OnStackIs ==
  ASSUME NEW s, CollectorInv(s), NEW x, x = GlobalTable \/ \E i \in Places : x = s.stack[i]
  PROVE  /\ Value(s, x)
         /\ x # 0 => /\ x \in Ids /\ Alive(s, x) /\ Refers(s, x)
                     /\ Kind(s, x) = s.obj[x].kind
         /\ x = 0 => Kind(s, x) = "nil"
<1>1. RootsAlive(s) /\ AllRefer(s)
  BY InvFacts DEF CollectorInv
<1>2. Value(s, x)
  BY <1>1, Constants DEF RootsAlive, Value
<1> QED
  BY <1>1, <1>2 DEF Value, AllRefer, Kind

\* SETUPVAL: an open upvalue is a place of a stack, a closed one is an object.
LEMMA SetUpvalKept ==
  ASSUME NEW s, CollectorInv(s), NEW u \in Ids, Alive(s, u), s.obj[u].kind = "upval",
         NEW x, Value(s, x)
  PROVE  Kept(s, luaC_barrier(UpvalSet(s, u, x), u, x))
<1>1. s \in States /\ BlackKinds(s) /\ OpenApart(s) /\ x \in Names
  BY InvFacts DEF CollectorInv, Value, Names
<1>2. CASE ~IsOpenUpval(s, u)
  <2>1. PICK w : w = [s EXCEPT !.obj[u].val = x]
    OBVIOUS
  <2>2. UpvalSet(s, u, x) = w
    BY <1>2, <2>1 DEF UpvalSet
  <2>3. Puts(s, w, u, x)
    BY <1>1, <1>2, <2>1, PutIs
  <2> QED
    BY <2>2, <2>3, BarrierKept
<1>3. CASE IsOpenUpval(s, u)
  <2>1. PICK w : w = UpvalSet(s, u, x)
    OBVIOUS
  <2>2. s.obj[u].color # "black" /\ s.obj[u].th \in Ids /\ s.obj[s.obj[u].th].kind = "thread"
        /\ s.obj[u].slot \in Slots /\ s.obj[u].slot # 0
    BY <1>1, <1>3, FieldsOf DEF BlackKinds, OpenApart, IsOpenUpval
  <2>3. Kept(s, w) /\ w.obj[u].color = s.obj[u].color
    <3>1. CASE s.obj[u].th = Main
      <4>1. w = Stored(s, s.obj[u].slot, x) /\ s.obj[u].slot \in Places
        BY <1>3, <2>1, <2>2, <3>1 DEF UpvalSet, Slots
      <4>2. w.obj = s.obj
        BY <4>1, <1>1 DEF Stored, States
      <4> QED
        BY <4>1, <4>2, StoredKeeps DEF Kept
    <3>2. CASE s.obj[u].th # Main
      <4>1. w = [s EXCEPT !.obj[s.obj[u].th].val = x]
        BY <1>3, <2>1, <3>2 DEF UpvalSet
      <4> QED
        BY <4>1, <2>2, <3>2, CoroutineSetKept
    <3> QED
      BY <3>1, <3>2
  <2>4. ~NeedsBarrier(w, u, x)
    BY <2>2, <2>3 DEF NeedsBarrier
  <2> QED
    BY <2>1, <2>3, <2>4 DEF luaC_barrier
<1> QED
  BY <1>2, <1>3

\* A function returns: its upvalues are closed, its places left.
LEMMA LeaveKept ==
  ASSUME NEW s, CollectorInv(s), NEW level \in Places
  PROVE  LET closed == CloseUpvals(s, Main, level)
         IN  /\ Kept(s, closed)
             /\ Kept(s, [closed EXCEPT !.stack = [i \in Places |-> IF i >= level THEN 0 ELSE @[i]]])
<1>1. PICK c : c = CloseUpvals(s, Main, level)
  OBVIOUS
<1>2. Closes(s, c, {})
  <2>1. PICK E : E = {}
    OBVIOUS
  <2>2. InvBut(s, E) /\ (\A o \in E : o \in Ids /\ s.obj[o].kind = "thread")
    BY <2>1 DEF CollectorInv
  <2>3. Closes(s, c, E)
    BY <1>1, <2>1, <2>2, CloseUpvalsCloses
  <2> QED
    BY <2>1, <2>3
<1>3. CollectorInv(c) /\ c.gcstate = s.gcstate /\ c.tmudata = s.tmudata
  BY <1>2 DEF Closes, CollectorInv, SamePhase
<1>4. c \in States /\ RootsAlive(c)
  BY <1>3, InvFacts DEF CollectorInv
<1>5. PICK q : q = [i \in Places |-> IF i >= level THEN 0 ELSE c.stack[i]]
  OBVIOUS
<1>6. PICK w : w = [c EXCEPT !.stack = q]
  OBVIOUS
<1>7. q \in [Places -> Names] /\ \A i \in Places : q[i] = 0 \/ q[i] = c.stack[i]
  <2>1. c.stack \in [Places -> Names]
    BY <1>4, FieldsOf
  <2> QED
    BY <2>1, <1>5 DEF Names
<1>8. w \in States
  BY <1>4, <1>6, <1>7 DEF States
<1>9. /\ w.rootgc = c.rootgc /\ w.strt = c.strt /\ w.tmudata = c.tmudata
      /\ w.gray = c.gray /\ w.grayagain = c.grayagain /\ w.weak = c.weak
      /\ w.currentwhite = c.currentwhite /\ w.gcstate = c.gcstate /\ w.sweepgc = c.sweepgc
      /\ w.stack = q /\ w.obj = c.obj
  BY <1>4, <1>6 DEF States
<1>10. \A i \in Places : Value(c, w.stack[i])
  BY <1>4, <1>7, <1>9 DEF RootsAlive, Value
<1>11. Moved(c, w)
  BY <1>8, <1>9, <1>10 DEF Moved
<1>12. CollectorInv(w)
  BY <1>3, <1>11, MovedKeeps
<1> QED
  BY <1>1, <1>3, <1>5, <1>6, <1>9, <1>12 DEF Kept

-----------------------------------------------------------------------------
(* How a program begins.                                                   *)

LEMMA NewStateInv ==
  /\ CollectorInv(NewState) /\ NewState.gcstate = "pause" /\ NewState.tmudata = <<>>
  /\ NewState.stack = [i \in Places |-> 0] /\ FreeIds(NewState) = Dynamic
<1> DEFINE ob == [o \in Ids |-> CASE o = Main -> Object("thread", "white0", 0)
                                  [] o = GlobalTable -> Object("table", "white0", 0)
                                  [] OTHER -> NoObject]
           r == <<GlobalTable, Main>>
<1>1. Main \in Ids /\ GlobalTable \in Ids /\ Main # GlobalTable /\ 0 \in Names
      /\ Main \notin Dynamic /\ GlobalTable \notin Dynamic /\ Dynamic \subseteq Ids
  BY Constants DEF Main, GlobalTable, Names, Dynamic
<1>2. PICK s : s = NewState
  OBVIOUS
<1>3. /\ s.obj = ob /\ s.rootgc = r /\ s.strt = {} /\ s.tmudata = <<>> /\ s.gray = <<>>
      /\ s.grayagain = <<>> /\ s.weak = <<>> /\ s.currentwhite = "white0"
      /\ s.gcstate = "pause" /\ s.sweepgc = 0 /\ s.stack = [i \in Places |-> 0]
  BY <1>2 DEF NewState
<1>4. \A k \in Kinds, c \in Colors :
        LET e == Object(k, c, 0)
        IN  /\ e \in Objects /\ e.kind = k /\ e.color = c /\ e.val = 0 /\ e.slot = 0 /\ e.th = 0
  BY <1>1 DEF Object, Objects, Slots
<1>5. "thread" \in Kinds /\ "table" \in Kinds /\ "free" \in Kinds
      /\ "white0" \in Colors /\ "gray" \in Colors
  BY DEF Kinds, Colors
<1>6. \A o \in Ids : ob[o] = IF o = Main THEN Object("thread", "white0", 0)
                             ELSE IF o = GlobalTable THEN Object("table", "white0", 0) ELSE NoObject
  BY <1>1
<1>7. \A o \in Ids :
        /\ ob[o] \in Objects /\ ob[o].val = 0 /\ ob[o].slot = 0 /\ ob[o].th = 0
        /\ ob[o].kind = IF o = Main THEN "thread" ELSE IF o = GlobalTable THEN "table" ELSE "free"
        /\ ob[o].color = IF o = Main \/ o = GlobalTable THEN "white0" ELSE "gray"
  BY <1>4, <1>5, <1>6 DEF NoObject
<1>8. r \in Seq(Ids) /\ Len(r) = 2 /\ r[1] = GlobalTable /\ r[2] = Main
  BY <1>1
<1>9. IsInjective(r) /\ \A o : o \in ToSet(r) <=> o = Main \/ o = GlobalTable
  <2>1. DOMAIN r = 1 .. 2
    BY <1>8
  <2>2. DOMAIN r = {1, 2}
    BY <2>1
  <2> HIDE DEF r
  <2> QED
    BY <2>2, <1>1, <1>8 DEF IsInjective, ToSet
<1>10. ob \in [Ids -> Objects]
  BY <1>7
<1> HIDE DEF ob, r
<1>11. s \in States
  <2>1. s = [obj |-> s.obj, rootgc |-> s.rootgc, strt |-> s.strt, tmudata |-> s.tmudata,
             gray |-> s.gray, grayagain |-> s.grayagain, weak |-> s.weak,
             currentwhite |-> s.currentwhite, gcstate |-> s.gcstate, sweepgc |-> s.sweepgc,
             stack |-> s.stack]
    BY <1>2 DEF NewState
  <2>2. s.obj \in [Ids -> Objects] /\ s.rootgc \in Seq(Ids) /\ s.stack \in [Places -> Names]
    BY <1>1, <1>3, <1>8, <1>10
  <2>3. /\ s.strt \in SUBSET Ids /\ s.tmudata \in Seq(Ids) /\ s.gray \in Seq(Ids)
        /\ s.grayagain \in Seq(Ids) /\ s.weak \in Seq(Ids) /\ s.currentwhite \in Whites
        /\ s.gcstate \in Phases /\ s.sweepgc \in Names
    BY <1>1, <1>3, EmptyIs DEF Whites, Phases
  <2> QED
    BY <2>1, <2>2, <2>3 DEF States
<1>12. \A o \in Ids : /\ Exists(s, o) <=> o = Main \/ o = GlobalTable
                      /\ ~IsOpenUpval(s, o) /\ s.obj[o].val = 0
                      /\ s.obj[o].color # "black"
                      /\ o = Main => s.obj[o].kind = "thread"
                      /\ o = GlobalTable => s.obj[o].kind = "table"
                      /\ Exists(s, o) => s.obj[o].color = "white0"
  BY <1>1, <1>3, <1>7 DEF Exists, IsOpenUpval
<1>13. otherwhite(s) = "white1"
  BY <1>3 DEF otherwhite
<1>14. Alive(s, Main) /\ Alive(s, GlobalTable)
  BY <1>1, <1>12, <1>13 DEF Alive, isdead
<1>15. Value(s, 0)
  BY DEF Value
<1>16. RootsAlive(s)
  BY <1>1, <1>3, <1>12, <1>14, <1>15 DEF RootsAlive
<1>17. AllRefer(s)
  <2> SUFFICES ASSUME NEW o \in Ids, Alive(s, o) PROVE Refers(s, o)
    BY DEF AllRefer
  <2>1. s.obj[o].kind \in {"thread", "table"} /\ s.obj[o].val = 0
    BY <1>12 DEF Alive
  <2> QED
    BY <2>1, <1>15 DEF Refers
<1>18. Graph(s)
  BY <1>11, <1>12, <1>16, <1>17 DEF Graph, OpenApart, BlackKinds, Plain
<1>19. RootLists(s, {})
  <2>1. \A o \in Ids : InRootgc(s, o) <=> o = Main \/ o = GlobalTable
    BY <1>1, <1>3, <1>12, EmptyIs DEF InRootgc
  <2>2. \A o \in Ids : o \notin s.strt /\ s.obj[o].kind # "string"
    BY <1>3, <1>7
  <2> QED
    BY <2>1, <2>2, <1>3, <1>9, EmptyIs DEF RootLists
<1>20. AsNew(s, {})
  BY <1>3, <1>12 DEF AsNew
<1>21. CollectorInv(s)
  BY <1>3, <1>18, <1>19, <1>20 DEF CollectorInv, InvBut, Sweeping
<1>22. FreeIds(s) = Dynamic
  BY <1>1, <1>12 DEF FreeIds
<1> QED
  BY <1>2, <1>3, <1>21, <1>22

LEMMA InitInv == GcInit => GcInv
<1> SUFFICES ASSUME g \in {NewState, ClosedOver, Shared, InEnvironment}
             PROVE  CollectorInv(g) /\ g.tmudata = <<>>
  BY DEF GcInit, GcInv, NothingPending
<1>1. PICK n : n = NewState
  OBVIOUS
<1>2. CollectorInv(n) /\ n.gcstate = "pause" /\ n.tmudata = <<>>
      /\ n.stack = [i \in Places |-> 0] /\ FreeIds(n) = Dynamic
  BY <1>1, NewStateInv
<1>3. {3, 4, 5} \subseteq Dynamic /\ Main \notin Dynamic /\ 1 \in Places /\ StackSlots \in Places
      /\ StackSlots # 1 /\ Main \in Ids
  BY Constants DEF Dynamic, Main
<1>4. n.obj[Main].kind = "thread" /\ Value(n, 0)
  BY <1>2, InvFacts DEF CollectorInv, RootsAlive, Value
<1>5. PICK o : o = NewId(n)
  OBVIOUS
<1>6. FreeIds(n) # {} /\ FreeIds(n) \ {NewId(n)} # {}
  <2>1. 3 \in FreeIds(n) /\ 4 \in FreeIds(n) /\ 3 # 4
    BY <1>2, <1>3
  <2> QED
    BY <2>1
<1>7. o \in Ids /\ ~Exists(n, o) /\ o # Main
  BY <1>2, <1>3, <1>5, <1>6, NewIdIs
<1>8. CASE g = NewState
  BY <1>1, <1>2, <1>8
<1>9. CASE g = ClosedOver
  <2>1. PICK c : c = WithClosure(n, 1, Main, StackSlots)
    OBVIOUS
  <2>2. UpvalSlot(n, Main, StackSlots) = 0
    BY <1>2, <1>3 DEF UpvalSlot
  <2>3. Kept(n, c)
    BY <2>1, <2>2, <1>2, <1>3, <1>4, <1>6, WithClosureKept
  <2>4. Kept(c, CloseUpvals(c, Main, StackSlots))
    BY <2>3, <1>3, LeaveKept DEF Kept
  <2>5. g = CloseUpvals(c, Main, StackSlots)
    BY <2>1, <1>1, <1>9 DEF ClosedOver
  <2> QED
    BY <2>3, <2>4, <2>5, <1>2 DEF Kept
<1>10. CASE g = Shared
  <2>1. PICK t : t = New(n, "thread", StackSlots)
    OBVIOUS
  <2>2. /\ Kept(n, t) /\ FreeIds(n) \ {o} \subseteq FreeIds(t)
        /\ t.stack = [n.stack EXCEPT ![StackSlots] = o] /\ t.obj[o].kind = "thread"
    BY <2>1, <1>2, <1>3, <1>5, <1>6, NewKept
  <2>3. FreeIds(t) # {} /\ FreeIds(t) \ {NewId(t)} # {}
    <3>1. \E a \in FreeIds(t), b \in FreeIds(t) : a # b
      <4>1. {3, 4, 5} \ {o} \subseteq FreeIds(t)
        BY <2>2, <1>2, <1>3
      <4>2. CASE o = 3
        BY <4>1, <4>2
      <4>3. CASE o # 3
        BY <4>1, <4>3
      <4> QED
        BY <4>2, <4>3
    <3> QED
      BY <3>1
  <2>4. t.stack[StackSlots] = o
    BY <2>2, <1>2, <1>3
  <2>5. o # 0 /\ Refers(t, o)
    <3>1. o # 0
      BY <1>7, Constants
    <3>2. CollectorInv(t)
      BY <2>2 DEF Kept
    <3> QED
      BY <3>1, <3>2, <2>4, <1>3, OnStackIs
  <2>6. Value(t, UpvalSlot(t, o, 1))
    BY <2>2, <2>5, <1>7 DEF Refers, UpvalSlot
  <2>7. Kept(t, WithClosure(t, 1, o, 1))
    BY <2>2, <2>3, <2>6, <1>3, <1>7, WithClosureKept DEF Kept
  <2>8. g = WithClosure(t, 1, o, 1)
    BY <2>1, <1>1, <1>5, <1>10 DEF Shared
  <2> QED
    BY <2>2, <2>7, <2>8, <1>2 DEF Kept
<1>11. CASE g = InEnvironment
  <2>1. PICK a : a = Stored(NewUdata(n, TRUE), 1, o)
    OBVIOUS
  <2>2. /\ Kept(n, a) /\ FreeIds(n) \ {o} \subseteq FreeIds(a)
        /\ a.stack = [n.stack EXCEPT ![1] = o] /\ a.obj[o].kind = "udata" /\ Alive(a, o)
    BY <2>1, <1>2, <1>3, <1>5, <1>6, NewUdataKept
  <2>3. PICK b : b = NewId(a)
    OBVIOUS
  <2>4. FreeIds(a) # {}
    BY <2>2, <1>5, <1>6
  <2>5. b \in Ids /\ b # o
    BY <2>2, <2>3, <2>4, NewIdIs DEF Alive
  <2>6. PICK s : s = New(a, "table", StackSlots)
    OBVIOUS
  <2>7. /\ Kept(a, s) /\ s.stack = [a.stack EXCEPT ![StackSlots] = b] /\ s.obj[b].kind = "table"
        /\ \A p \in Ids : p # b => s.obj[p] = a.obj[p]
    <3>1. CollectorInv(a)
      BY <2>2 DEF Kept
    <3>2. PICK r : r = New(a, "table", StackSlots)
      OBVIOUS
    <3>3. Kept(a, r) /\ r.stack = [a.stack EXCEPT ![StackSlots] = NewId(a)]
          /\ r.obj[NewId(a)].kind = "table"
      BY <3>1, <3>2, <2>4, <1>3, NewKept
    <3>4. \A p \in Ids : p # NewId(a) => New(a, "table", StackSlots).obj[p] = a.obj[p]
      BY <3>1, <2>4, <1>3, NewKept, ZenonT(60)
    <3>5. \A p \in Ids : p # NewId(a) => r.obj[p] = a.obj[p]
      BY <3>2, <3>4
    <3> QED
      BY <3>2, <3>3, <3>5, <2>3, <2>6
  <2>8. s.stack[1] = o /\ s.stack[StackSlots] = b
    BY <2>2, <2>7, <1>2, <1>3
  <2>9. s.obj[o].kind = "udata" /\ CollectorInv(s) /\ s.gcstate = "pause" /\ s.tmudata = <<>>
    BY <2>2, <2>5, <2>7, <1>2, <1>7 DEF Kept
  <2>10. o # 0 /\ b # 0 /\ b \in Names
    BY <2>5, <1>7, Constants DEF Names
  <2>11. Alive(s, o) /\ Alive(s, b)
    BY <2>8, <2>9, <2>10, <1>3, OnStackIs
  <2>12. PICK w : w = [s EXCEPT !.obj[o].val = b]
    OBVIOUS
  <2>13. Puts(s, w, o, b)
    BY <2>7, <2>9, <2>10, <2>11, <2>12, <1>7, PutIs
  <2>14. w.gcstate = "pause" /\ w.tmudata = <<>>
    BY <2>9, <2>13 DEF Puts
  <2>15. CollectorInv(w)
    BY <2>9, <2>13, <2>14, PutsKeeps
  <2>16. g = w
    BY <2>1, <2>6, <2>8, <2>12, <1>1, <1>5, <1>11 DEF InEnvironment
  <2> QED
    BY <2>14, <2>15, <2>16
<1> QED
  BY <1>8, <1>9, <1>10, <1>11

-----------------------------------------------------------------------------
(* Every step.                                                             *)

LEMMA DoneKept == \A r : GcInv /\ Kept(g, r) /\ g' = r => GcInv'
<1> SUFFICES ASSUME NEW r, GcInv, Kept(g, r), g' = r PROVE GcInv'
  OBVIOUS
<1>1. CollectorInv(r) /\ NothingPending(r)
  BY DEF GcInv, Kept, NothingPending
<1>2. CollectorInv(g') /\ NothingPending(g')
  BY <1>1
<1> QED
  BY <1>2 DEF GcInv

LEMMA NewObjectKeeps ==
  ASSUME GcInv, NEW i \in Places, NewObject(i) PROVE GcInv'
<1>1. CollectorInv(g) /\ FreeIds(g) # {}
  BY RoomIs DEF GcInv, NewObject, HasRoom
<1>2. CASE \E kind \in {"table", "weak"} : Does(Stored(luaC_link(g, kind, 0), i, NewId(g)))
  <2>1. PICK kind \in {"table", "weak"} : g' = Stored(luaC_link(g, kind, 0), i, NewId(g))
    BY <1>2 DEF Does
  <2>2. kind \in {"table", "weak", "thread"}
    OBVIOUS
  <2>3. Kept(g, New(g, kind, i))
    BY <1>1, <2>2, NewKept
  <2> QED
    BY <2>1, <2>3, DoneKept DEF New
<1>3. CASE Does(Stored(luaC_link(g, "thread", 0), i, NewId(g)))
  <2>1. g' = New(g, "thread", i)
    BY <1>3 DEF Does, New
  <2>2. Kept(g, New(g, "thread", i))
    BY <1>1, NewKept
  <2> QED
    BY <2>1, <2>2, DoneKept
<1>4. CASE \E gc \in BOOLEAN : Does(Stored(NewUdata(g, gc), i, NewId(g)))
  <2>1. PICK gc \in BOOLEAN : g' = Stored(NewUdata(g, gc), i, NewId(g))
    BY <1>4 DEF Does
  <2>2. Kept(g, Stored(NewUdata(g, gc), i, NewId(g)))
    BY <1>1, NewUdataKept
  <2> QED
    BY <2>1, <2>2, DoneKept
<1> QED
  BY <1>2, <1>3, <1>4 DEF NewObject

LEMMA InternKeeps ==
  ASSUME GcInv, NEW i \in Places, Intern(i) PROVE GcInv'
<1>1. CollectorInv(g)
  BY DEF GcInv
<1>2. CASE g.strt # {}
  <2>1. PICK o \in g.strt : g' = Stored(Revived(g, o), i, o)
    BY <1>2 DEF Intern, Does
  <2>2. Kept(g, Stored(Revived(g, o), i, o))
    BY <1>1, InternKept
  <2> QED
    BY <2>1, <2>2, DoneKept
<1>3. CASE g.strt = {}
  <2>1. FreeIds(g) # {} /\ g' = Stored(NewString(g), i, NewId(g))
    BY <1>3, RoomIs DEF Intern, HasRoom, Does
  <2>2. Kept(g, Stored(NewString(g), i, NewId(g)))
    BY <1>1, <2>1, NewStringKept
  <2> QED
    BY <2>1, <2>2, DoneKept
<1> QED
  BY <1>2, <1>3

LEMMA NewClosureKeeps ==
  ASSUME GcInv, NEW i \in Places, NEW th \in Ids, NEW j \in Places, NewClosure(i, th, j)
  PROVE  GcInv'
<1>1. CollectorInv(g) /\ g \in States /\ RootsAlive(g) /\ g.stack \in [Places -> Names]
  BY InvFacts, FieldsOf DEF GcInv, CollectorInv
<1>2. FreeIds(g) \ {NewId(g)} # {} /\ FreeIds(g) # {} /\ g' = WithClosure(g, i, th, j)
  BY RoomIs DEF NewClosure, HasRoom, Does
<1>3. g.obj[th].kind = "thread" /\ Value(g, UpvalSlot(g, th, j))
  <2>1. CASE th = Main
    BY <2>1, <1>1 DEF RootsAlive, UpvalSlot
  <2>2. CASE th # Main
    <3>1. th \in ToSet(g.stack) /\ Kind(g, th) = "thread" /\ th # 0
      BY <2>2, Constants DEF NewClosure
    <3>2. \E k \in Places : th = g.stack[k]
      BY <3>1, <1>1 DEF ToSet
    <3>3. Refers(g, th) /\ g.obj[th].kind = "thread"
      BY <3>1, <3>2, <1>1, OnStackIs
    <3> QED
      BY <3>3, <2>2 DEF Refers, UpvalSlot
  <2> QED
    BY <2>1, <2>2
<1>4. Kept(g, WithClosure(g, i, th, j))
  BY <1>1, <1>2, <1>3, WithClosureKept
<1> QED
  BY <1>2, <1>4, DoneKept

\* A place is erased, or given what something on the stack refers to.
LEMMA LoadKeeps ==
  ASSUME GcInv, NEW i \in Places, NEW x,
         x = GlobalTable \/ \E j \in Places : x = g.stack[j],
         Erase(i) \/ GetField(i, x) \/ GetUpval(i, x)
  PROVE  GcInv'
<1>1. CollectorInv(g)
  BY DEF GcInv
<1>2. /\ x # 0 => Alive(g, x) /\ Refers(g, x) /\ Kind(g, x) = g.obj[x].kind
      /\ x = 0 => Kind(g, x) = "nil"
  BY <1>1, OnStackIs
<1>3. \A v : Value(g, v) => Kept(g, Stored(g, i, v))
  BY <1>1, StoredKeeps DEF Kept
<1>4. CASE Erase(i)
  <2>1. g' = Stored(g, i, 0) /\ Value(g, 0)
    BY <1>4 DEF Erase, Does, Value
  <2>2. Kept(g, Stored(g, i, 0))
    BY <2>1, <1>3
  <2> QED
    BY <2>1, <2>2, DoneKept
<1>5. CASE GetField(i, x)
  <2>1. g' = Stored(g, i, g.obj[x].val) /\ Kind(g, x) \in {"table", "weak"}
    BY <1>5 DEF GetField, Does
  <2>2. Value(g, g.obj[x].val)
    BY <2>1, <1>2 DEF Refers
  <2>3. Kept(g, Stored(g, i, g.obj[x].val))
    BY <2>2, <1>3
  <2> QED
    BY <2>1, <2>3, DoneKept
<1>6. CASE GetUpval(i, x)
  <2>1. PICK u : u = g.obj[x].val
    OBVIOUS
  <2>2. g' = Stored(g, i, Held(g, u)) /\ Kind(g, x) = "closure"
    BY <1>6, <2>1 DEF GetUpval, Does
  <2>3. x # 0 /\ g.obj[x].kind = "closure" /\ Refers(g, x) /\ x \in Ids
    BY <2>2, <1>1, <1>2, OnStackIs
  <2>4. u # 0 /\ Alive(g, u) /\ g.obj[u].kind = "upval" /\ u \in Names
    BY <2>1, <2>3, <1>1, InvFacts, FieldsOf DEF Refers, CollectorInv
  <2>5. Refers(g, u)
    BY <2>4, <1>1, InvFacts DEF CollectorInv, AllRefer, Names
  <2>6. Value(g, Held(g, u))
    BY <2>4, <2>5 DEF Refers
  <2>7. Kept(g, Stored(g, i, Held(g, u)))
    BY <2>6, <1>3
  <2> QED
    BY <2>2, <2>7, DoneKept
<1> QED
  BY <1>4, <1>5, <1>6

\* What is on the stack is stored into what is there, with its barrier.
LEMMA StoreKeeps ==
  ASSUME GcInv, NEW t, t = GlobalTable \/ \E j \in Places : t = g.stack[j],
         NEW x, \E i \in Places : x = g.stack[i],
         SetField(t, x) \/ SetUpval(t, x) \/ SetEnv(t, x) \/ XMove(t, x)
  PROVE  GcInv'
<1>1. CollectorInv(g)
  BY DEF GcInv
<1>2. /\ t # 0 => t \in Ids /\ Alive(g, t) /\ Refers(g, t) /\ Kind(g, t) = g.obj[t].kind
      /\ t = 0 => Kind(g, t) = "nil"
  BY <1>1, OnStackIs
<1>3. /\ Value(g, x) /\ x \in Names
      /\ x # 0 => x \in Ids /\ Alive(g, x) /\ Kind(g, x) = g.obj[x].kind
      /\ x = 0 => Kind(g, x) = "nil"
  BY <1>1, OnStackIs DEF Names
<1>4. CASE SetField(t, x)
  <2>1. PICK w : w = [g EXCEPT !.obj[t].val = x]
    OBVIOUS
  <2>2. g' = luaC_barriert(w, t, x) /\ t \in Ids /\ Alive(g, t) /\ g.obj[t].kind \in {"table", "weak"}
    BY <1>2, <1>4, <2>1 DEF SetField, Does
  <2>3. Puts(g, w, t, x)
    BY <2>1, <2>2, <1>1, <1>3, PutIs
  <2>4. Kept(g, luaC_barriert(w, t, x))
    BY <2>2, <2>3, <1>1, SetFieldKept
  <2> QED
    BY <2>2, <2>4, DoneKept
<1>5. CASE SetUpval(t, x)
  <2>1. PICK u : u = g.obj[t].val
    OBVIOUS
  <2>2. g' = luaC_barrier(UpvalSet(g, u, x), u, x) /\ Kind(g, t) = "closure"
    BY <1>5, <2>1 DEF SetUpval, Does
  <2>3. t # 0 /\ t \in Ids /\ g.obj[t].kind = "closure" /\ Refers(g, t)
    BY <2>2, <1>2
  <2>4. u # 0 /\ Alive(g, u) /\ g.obj[u].kind = "upval" /\ u \in Names
    BY <2>1, <2>3, <1>1, InvFacts, FieldsOf DEF Refers, CollectorInv
  <2>5. Kept(g, luaC_barrier(UpvalSet(g, u, x), u, x))
    BY <2>4, <1>1, <1>3, SetUpvalKept DEF Names
  <2> QED
    BY <2>2, <2>5, DoneKept
<1>6. CASE SetEnv(t, x)
  <2>1. PICK w : w = [g EXCEPT !.obj[t].val = x]
    OBVIOUS
  <2>2. g' = luaC_barrier(w, t, x) /\ Kind(g, t) = "udata" /\ Kind(g, x) \in {"table", "weak"}
    BY <1>6, <2>1 DEF SetEnv, Does
  <2>3. t \in Ids /\ Alive(g, t) /\ g.obj[t].kind = "udata"
        /\ x # 0 /\ Alive(g, x) /\ g.obj[x].kind \in {"table", "weak"}
    BY <2>2, <1>2, <1>3
  <2>4. Puts(g, w, t, x)
    BY <2>1, <2>3, <1>1, <1>3, PutIs
  <2>5. Kept(g, luaC_barrier(w, t, x))
    BY <2>4, <1>1, BarrierKept
  <2> QED
    BY <2>2, <2>5, DoneKept
<1>7. CASE XMove(t, x)
  <2>1. PICK w : w = [g EXCEPT !.obj[t].val = x]
    OBVIOUS
  <2>2. g' = w /\ t \in Ids /\ t # Main /\ g.obj[t].kind = "thread"
    BY <1>2, <1>7, <2>1 DEF XMove, Does
  <2>3. Kept(g, w)
    BY <2>1, <2>2, <1>1, <1>3, CoroutineSetKept
  <2> QED
    BY <2>2, <2>3, DoneKept
<1> QED
  BY <1>4, <1>5, <1>6, <1>7

LEMMA LeaveKeeps ==
  ASSUME GcInv, NEW level \in Places, Leave(level) PROVE GcInv'
<1>1. CollectorInv(g)
  BY DEF GcInv
<1>2. PICK c : c = CloseUpvals(g, Main, level)
  OBVIOUS
<1>3. PICK r : r = [c EXCEPT !.stack = [i \in Places |-> IF i >= level THEN 0 ELSE @[i]]]
  OBVIOUS
<1>4. g' = r
  BY <1>2, <1>3 DEF Leave, Does
<1>5. Kept(g, r)
  BY <1>1, <1>2, <1>3, LeaveKept
<1> QED
  BY <1>4, <1>5, DoneKept

LEMMA OperationKeeps ==
  ASSUME GcInv, Operation PROVE GcInv'
<1>1. PICK i \in Places :
        \/ NewObject(i) \/ Intern(i) \/ Erase(i) \/ Leave(i)
        \/ \E th \in Ids, j \in Places : NewClosure(i, th, j)
        \/ \E j \in Places :
             \/ GetField(i, OnStack(j)) \/ SetField(OnStack(j), OnStack(i)) \/ GetUpval(i, OnStack(j))
             \/ SetUpval(OnStack(j), OnStack(i)) \/ SetEnv(OnStack(j), OnStack(i))
             \/ XMove(OnStack(j), OnStack(i))
        \/ GetField(i, GlobalTable) \/ SetField(GlobalTable, OnStack(i))
  BY DEF Operation
<1>2. CASE NewObject(i)
  BY <1>2, NewObjectKeeps
<1>3. CASE Intern(i)
  BY <1>3, InternKeeps
<1>4. CASE Leave(i)
  BY <1>4, LeaveKeeps
<1>5. CASE \E th \in Ids, j \in Places : NewClosure(i, th, j)
  BY <1>5, NewClosureKeeps
<1>6. CASE Erase(i) \/ GetField(i, GlobalTable)
  BY <1>6, LoadKeeps
<1>7. CASE \E j \in Places : GetField(i, OnStack(j)) \/ GetUpval(i, OnStack(j))
  <2>1. PICK j \in Places : GetField(i, OnStack(j)) \/ GetUpval(i, OnStack(j))
    BY <1>7
  <2>2. PICK x : x = OnStack(j)
    OBVIOUS
  <2>3. x = g.stack[j] /\ (GetField(i, x) \/ GetUpval(i, x))
    BY <2>1, <2>2 DEF OnStack
  <2> QED
    BY <2>3, LoadKeeps
<1>8. ASSUME NEW t, t = GlobalTable \/ \E j \in Places : t = OnStack(j),
             \/ SetField(t, OnStack(i)) \/ SetUpval(t, OnStack(i)) \/ SetEnv(t, OnStack(i))
             \/ XMove(t, OnStack(i))
      PROVE  GcInv'
  <2>1. PICK x : x = OnStack(i)
    OBVIOUS
  <2>2. x = g.stack[i] /\ (t = GlobalTable \/ \E j \in Places : t = g.stack[j])
    BY <1>8, <2>1 DEF OnStack
  <2>3. SetField(t, x) \/ SetUpval(t, x) \/ SetEnv(t, x) \/ XMove(t, x)
    BY <1>8, <2>1
  <2> QED
    BY <2>2, <2>3, StoreKeeps
<1> QED
  BY <1>1, <1>2, <1>3, <1>4, <1>5, <1>6, <1>7, <1>8

LEMMA SingleStepKeeps ==
  ASSUME GcInv, SingleStep PROVE GcInv'
<1>1. PICK keep \in Places \cup {0} : g' = singlestep(g, keep)
  BY DEF SingleStep
<1>2. PICK r : r = singlestep(g, keep)
  OBVIOUS
<1>3. g.gcstate \in Phases /\ CollectorInv(g) /\ NothingPending(g)
  BY InvFacts, FieldsOf DEF GcInv, CollectorInv
<1>4. /\ CollectorInv(r)
      /\ g.gcstate = "pause" => r.gcstate = "propagate" /\ r.tmudata = g.tmudata
      /\ g.gcstate = "propagate" =>
           r.gcstate = "sweepstring" \/ (r.gcstate = "propagate" /\ r.tmudata = g.tmudata)
      /\ g.gcstate = "sweepstring" => r.gcstate = "sweep"
      /\ g.gcstate = "sweep" => r.gcstate = "finalize" \/ r.gcstate = "sweep"
      /\ g.gcstate = "finalize" =>
           r.gcstate = "finalize" \/ (r.gcstate = "pause" /\ r.tmudata = <<>>)
  BY <1>2, <1>3, singlestepKeeps
<1>5. NothingPending(r)
  BY <1>3, <1>4 DEF NothingPending, Phases
<1>6. CollectorInv(g') /\ NothingPending(g')
  BY <1>1, <1>2, <1>4, <1>5
<1> QED
  BY <1>6 DEF GcInv

LEMMA NextInv == GcInv /\ [GcNext]_gvars => GcInv'
<1> SUFFICES ASSUME GcInv, [GcNext]_gvars PROVE GcInv'
  OBVIOUS
<1>1. CASE Operation
  BY <1>1, OperationKeeps
<1>2. CASE SingleStep
  BY <1>2, SingleStepKeeps
<1>3. CASE FullGc
  <2>1. PICK r : r = luaC_fullgc(g)
    OBVIOUS
  <2>2. CollectorInv(r) /\ NothingPending(r)
    BY <2>1, luaC_fullgcKeeps DEF GcInv
  <2>3. CollectorInv(g') /\ NothingPending(g')
    BY <1>3, <2>1, <2>2 DEF FullGc
  <2> QED
    BY <2>3 DEF GcInv
<1>4. CASE UNCHANGED gvars
  BY <1>4 DEF gvars, GcInv
<1> QED
  BY <1>1, <1>2, <1>3, <1>4 DEF GcNext

-----------------------------------------------------------------------------
(* Nothing reachable is freed.                                             *)

\* What is reached passes from one object to the next.
LEMMA ReachableAlive ==
  ASSUME NEW s, Graph(s), RootLists(s, {})
  PROVE  Reachable(s) \subseteq {o \in Ids : Alive(s, o)}
<1> DEFINE k == MaxObjects + 2
           A == {o \in Ids : Alive(s, o)}
           S == {Main} \cup ToSet(s.tmudata)
           f(x, n) == Nearer(s, x)
           T == [i \in 0 .. k |-> SUBSET A]
           Step == [i \in 1 .. k |-> [x \in T[i - 1] |-> f(x, i)]]
<1>1. k \in Nat
  BY Constants
<1>2. S \in T[0]
  <2>1. s \in States /\ RootsAlive(s)
    BY DEF Graph
  <2>2. s.tmudata \in Seq(Ids)
    BY <2>1, FieldsOf
  <2>3. \A p \in ToSet(s.tmudata) : p \in Ids /\ Alive(s, p)
    BY <2>2 DEF RootLists, ToSet
  <2>4. S \subseteq A
    BY <2>1, <2>3, Constants DEF RootsAlive
  <2>5. 0 \in 0 .. k
    BY <1>1
  <2> HIDE DEF S, A, k
  <2> QED
    BY <2>4, <2>5
<1>3. ASSUME NEW i \in 1 .. k, NEW x \in T[i - 1] PROVE f(x, i) \in T[i]
  <2>1. i - 1 \in 0 .. k /\ i \in 0 .. k
    BY <1>1
  <2>2. x \in SUBSET A
    BY <2>1
  <2>3. \A o \in x : \A p \in Strong(s, o) : p = 0 \/ p \in A
    BY <2>2, StrongAlive
  <2>4. f(x, i) \subseteq A
    <3> HIDE DEF A
    <3> SUFFICES ASSUME NEW p \in Nearer(s, x), p \notin x PROVE p \in A
      BY <2>2
    <3>1. PICK R : R = {Strong(s, o) : o \in x}
      OBVIOUS
    <3>2. p \in UNION R /\ p # 0
      <4>1. Nearer(s, x) = x \cup ((UNION R) \ {0})
        BY <3>1 DEF Nearer
      <4> QED
        BY <4>1
    <3>3. PICK Q \in R : p \in Q
      BY <3>2
    <3>4. PICK o \in x : p \in Strong(s, o)
      BY <3>1, <3>3
    <3> QED
      BY <3>2, <3>4, <2>3
  <2> HIDE DEF A, f, k
  <2> QED
    BY <2>1, <2>4
<1> HIDE DEF S
<1>4. Within(k, T, Step)
  <2> HIDE DEF T, f
  <2> QED
    BY <1>3 DEF Within
<1>5. PICK m : Repeats(k, T, Step, S, m)
  <2> HIDE DEF T, Step, k
  <2> QED
    BY <1>1, <1>2, <1>4, Repeated
<1>6. m = [i \in 0 .. k |-> IF i = 0 THEN S ELSE f(m[i - 1], i)]
  <2> HIDE DEF T, f
  <2>1. \A i \in 1 .. k : Step[i][m[i - 1]] = f(m[i - 1], i)
    <3> SUFFICES ASSUME NEW i \in 1 .. k PROVE Step[i][m[i - 1]] = f(m[i - 1], i)
      OBVIOUS
    <3>1. i - 1 \in 0 .. k
      BY <1>1
    <3>2. m[i - 1] \in T[i - 1]
      BY <3>1, <1>5 DEF Repeats
    <3> QED
      BY <3>2
  <2> HIDE DEF Step
  <2>2. \A i \in 0 .. k : i # 0 => i \in 1 .. k
    BY <1>1
  <2> QED
    BY <1>5, <2>1, <2>2 DEF Repeats
<1>7. PICK r : r = CHOOSE h : h = [n \in 0 .. k |-> IF n = 0 THEN S ELSE f(h[n - 1], n)]
  OBVIOUS
<1>8. r = [n \in 0 .. k |-> IF n = 0 THEN S ELSE f(r[n - 1], n)]
  <2> HIDE DEF f
  <2> QED
    BY <1>6, <1>7
<1>9. ReachedFrom(s, S) = r[k]
  BY <1>7 DEF ReachedFrom, k
<1>10. r[k] \in T[k]
  <2>1. r[0] \in T[0]
    <3> HIDE DEF T, f
    <3>1. 0 \in 0 .. k
      BY <1>1
    <3> QED
      BY <1>2, <1>8, <3>1
  <2>2. \A i \in 1 .. k : r[i - 1] \in T[i - 1] => r[i] \in T[i]
    <3> HIDE DEF T
    <3> SUFFICES ASSUME NEW i \in 1 .. k, r[i - 1] \in T[i - 1] PROVE r[i] \in T[i]
      OBVIOUS
    <3>1. i \in 0 .. k /\ i # 0
      BY <1>1
    <3>2. r[i] = f(r[i - 1], i)
      <4> HIDE DEF f
      <4> QED
        BY <1>8, <3>1
    <3> QED
      BY <1>3, <3>2
  <2>3. \A i \in 0 .. k : r[i] \in T[i]
    <3> HIDE DEF T, f
    <3> QED
      BY <1>1, <2>1, <2>2, PassedOn
  <2>4. k \in 0 .. k
    BY <1>1
  <2> QED
    BY <2>3, <2>4
<1> QED
  <2> HIDE DEF k
  <2>1. k \in 0 .. k
    BY <1>1
  <2>2. r[k] \subseteq A
    BY <1>10, <2>1
  <2> QED
    BY <1>9, <2>2 DEF Reachable, S

LEMMA GcInvImplies == GcInv => NothingReachableIsFreed
<1> SUFFICES ASSUME GcInv PROVE NoneDangling /\ TriColour /\ OneList
  BY DEF NothingReachableIsFreed
<1>1. g \in States /\ Graph(g) /\ RootLists(g, {}) /\ CollectorInv(g) /\ BlackKinds(g)
  BY InvFacts DEF GcInv, CollectorInv
<1>2. NoneDangling
  BY <1>1, ReachableAlive, StrongAlive DEF NoneDangling
<1>3. ASSUME g.gcstate = "propagate"
      PROVE  GrayLists(g) /\ Closed(g, Again(g)) /\ g.tmudata = <<>>
  BY <1>1, <1>3, InvFacts DEF CollectorInv, Marking, Marked, GcInv, NothingPending
<1>4. TriColour
  <2> SUFFICES ASSUME g.gcstate = "propagate", NEW o \in Ids, Exists(g, o),
                      g.obj[o].color = "black", NEW p \in Strong(g, o) \ {0}
               PROVE  ~iswhite(g, p)
    BY DEF TriColour
  <2>1. GrayLists(g) /\ Closed(g, Again(g)) /\ g.tmudata = <<>>
    BY <1>3
  <2>2. ~Listed(g, o)
    BY <2>1 DEF GrayLists
  <2>3. o \notin Again(g)
    BY <2>1, <2>2, EmptyIs DEF Again, GrayUpvals, Listed
  <2>4. ~iswhite(g, o) /\ g.obj[o].kind # "weak"
    BY <1>1 DEF iswhite, BlackKinds, Blacks
  <2>5. Done(g, o)
    BY <2>1, <2>2, <2>3, <2>4 DEF Closed, Listed
  <2>6. Alive(g, o)
    <3>1. NoneDead(g)
      BY <1>1, InvFacts DEF CollectorInv, Marking, Marked
    <3> QED
      BY <3>1 DEF NoneDead, Alive
  <2>7. p \in Ids
    BY <2>6, <1>1, StrongAlive
  <2> QED
    BY <2>5, <2>7 DEF Done
<1>5. OneList
  <2> SUFFICES ASSUME g.gcstate = "propagate" PROVE IsInjective(g.gray \o g.grayagain \o g.weak)
    BY DEF OneList
  <2>1. ListsApart(g)
    BY <1>3 DEF GrayLists
  <2>2. g.gray \in Seq(Ids) /\ g.grayagain \in Seq(Ids) /\ g.weak \in Seq(Ids)
    BY <1>1, FieldsOf
  <2>3. PICK q : q = g.gray \o g.grayagain
    OBVIOUS
  <2>4. q \in Seq(Ids) /\ IsInjective(q)
        /\ \A p : p \in ToSet(q) <=> p \in ToSet(g.gray) \/ p \in ToSet(g.grayagain)
    BY <2>1, <2>2, <2>3, JoinIs DEF ListsApart
  <2>5. IsInjective(q \o g.weak)
    BY <2>1, <2>2, <2>4, JoinIs DEF ListsApart
  <2> QED
    BY <2>3, <2>5
<1> QED
  BY <1>2, <1>4, <1>5

(* What holds between any two steps of the program and the collector: what *)
(* is alive refers to what is alive; what is marked, and on no list, refers *)
(* to marked objects; what is not as new is ahead of the sweep             *)
(* (singlestep, luaC_fullgc and every store and allocation of the machine). *)
THEOREM CollectorIsSafe == GcSpec => []GcInv
<1>1. GcInit => GcInv
  BY InitInv
<1>2. GcInv /\ [GcNext]_gvars => GcInv'
  BY NextInv
<1> QED
  BY <1>1, <1>2, PTL DEF GcSpec

(* The collector frees nothing that the program can still reach, for every *)
(* number of objects, places and steps of the sweep, and in whatever order *)
(* the program and the collector step.                                     *)
THEOREM NothingReachableFreed == GcSpec => []NothingReachableIsFreed
<1>1. GcInv => NothingReachableIsFreed
  BY GcInvImplies
<1> QED
  BY <1>1, CollectorIsSafe, PTL

=============================================================================
