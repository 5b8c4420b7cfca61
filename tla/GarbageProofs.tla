---------------------------- MODULE GarbageProofs ----------------------------
(***************************************************************************)
(* Proofs about the collector of Lua: what was unreachable when a cycle    *)
(* began, and stayed so, is gone when it ends, for every number of         *)
(* objects, places and steps of the sweep.                                 *)
(*                                                                         *)
(* GarbageInv says what holds of garbage until it is freed: nothing that is *)
(* not garbage refers to it, so that no step of the collector comes upon   *)
(* it; it is white while objects are marked, and dead while they are swept. *)
(***************************************************************************)
EXTENDS GcProofs

-----------------------------------------------------------------------------
(* What garbage is.                                                        *)

\* Neither a root nor what is not in G leads to G.
Forgotten(s, G) ==
  /\ Main \notin G /\ \A o \in ToSet(s.tmudata) : o \notin G
  /\ \A x \in Ids : Exists(s, x) /\ x \notin G => \A p \in Strong(s, x) : p \notin G
\* It has not been marked, and will be freed.
Waits(s, o) == IF s.gcstate = "propagate" THEN iswhite(s, o) ELSE isdead(s, o)
Lost(s, G) == G \subseteq Unreachable(s) /\ Forgotten(s, G) /\ \A o \in G : Waits(s, o)
GarbageInv == GcInv /\ Lost(g, garbage)

-----------------------------------------------------------------------------
(* What is reached.                                                        *)

LEMMA StrongNames ==
  ASSUME NEW s, Graph(s), NEW o \in Ids
  PROVE  Strong(s, o) \subseteq Names
<1>1. s \in States /\ OpenApart(s)
  BY DEF Graph
<1>2. s.obj[o].val \in Names /\ s.obj[o].slot \in Slots
  BY <1>1, FieldsOf
<1>3. Held(s, o) \in Names
  <2>1. CASE IsOpenUpval(s, o)
    <3>1. s.obj[o].th \in Ids /\ s.obj[o].slot \in Places
      BY <1>1, <1>2, <2>1 DEF OpenApart, IsOpenUpval, Slots
    <3>2. s.stack[s.obj[o].slot] \in Names /\ s.obj[s.obj[o].th].val \in Names
      BY <1>1, <3>1, FieldsOf
    <3> QED
      BY <2>1, <3>2 DEF Held, UpvalSlot
  <2>2. CASE ~IsOpenUpval(s, o)
    BY <1>2, <2>2 DEF Held
  <2> QED
    BY <2>1, <2>2
<1>4. ToSet(s.stack) \subseteq Names
  BY <1>1, FieldsOf DEF ToSet
<1>5. GlobalTable \in Names
  BY Constants DEF Names
<1> QED
  BY <1>2, <1>3, <1>4, <1>5 DEF Strong

\* What is in X leads to nothing else.
Shut(s, X) == X \subseteq Ids /\ \A o \in X : \A p \in Strong(s, o) : p # 0 => p \in X

LEMMA NearerIs ==
  ASSUME NEW s, Graph(s), NEW Y, Y \subseteq Ids
  PROVE  /\ Y \subseteq Nearer(s, Y) /\ Nearer(s, Y) \subseteq Ids
         /\ Nearer(s, Y) = Y => Shut(s, Y)
         /\ \A X : Shut(s, X) /\ Y \subseteq X => Nearer(s, Y) \subseteq X
<1>1. \A p : p \in Nearer(s, Y) <=> p \in Y \/ (p # 0 /\ \E o \in Y : p \in Strong(s, o))
  <2>1. PICK R : R = {Strong(s, o) : o \in Y}
    OBVIOUS
  <2>2. Nearer(s, Y) = Y \cup ((UNION R) \ {0})
    BY <2>1 DEF Nearer
  <2>3. \A p : p \in UNION R <=> \E o \in Y : p \in Strong(s, o)
    <3>1. \A p : p \in UNION R <=> \E Q \in R : p \in Q
      OBVIOUS
    <3> QED
      BY <2>1, <3>1
  <2> QED
    BY <2>2, <2>3
<1>2. \A o \in Y : \A p \in Strong(s, o) : p # 0 => p \in Ids
  BY StrongNames DEF Names
<1> QED
  BY <1>1, <1>2 DEF Shut

\* What is reached from S is the least set with S that leads to nothing else:
\* each step but the last finds an object, and there are not more of them.
LEMMA ReachedIs ==
  ASSUME NEW s, Graph(s), NEW S, S \subseteq Ids
  PROVE  LET R == ReachedFrom(s, S)
         IN  /\ S \subseteq R /\ Shut(s, R)
             /\ \A X : Shut(s, X) /\ S \subseteq X => R \subseteq X
<1> DEFINE k == MaxObjects + 2
           Least(Y) == \A X \in SUBSET Ids : Shut(s, X) /\ S \subseteq X => Y \subseteq X
           Fine(Y, i) == S \subseteq Y /\ Least(Y) /\ (Shut(s, Y) \/ Cardinality(Y) >= i)
           f(x, n) == Nearer(s, x)
           T == [i \in 0 .. k |-> {Y \in SUBSET Ids : Fine(Y, i)}]
           Step == [i \in 1 .. k |-> [x \in T[i - 1] |-> f(x, i)]]
<1>1. k \in Nat /\ IsFiniteSet(Ids) /\ Ids = 1 .. k
  BY Constants
<1>2. S \in T[0]
  <2>1. IsFiniteSet(S)
    BY <1>1, FS_Subset
  <2>2. Cardinality(S) \in Nat
    BY <2>1, FS_CardinalityType
  <2>3. Fine(S, 0)
    BY <2>2
  <2> HIDE DEF Fine, k
  <2>4. 0 \in 0 .. k
    BY <1>1
  <2> QED
    BY <2>3, <2>4
<1>3. ASSUME NEW i \in 1 .. k, NEW x \in T[i - 1]
      PROVE  f(x, i) \in T[i]
  <2> HIDE DEF k
  <2>1. i - 1 \in 0 .. k /\ i \in 0 .. k /\ i \in Nat
    BY <1>1
  <2>2. x \subseteq Ids /\ Fine(x, i - 1)
    <3> HIDE DEF Fine
    <3> QED
      BY <2>1
  <2> DEFINE y == f(x, i)
  <2>3. /\ x \subseteq y /\ y \subseteq Ids /\ (y = x => Shut(s, x))
        /\ \A X : Shut(s, X) /\ x \subseteq X => y \subseteq X
    BY <2>2, NearerIs
  <2> HIDE DEF y, f
  <2>4. Shut(s, y) \/ Cardinality(y) >= i
    <3>1. CASE Shut(s, x)
      <4>1. y = x
        BY <2>3, <3>1
      <4> QED
        BY <3>1, <4>1
    <3>2. CASE ~Shut(s, x)
      <4>1. IsFiniteSet(y) /\ x # y
        BY <1>1, <2>3, <3>2, FS_Subset
      <4>2. IsFiniteSet(x) /\ Cardinality(x) \in Nat /\ Cardinality(y) \in Nat
        BY <2>3, <4>1, FS_Subset, FS_CardinalityType
      <4>3. Cardinality(x) <= Cardinality(y) /\ (Cardinality(y) = Cardinality(x) => y = x)
        BY <2>3, <4>1, FS_Subset
      <4>4. Cardinality(x) >= i - 1
        BY <2>2, <3>2
      <4> QED
        BY <2>1, <4>1, <4>2, <4>3, <4>4
    <3> QED
      BY <3>1, <3>2
  <2>5. Fine(y, i)
    BY <2>2, <2>3, <2>4
  <2> HIDE DEF Fine
  <2> QED
    BY <2>1, <2>3, <2>5 DEF y
<1>4. Within(k, T, Step)
  <2> HIDE DEF T, f
  <2> QED
    BY <1>3 DEF Within
<1>5. PICK m : Repeats(k, T, Step, S, m)
  <2> HIDE DEF T, Step, k
  <2> QED
    BY <1>1, <1>2, <1>4, Repeated
<1>6. m = [i \in 0 .. k |-> IF i = 0 THEN S ELSE f(m[i - 1], i)]
  <2> HIDE DEF T, f
  <2>1. \A i \in 1 .. k : Step[i][m[i - 1]] = f(m[i - 1], i)
    <3> SUFFICES ASSUME NEW i \in 1 .. k PROVE Step[i][m[i - 1]] = f(m[i - 1], i)
      OBVIOUS
    <3>1. i - 1 \in 0 .. k
      BY <1>1
    <3>2. m[i - 1] \in T[i - 1]
      BY <3>1, <1>5 DEF Repeats
    <3> QED
      BY <3>2
  <2> HIDE DEF Step
  <2>2. \A i \in 0 .. k : i # 0 => i \in 1 .. k
    BY <1>1
  <2> QED
    BY <1>5, <2>1, <2>2 DEF Repeats
<1>7. PICK r : r = CHOOSE h : h = [n \in 0 .. k |-> IF n = 0 THEN S ELSE f(h[n - 1], n)]
  OBVIOUS
<1>8. r = [n \in 0 .. k |-> IF n = 0 THEN S ELSE f(r[n - 1], n)]
  <2> HIDE DEF f
  <2> QED
    BY <1>6, <1>7
<1>9. ReachedFrom(s, S) = r[k]
  BY <1>7 DEF ReachedFrom, k
<1>10. r[k] \in T[k]
  <2>1. r[0] \in T[0]
    <3> HIDE DEF T, f
    <3>1. 0 \in 0 .. k
      BY <1>1
    <3> QED
      BY <1>2, <1>8, <3>1
  <2>2. \A i \in 1 .. k : r[i - 1] \in T[i - 1] => r[i] \in T[i]
    <3> HIDE DEF T
    <3> SUFFICES ASSUME NEW i \in 1 .. k, r[i - 1] \in T[i - 1] PROVE r[i] \in T[i]
      OBVIOUS
    <3>1. i \in 0 .. k /\ i # 0
      BY <1>1
    <3>2. r[i] = f(r[i - 1], i)
      <4> HIDE DEF f
      <4> QED
        BY <1>8, <3>1
    <3> QED
      BY <1>3, <3>2
  <2>3. \A i \in 0 .. k : r[i] \in T[i]
    <3> HIDE DEF T, f
    <3> QED
      BY <1>1, <2>1, <2>2, PassedOn
  <2>4. k \in 0 .. k
    BY <1>1
  <2> QED
    BY <2>3, <2>4
<1>11. r[k] \subseteq Ids /\ Fine(r[k], k)
  <2> HIDE DEF k, Fine
  <2>1. k \in 0 .. k
    BY <1>1
  <2> QED
    BY <1>10, <2>1
<1> DEFINE R == r[k]
<1>12. R \subseteq Ids /\ S \subseteq R /\ Least(R) /\ (Shut(s, R) \/ Cardinality(R) >= k)
  BY <1>11
<1> HIDE DEF R
<1>13. Shut(s, R)
  <2>1. CASE Cardinality(R) >= k
    <3>1. Cardinality(Ids) = k
      BY <1>1, FS_Interval
    <3>2. IsFiniteSet(R) /\ Cardinality(R) \in Nat
      BY <1>1, <1>12, FS_Subset, FS_CardinalityType
    <3>3. Cardinality(R) <= Cardinality(Ids) /\ (Cardinality(Ids) = Cardinality(R) => Ids = R)
      BY <1>1, <1>12, FS_Subset
    <3>4. R = Ids
      BY <1>1, <2>1, <3>1, <3>2, <3>3
    <3> QED
      BY <3>4, StrongNames DEF Shut, Names
  <2> QED
    BY <1>12, <2>1
<1> QED
  BY <1>9, <1>12, <1>13 DEF R, Shut

-----------------------------------------------------------------------------
(* What is reachable and what is not.                                      *)

LEMMA ReachableIs ==
  ASSUME NEW s, Graph(s)
  PROVE  /\ Main \in Reachable(s) /\ GlobalTable \in Reachable(s)
         /\ ToSet(s.tmudata) \subseteq Reachable(s) /\ Shut(s, Reachable(s))
         /\ \A i \in Places : s.stack[i] # 0 => s.stack[i] \in Reachable(s)
         /\ \A X : Shut(s, X) /\ Main \in X /\ ToSet(s.tmudata) \subseteq X => Reachable(s) \subseteq X
         /\ Unreachable(s) \subseteq Ids
         /\ \A o \in Ids : o \in Unreachable(s) <=> Exists(s, o) /\ o \notin Reachable(s)
<1> DEFINE S == {Main} \cup ToSet(s.tmudata)
<1>1. s \in States /\ RootsAlive(s)
  BY DEF Graph
<1>2. S \subseteq Ids
  BY <1>1, FieldsOf, Constants DEF ToSet
<1>3. /\ S \subseteq Reachable(s) /\ Shut(s, Reachable(s))
      /\ \A X : Shut(s, X) /\ S \subseteq X => Reachable(s) \subseteq X
  BY <1>2, ReachedIs DEF Reachable
<1>4. Strong(s, Main) = {GlobalTable, s.obj[Main].val} \cup ToSet(s.stack)
  BY <1>1 DEF RootsAlive, Strong
<1>5. GlobalTable # 0 /\ Main \in Ids
  BY Constants
<1>6. GlobalTable \in Reachable(s)
  BY <1>3, <1>4, <1>5 DEF Shut
<1>7. \A i \in Places : s.stack[i] # 0 => s.stack[i] \in Reachable(s)
  <2>1. \A i \in Places : s.stack[i] \in ToSet(s.stack)
    BY <1>1, FieldsOf DEF ToSet
  <2> QED
    BY <1>3, <1>4, <2>1 DEF Shut
<1>8. \A o \in Ids : o \in Dynamic \/ o = Main \/ o = GlobalTable
  BY Constants DEF Dynamic, Main, GlobalTable
<1>9. Dynamic \subseteq Ids
  BY Constants
<1> QED
  BY <1>3, <1>6, <1>7, <1>8, <1>9 DEF Unreachable

LEMMA UnreachableForgotten ==
  ASSUME NEW s, Graph(s)
  PROVE  Forgotten(s, Unreachable(s))
<1>1. \A o \in ToSet(s.tmudata) : o \in Ids
  <2>1. s \in States
    BY DEF Graph
  <2> QED
    BY <2>1, FieldsOf DEF ToSet
<1> SUFFICES ASSUME NEW x \in Ids, Exists(s, x), x \notin Unreachable(s), NEW p \in Strong(s, x)
             PROVE  p \notin Unreachable(s)
  BY <1>1, ReachableIs, Constants DEF Forgotten
<1>2. x \in Reachable(s)
  BY ReachableIs
<1>3. p = 0 \/ p \in Reachable(s)
  BY <1>2, ReachableIs DEF Shut
<1> QED
  BY <1>3, ReachableIs, Constants

\* From s to r: what is not reachable refers to nothing new but what is.
Touches(s, r) ==
  \A x \in Ids : Exists(r, x) /\ x \notin Reachable(r) =>
    /\ Exists(s, x)
    /\ \A p \in Strong(r, x) : p = 0 \/ p \in Reachable(r) \/ p \in Strong(s, x)

\* Garbage that is not reached stays forgotten.
LEMMA Renewed ==
  ASSUME NEW s, NEW r, NEW G, Graph(r), Forgotten(s, G), Touches(s, r)
  PROVE  Forgotten(r, G \cap Unreachable(r))
<1> DEFINE H == G \cap Unreachable(r)
<1>1. Main \notin H /\ \A o \in ToSet(r.tmudata) : o \notin H
  BY ReachableIs, Constants
<1> SUFFICES ASSUME NEW x \in Ids, Exists(r, x), x \notin H, NEW p \in Strong(r, x), p \in H
             PROVE  FALSE
  BY <1>1 DEF Forgotten
<1>2. p # 0 /\ p \notin Reachable(r) /\ p \in G
  BY ReachableIs, Constants
<1>3. x \notin Reachable(r)
  BY <1>2, ReachableIs DEF Shut
<1>4. x \notin G
  BY <1>3, ReachableIs
<1>5. Exists(s, x) /\ p \in Strong(s, x)
  BY <1>2, <1>3 DEF Touches
<1> QED
  BY <1>2, <1>4, <1>5 DEF Forgotten

\* The same objects, which refer to the same ones.
Alike(s, r) ==
  \A o \in Ids : (Exists(r, o) <=> Exists(s, o)) /\ Strong(r, o) = Strong(s, o)

LEMMA AlikeIs ==
  ASSUME NEW s, NEW r, Alike(s, r)
  PROVE  /\ \A G : Forgotten(s, G) /\ (\A o \in ToSet(r.tmudata) : o \notin G) => Forgotten(r, G)
         /\ Graph(s) /\ Graph(r) /\ ToSet(r.tmudata) = ToSet(s.tmudata) =>
              Reachable(r) = Reachable(s) /\ Unreachable(r) = Unreachable(s)
<1>1. \A G : Forgotten(s, G) /\ (\A o \in ToSet(r.tmudata) : o \notin G) => Forgotten(r, G)
  BY DEF Alike, Forgotten
<1>2. ASSUME Graph(s), Graph(r), ToSet(r.tmudata) = ToSet(s.tmudata)
      PROVE  Reachable(r) = Reachable(s) /\ Unreachable(r) = Unreachable(s)
  <2>1. \A X : Shut(r, X) <=> Shut(s, X)
    BY DEF Shut, Alike
  <2>2. Reachable(r) \subseteq Reachable(s)
    <3>1. /\ Main \in Reachable(s) /\ ToSet(r.tmudata) \subseteq Reachable(s)
          /\ Shut(r, Reachable(s))
      BY <1>2, <2>1, ReachableIs
    <3> QED
      BY <1>2, <3>1, ReachableIs
  <2>3. Reachable(s) \subseteq Reachable(r)
    <3>1. /\ Main \in Reachable(r) /\ ToSet(s.tmudata) \subseteq Reachable(r)
          /\ Shut(s, Reachable(r))
      BY <1>2, <2>1, ReachableIs
    <3> QED
      BY <1>2, <3>1, ReachableIs
  <2>4. {o \in Dynamic : Exists(r, o)} = {o \in Dynamic : Exists(s, o)}
    BY Constants DEF Alike
  <2> QED
    BY <2>2, <2>3, <2>4 DEF Unreachable
<1> QED
  BY <1>1, <1>2

LEMMA SameAlike ==
  ASSUME NEW s, NEW r, SameGraph(s, r), OpenApart(s)
  PROVE  /\ Alike(s, r) /\ r.tmudata = s.tmudata
         /\ \A G : Forgotten(s, G) => Forgotten(r, G)
<1>1. Alike(s, r) /\ r.tmudata = s.tmudata
  BY SameIs DEF Alike, SameGraph
<1> QED
  BY <1>1, AlikeIs DEF Forgotten

-----------------------------------------------------------------------------
(* Marking comes upon no garbage.                                          *)

Pale(s, G) == \A o \in G : iswhite(s, o)
Aside(s, G) == s \in States /\ OpenApart(s) /\ G \subseteq Ids /\ Forgotten(s, G)
SameIn(s, r, o) ==
  /\ r.obj[o].color = s.obj[o].color /\ r.obj[o].gc = s.obj[o].gc
  /\ r.obj[o].final = s.obj[o].final
Spares(s, r, G) == SameGraph(s, r) /\ \A o \in G : SameIn(s, r, o)

LEMMA SparesIs ==
  ASSUME NEW s, NEW r, NEW G, Aside(s, G), Spares(s, r, G)
  PROVE  /\ Aside(r, G) /\ (Pale(s, G) => Pale(r, G))
         /\ \A w : Spares(r, w, G) => Spares(s, w, G)
<1>1. r \in States /\ OpenApart(r)
  BY DEF Aside, Spares, SameGraph, OpenApart, IsOpenUpval
<1>2. Forgotten(r, G)
  BY SameAlike DEF Aside, Spares
<1>3. \A w : Spares(r, w, G) => Spares(s, w, G)
  BY SameChain DEF Spares, SameIn
<1> QED
  BY <1>1, <1>2, <1>3 DEF Aside, Spares, SameIn, Pale, iswhite

LEMMA SparesSelf ==
  ASSUME NEW s, NEW G, s \in States
  PROVE  Spares(s, s, G)
BY SameChain DEF Spares, SameIn

\* Another object is painted.
LEMMA PaintedSpares ==
  ASSUME NEW s, NEW G, Aside(s, G), NEW o \in Ids, o \notin G, NEW c \in Colors
  PROVE  Spares(s, Painted(s, o, c), G)
<1>1. s \in States /\ s.obj \in [Ids -> Objects] /\ G \subseteq Ids
  BY FieldsOf DEF Aside
<1>2. SameGraph(s, Painted(s, o, c))
  BY <1>1, PaintedIs
<1>3. \A p \in Ids : p # o => Painted(s, o, c).obj[p] = s.obj[p]
  BY <1>1 DEF Painted, States
<1> QED
  BY <1>1, <1>2, <1>3 DEF Spares, SameIn

\* Another object joins the list.
LEMMA PushGraySpares ==
  ASSUME NEW s, NEW G, Aside(s, G), NEW o \in Ids, o \notin G
  PROVE  Spares(s, PushGray(s, o), G)
<1> DEFINE t == Painted(s, o, "gray")
           r == PushGray(s, o)
<1>1. Spares(s, t, G) /\ s \in States /\ t \in States
  BY PaintedSpares DEF Colors, Spares, SameGraph, Aside
<1>2. t.gray \in Seq(Ids) /\ t.grayagain \in Seq(Ids) /\ t.weak \in Seq(Ids)
  BY <1>1, FieldsOf
<1> DEFINE q == <<o>> \o t.gray
<1>3. ListsSet(t, r, q, t.grayagain, t.weak)
  BY <1>1 DEF PushGray, ListsSet, States
<1>4. q \in Seq(Ids)
  BY <1>2
<1> HIDE DEF t, r, q
<1>5. SameGraph(t, r) /\ r.obj = t.obj
  BY <1>1, <1>2, <1>3, <1>4, WithLists
<1>6. Spares(t, r, G)
  BY <1>5 DEF Spares, SameIn
<1> QED
  BY <1>1, <1>6, SparesIs DEF r

LEMMA MarkTraversedSpares ==
  ASSUME NEW s, NEW G, Aside(s, G), NEW o \in Names, o \notin G
  PROVE  Spares(s, MarkTraversed(s, o), G)
<1>1. CASE o = 0 \/ ~iswhite(s, o)
  BY <1>1, SparesSelf DEF MarkTraversed, Aside
<1>2. CASE o # 0 /\ iswhite(s, o)
  <2>1. o \in Ids
    BY <1>2 DEF Names
  <2> QED
    BY <1>2, <2>1, PaintedSpares, PushGraySpares DEF MarkTraversed, Colors
<1> QED
  BY <1>1, <1>2

LEMMA MarkUdataSpares ==
  ASSUME NEW s, NEW G, Aside(s, G), NEW o \in Ids, o \notin G, s.obj[o].kind = "udata"
  PROVE  Spares(s, MarkUdata(s, o), G)
<1> DEFINE t == Painted(s, o, "black")
<1>1. Spares(s, t, G)
  BY PaintedSpares DEF Colors
<1>2. t.obj[o].val = s.obj[o].val
  BY <1>1 DEF Spares, SameGraph
<1>3. s.obj[o].val \in Strong(s, o) /\ Exists(s, o) /\ s.obj[o].val \in Names
  BY FieldsOf DEF Strong, Exists, Aside
<1>4. s.obj[o].val \notin G
  BY <1>3 DEF Aside, Forgotten
<1>5. MarkUdata(s, o) = MarkTraversed(t, s.obj[o].val)
  BY DEF MarkUdata
<1> HIDE DEF t
<1>6. Aside(t, G)
  BY <1>1, SparesIs
<1> QED
  BY <1>1, <1>3, <1>4, <1>5, <1>6, SparesIs, MarkTraversedSpares

LEMMA markvalueSpares ==
  ASSUME NEW s, NEW G, Aside(s, G), NEW o \in Names, o \notin G
  PROVE  Spares(s, markvalue(s, o), G)
BY MarkUdataSpares, MarkTraversedSpares DEF markvalue, Names

LEMMA MarkUpvalSpares ==
  ASSUME NEW s, NEW G, Aside(s, G), NEW o \in Ids, o \notin G, s.obj[o].kind = "upval",
         Held(s, o) \in Names
  PROVE  Spares(s, MarkUpval(s, o), G)
<1> DEFINE t == Painted(s, o, "gray")
           v == Held(s, o)
           m == markvalue(t, v)
           r == Painted(m, o, "black")
<1>1. Spares(s, t, G)
  BY PaintedSpares DEF Colors
<1>2. v \notin G
  BY DEF Strong, Exists, Aside, Forgotten
<1>3. MarkUpval(s, o) = IF IsOpenUpval(s, o) THEN m ELSE r
  BY DEF MarkUpval
<1> HIDE DEF t, v
<1>4. Aside(t, G) /\ v \in Names
  BY <1>1, SparesIs DEF v
<1>5. Spares(t, m, G)
  BY <1>2, <1>4, markvalueSpares
<1> HIDE DEF m
<1>6. Spares(s, m, G) /\ Aside(m, G)
  BY <1>1, <1>4, <1>5, SparesIs
<1>7. Spares(m, r, G)
  BY <1>6, PaintedSpares DEF Colors
<1> HIDE DEF r
<1>8. Spares(s, r, G)
  BY <1>6, <1>7, SparesIs
<1> QED
  BY <1>3, <1>6, <1>8

LEMMA reallymarkobjectSpares ==
  ASSUME NEW s, NEW G, Aside(s, G), Graph(s), NEW o \in Ids, o \notin G
  PROVE  /\ Spares(s, reallymarkobject(s, o), G)
         /\ Spares(s, markobject(s, o), G)
<1>1. s.obj[o].kind = "upval" => Held(s, o) \in Names
  BY StrongNames DEF Strong
<1>2. Spares(s, reallymarkobject(s, o), G)
  BY <1>1, MarkUpvalSpares, markvalueSpares DEF reallymarkobject, Names
<1> QED
  BY <1>2, SparesSelf DEF markobject, Aside

\* The values on the main stack, of which none is garbage.
LEMMA MarkStackSpares ==
  ASSUME NEW s, NEW G, Aside(s, G), s.obj[Main].kind = "thread"
  PROVE  Spares(s, MarkStack(s), G)
<1> DEFINE f(x, n) == markvalue(x, s.stack[n])
           T == [i \in 0 .. StackSlots |-> {x \in States : Spares(s, x, G)}]
           Step == [i \in 1 .. StackSlots |-> [x \in T[i - 1] |-> f(x, i)]]
<1>1. s \in States /\ StackSlots \in Nat /\ Places = 1 .. StackSlots
  BY Constants DEF Places, Aside
<1>2. s \in T[0]
  BY <1>1, SparesSelf
<1>3. ASSUME NEW i \in 1 .. StackSlots, NEW x \in T[i - 1]
      PROVE  f(x, i) \in T[i]
  <2>1. i - 1 \in 0 .. StackSlots /\ i \in 0 .. StackSlots /\ i \in Places
    BY <1>1
  <2>2. x \in States /\ Spares(s, x, G)
    BY <2>1
  <2>3. s.stack[i] \in Names /\ s.stack[i] \in ToSet(s.stack)
    BY <1>1, <2>1, FieldsOf DEF ToSet
  <2>4. s.stack[i] \notin G
    BY <2>3, Constants DEF Strong, Exists, Aside, Forgotten
  <2>5. Spares(x, f(x, i), G)
    BY <2>2, <2>3, <2>4, SparesIs, markvalueSpares
  <2> HIDE DEF f
  <2>6. Spares(s, f(x, i), G)
    BY <2>2, <2>5, SparesIs
  <2>7. f(x, i) \in States
    BY <2>6 DEF Spares, SameGraph
  <2> QED
    BY <2>1, <2>6, <2>7
<1>4. Within(StackSlots, T, Step)
  <2> HIDE DEF T, f
  <2> QED
    BY <1>3 DEF Within
<1>5. PICK m : Repeats(StackSlots, T, Step, s, m)
  <2> HIDE DEF T, Step
  <2> QED
    BY <1>1, <1>2, <1>4, Repeated
<1>6. m = [i \in 0 .. StackSlots |-> IF i = 0 THEN s ELSE f(m[i - 1], i)]
  <2> HIDE DEF T, f
  <2>1. \A i \in 1 .. StackSlots : Step[i][m[i - 1]] = f(m[i - 1], i)
    <3> SUFFICES ASSUME NEW i \in 1 .. StackSlots PROVE Step[i][m[i - 1]] = f(m[i - 1], i)
      OBVIOUS
    <3>1. i - 1 \in 0 .. StackSlots
      BY <1>1
    <3>2. m[i - 1] \in T[i - 1]
      BY <3>1, <1>5 DEF Repeats
    <3> QED
      BY <3>2
  <2> HIDE DEF Step
  <2>2. \A i \in 0 .. StackSlots : i # 0 => i \in 1 .. StackSlots
    BY <1>1
  <2> QED
    BY <1>5, <2>1, <2>2 DEF Repeats
<1>7. PICK r : r = CHOOSE h : h = [n \in 0 .. StackSlots |-> IF n = 0 THEN s ELSE f(h[n - 1], n)]
  OBVIOUS
<1>8. r = [n \in 0 .. StackSlots |-> IF n = 0 THEN s ELSE f(r[n - 1], n)]
  <2> HIDE DEF f
  <2> QED
    BY <1>6, <1>7
<1>9. MarkStack(s) = r[StackSlots]
  BY <1>7 DEF MarkStack
<1>10. r[StackSlots] \in T[StackSlots]
  <2>1. r[0] \in T[0]
    <3> HIDE DEF T, f
    <3>1. 0 \in 0 .. StackSlots
      BY <1>1
    <3> QED
      BY <1>2, <1>8, <3>1
  <2>2. \A i \in 1 .. StackSlots : r[i - 1] \in T[i - 1] => r[i] \in T[i]
    <3> HIDE DEF T
    <3> SUFFICES ASSUME NEW i \in 1 .. StackSlots, r[i - 1] \in T[i - 1] PROVE r[i] \in T[i]
      OBVIOUS
    <3>1. i \in 0 .. StackSlots /\ i # 0
      BY <1>1
    <3>2. r[i] = f(r[i - 1], i)
      <4> HIDE DEF f
      <4> QED
        BY <1>8, <3>1
    <3> QED
      BY <1>3, <3>2
  <2>3. \A i \in 0 .. StackSlots : r[i] \in T[i]
    <3> HIDE DEF T, f
    <3> QED
      BY <1>1, <2>1, <2>2, PassedOn
  <2>4. StackSlots \in 0 .. StackSlots
    BY <1>1
  <2> QED
    BY <2>3, <2>4
<1> QED
  <2>1. StackSlots \in 0 .. StackSlots
    BY <1>1
  <2>2. Spares(s, r[StackSlots], G)
    BY <1>10, <2>1
  <2> QED
    BY <1>9, <2>2

LEMMA propagatemarkSpares ==
  ASSUME NEW s, NEW G, Aside(s, G), Graph(s), GrayLists(s), Pale(s, G), s.gray # <<>>
  PROVE  Spares(s, propagatemark(s), G)
<1> DEFINE o == Head(s.gray)
           f == Off(s)
           v == s.obj[o].val
           r == propagatemark(s)
<1>1. s \in States /\ OpenApart(s) /\ RootsAlive(s) /\ G \subseteq Ids
  BY DEF Graph, Aside
<1>2. /\ o \in Ids /\ SameGraph(s, f) /\ OnlyPaints(s, f, o, "black")
      /\ f.gray = Tail(s.gray) /\ f.grayagain = s.grayagain /\ f.weak = s.weak
  BY <1>1, OffIs
<1>3. s.obj[o].kind \in Traversed /\ Exists(s, o) /\ o \notin G
  <2>1. s.gray \in Seq(Ids)
    BY <1>1, FieldsOf
  <2>2. o \in ToSet(s.gray)
    BY <2>1, PopIs
  <2>3. s.obj[o].color = "gray"
    BY <1>2, <2>2 DEF GrayLists, Listed
  <2> QED
    BY <2>2, <2>3 DEF GrayLists, Traversed, Exists, Pale, iswhite
<1>4. Spares(s, f, G)
  <2>1. \A p \in Ids : p # o => f.obj[p] = s.obj[p]
    <3>1. s.obj \in [Ids -> Objects]
      BY <1>1, FieldsOf
    <3> QED
      BY <1>1, <1>2, <3>1 DEF Off, Painted, States
  <2> QED
    BY <1>1, <1>2, <1>3, <2>1 DEF Spares, SameIn
<1>5. f.obj[o].kind = s.obj[o].kind /\ f.obj[o].val = v
  BY <1>2 DEF SameGraph
<1>6. r = CASE s.obj[o].kind \in {"table", "weak"} -> traversetable(f, o)
            [] s.obj[o].kind = "closure" -> markobject(f, v)
            [] s.obj[o].kind = "thread" -> traversestack(f, o)
  BY DEF propagatemark, Off
<1>7. v \in Names /\ Aside(f, G) /\ f \in States
  BY <1>1, <1>2, <1>4, FieldsOf, SparesIs DEF Spares, SameGraph
<1>8. \A p \in Strong(s, o) : p \notin G
  BY <1>2, <1>3 DEF Aside, Forgotten
<1> HIDE DEF f, v, r
<1>9. CASE s.obj[o].kind = "table"
  <2>1. r = markvalue(f, v) /\ v \notin G
    BY <1>5, <1>6, <1>8, <1>9 DEF traversetable, Strong, v
  <2> QED
    BY <1>4, <1>7, <2>1, markvalueSpares, SparesIs DEF r
<1>10. CASE s.obj[o].kind = "weak"
  <2>1. r = ToWeak(s)
    BY <1>5, <1>6, <1>10 DEF traversetable, ToWeak, f
  <2>2. SameGraph(s, r)
    BY <1>1, <1>10, <2>1, AgainIs DEF Takes
  <2>3. r.obj = Painted(f, o, "gray").obj
    BY <1>7, <2>1 DEF ToWeak, Painted, f, States
  <2>4. Spares(f, Painted(f, o, "gray"), G)
    BY <1>2, <1>3, <1>7, PaintedSpares DEF Colors
  <2>5. Spares(s, r, G)
    BY <1>4, <2>2, <2>3, <2>4 DEF Spares, SameIn
  <2> QED
    BY <2>5 DEF r
<1>11. CASE s.obj[o].kind = "closure"
  <2>1. r = markobject(f, v) /\ v \notin G
    BY <1>6, <1>8, <1>11 DEF Strong, v
  <2>2. v \in Ids
    <3>1. o \in Ids /\ ~iswhite(s, o)
      <4>1. s.gray \in Seq(Ids)
        BY <1>1, FieldsOf
      <4>2. o \in ToSet(s.gray)
        BY <4>1, PopIs
      <4> QED
        BY <1>2, <4>2 DEF GrayLists, Listed, iswhite
    <3>2. Alive(s, o)
      BY <1>1, <1>3, <3>1, Colours DEF Alive, iswhite, Whites
    <3>3. Refers(s, o)
      BY <3>1, <3>2 DEF Graph, AllRefer
    <3> QED
      BY <1>7, <1>11, <3>3 DEF Refers, Names, v
  <2>3. \A p \in Ids : f.obj[p].kind = s.obj[p].kind /\ Held(f, p) = Held(s, p)
    BY <1>1, <1>2, SameIs DEF SameGraph
  <2>4. f.obj[v].kind = "upval" => Held(f, v) \in Names
    BY <2>2, <2>3, StrongNames DEF Strong
  <2>5. Spares(f, r, G)
    BY <1>7, <2>1, <2>2, <2>4, MarkUpvalSpares, markvalueSpares, SparesSelf
      DEF markobject, reallymarkobject, Names
  <2> QED
    BY <1>4, <2>5, SparesIs DEF r
<1>12. CASE s.obj[o].kind = "thread"
  <2> DEFINE t == ToGrayagain(s)
             a == markvalue(t, GlobalTable)
  <2>1. SameGraph(s, t)
    BY <1>1, <1>12, AgainIs DEF Takes
  <2>2. r = IF o = Main THEN MarkStack(a) ELSE markvalue(a, v)
    BY <1>5, <1>6, <1>12 DEF traversestack, ToGrayagain, f
  <2>3. t.obj = Painted(f, o, "gray").obj
    BY <1>7 DEF ToGrayagain, Painted, f, States
  <2> HIDE DEF t
  <2>4. Spares(f, Painted(f, o, "gray"), G)
    BY <1>2, <1>3, <1>7, PaintedSpares DEF Colors
  <2>5. Spares(s, t, G)
    BY <1>4, <2>1, <2>3, <2>4 DEF Spares, SameIn
  <2>6. GlobalTable \in Names /\ GlobalTable \notin G /\ v \notin G
    BY <1>8, <1>12, Constants DEF Strong, Names, v
  <2>7. Aside(t, G) /\ Spares(t, a, G)
    BY <2>5, <2>6, SparesIs, markvalueSpares
  <2> HIDE DEF a
  <2>8. Spares(s, a, G) /\ Aside(a, G)
    BY <2>5, <2>7, SparesIs
  <2>9. a.obj[Main].kind = "thread"
    BY <1>1, <2>8, Constants DEF RootsAlive, Spares, SameGraph
  <2>10. Spares(a, r, G)
    BY <1>7, <2>2, <2>6, <2>8, <2>9, MarkStackSpares, markvalueSpares
  <2> QED
    BY <2>8, <2>10, SparesIs DEF r
<1> QED
  BY <1>3, <1>9, <1>10, <1>11, <1>12 DEF Traversed

\* propagateall: every object that is traversed is marked, and none of these
\* is garbage.
LEMMA propagateallSpares ==
  ASSUME NEW s, NEW G, NEW X, Aside(s, G), Marked(s, X), Pale(s, G)
  PROVE  Spares(s, propagateall(s), G)
<1> DEFINE k == MarksLeft(s)
           f(x, n) == Propagated(x)
           T == [i \in 0 .. k |-> {x \in States : Spares(s, x, G) /\ Marked(x, X)}]
           Step == [i \in 1 .. k |-> [x \in T[i - 1] |-> f(x, i)]]
<1>1. s \in States /\ k \in Nat
  BY MarksLeftNat DEF Aside
<1>2. s \in T[0]
  <2> HIDE DEF k
  <2> QED
    BY <1>1, SparesSelf
<1>3. ASSUME NEW i \in 1 .. k, NEW x \in T[i - 1]
      PROVE  f(x, i) \in T[i]
  <2> HIDE DEF k
  <2>1. i - 1 \in 0 .. k /\ i \in 0 .. k
    BY <1>1
  <2>2. x \in States /\ Spares(s, x, G) /\ Marked(x, X)
    BY <2>1
  <2>3. CASE x.gray = <<>>
    BY <2>1, <2>2, <2>3 DEF Propagated
  <2>4. CASE x.gray # <<>>
    <3>1. f(x, i) = propagatemark(x)
      BY <2>4 DEF Propagated
    <3> HIDE DEF f
    <3>2. Marked(f(x, i), X)
      BY <2>2, <2>4, <3>1, propagatemarkMarks
    <3>3. Spares(x, f(x, i), G)
      BY <2>2, <2>4, <3>1, SparesIs, propagatemarkSpares DEF Marked
    <3>4. Spares(s, f(x, i), G)
      BY <2>2, <3>3, SparesIs
    <3>5. f(x, i) \in States
      BY <3>4 DEF Spares, SameGraph
    <3> QED
      BY <2>1, <3>2, <3>4, <3>5
  <2> QED
    BY <2>3, <2>4
<1>4. Within(k, T, Step)
  <2> HIDE DEF T, f
  <2> QED
    BY <1>3 DEF Within
<1>5. PICK m : Repeats(k, T, Step, s, m)
  <2> HIDE DEF T, Step, k
  <2> QED
    BY <1>1, <1>2, <1>4, Repeated
<1>6. m = [i \in 0 .. k |-> IF i = 0 THEN s ELSE f(m[i - 1], i)]
  <2> HIDE DEF T, f
  <2>1. \A i \in 1 .. k : Step[i][m[i - 1]] = f(m[i - 1], i)
    <3> SUFFICES ASSUME NEW i \in 1 .. k PROVE Step[i][m[i - 1]] = f(m[i - 1], i)
      OBVIOUS
    <3>1. i - 1 \in 0 .. k
      BY <1>1
    <3>2. m[i - 1] \in T[i - 1]
      BY <3>1, <1>5 DEF Repeats
    <3> QED
      BY <3>2
  <2> HIDE DEF Step
  <2>2. \A i \in 0 .. k : i # 0 => i \in 1 .. k
    BY <1>1
  <2> QED
    BY <1>5, <2>1, <2>2 DEF Repeats
<1>7. PICK r : r = CHOOSE h : h = [n \in 0 .. k |-> IF n = 0 THEN s ELSE f(h[n - 1], n)]
  OBVIOUS
<1>8. r = [n \in 0 .. k |-> IF n = 0 THEN s ELSE f(r[n - 1], n)]
  <2> HIDE DEF f
  <2> QED
    BY <1>6, <1>7
<1>9. propagateall(s) = r[k]
  BY <1>7 DEF propagateall, k
<1>10. r[k] \in T[k]
  <2>1. r[0] \in T[0]
    <3> HIDE DEF T, f
    <3>1. 0 \in 0 .. k
      BY <1>1
    <3> QED
      BY <1>2, <1>8, <3>1
  <2>2. \A i \in 1 .. k : r[i - 1] \in T[i - 1] => r[i] \in T[i]
    <3> HIDE DEF T
    <3> SUFFICES ASSUME NEW i \in 1 .. k, r[i - 1] \in T[i - 1] PROVE r[i] \in T[i]
      OBVIOUS
    <3>1. i \in 0 .. k /\ i # 0
      BY <1>1
    <3>2. r[i] = f(r[i - 1], i)
      <4> HIDE DEF f
      <4> QED
        BY <1>8, <3>1
    <3> QED
      BY <1>3, <3>2
  <2>3. \A i \in 0 .. k : r[i] \in T[i]
    <3> HIDE DEF T, f
    <3> QED
      BY <1>1, <2>1, <2>2, PassedOn
  <2>4. k \in 0 .. k
    BY <1>1
  <2> QED
    BY <2>3, <2>4
<1> QED
  <2> HIDE DEF k
  <2>1. k \in 0 .. k
    BY <1>1
  <2>2. Spares(s, r[k], G)
    BY <1>10, <2>1
  <2> QED
    BY <1>9, <2>2

LEMMA remarkupvalsSpares ==
  ASSUME NEW s, NEW G, Aside(s, G), Graph(s), Pale(s, G)
  PROVE  Spares(s, remarkupvals(s), G)
<1> DEFINE k == MaxObjects + 2
           f(x, n) == RemarkUpval(x, n)
           T == [i \in 0 .. k |-> {x \in States : Spares(s, x, G)}]
           Step == [i \in 1 .. k |-> [x \in T[i - 1] |-> f(x, i)]]
<1>1. s \in States /\ k \in Nat /\ Ids = 1 .. k /\ OpenApart(s)
  BY Constants DEF Aside
<1>2. s \in T[0]
  <2> HIDE DEF k
  <2> QED
    BY <1>1, SparesSelf
<1>3. ASSUME NEW i \in 1 .. k, NEW x \in T[i - 1]
      PROVE  f(x, i) \in T[i]
  <2> HIDE DEF k
  <2>1. i - 1 \in 0 .. k /\ i \in 0 .. k /\ i \in Ids
    BY <1>1
  <2>2. x \in States /\ Spares(s, x, G)
    BY <2>1
  <2>3. Aside(x, G) /\ Pale(x, G) /\ (Exists(x, i) <=> Exists(s, i)) /\ Strong(x, i) = Strong(s, i)
    BY <1>1, <2>1, <2>2, SparesIs, SameIs DEF Spares
  <2>4. CASE ~(IsOpenUpval(x, i) /\ x.obj[i].color = "gray")
    BY <2>1, <2>2, <2>4 DEF RemarkUpval
  <2>5. CASE IsOpenUpval(x, i) /\ x.obj[i].color = "gray"
    <3>1. i \notin G /\ Exists(x, i) /\ Strong(x, i) = {Held(x, i)}
      BY <2>3, <2>5 DEF Pale, iswhite, IsOpenUpval, Exists, Strong
    <3>2. Held(x, i) \in Names /\ Held(x, i) \notin G
      BY <2>1, <2>3, <3>1, StrongNames DEF Aside, Forgotten
    <3>3. f(x, i) = markvalue(x, Held(x, i))
      BY <2>5 DEF RemarkUpval
    <3>4. Spares(x, f(x, i), G)
      BY <2>3, <3>2, <3>3, markvalueSpares
    <3> HIDE DEF f
    <3>5. Spares(s, f(x, i), G)
      BY <2>2, <3>4, SparesIs
    <3>6. f(x, i) \in States
      BY <3>5 DEF Spares, SameGraph
    <3> QED
      BY <2>1, <3>5, <3>6
  <2> QED
    BY <2>4, <2>5
<1>4. Within(k, T, Step)
  <2> HIDE DEF T, f
  <2> QED
    BY <1>3 DEF Within
<1>5. PICK m : Repeats(k, T, Step, s, m)
  <2> HIDE DEF T, Step, k
  <2> QED
    BY <1>1, <1>2, <1>4, Repeated
<1>6. m = [i \in 0 .. k |-> IF i = 0 THEN s ELSE f(m[i - 1], i)]
  <2> HIDE DEF T, f
  <2>1. \A i \in 1 .. k : Step[i][m[i - 1]] = f(m[i - 1], i)
    <3> SUFFICES ASSUME NEW i \in 1 .. k PROVE Step[i][m[i - 1]] = f(m[i - 1], i)
      OBVIOUS
    <3>1. i - 1 \in 0 .. k
      BY <1>1
    <3>2. m[i - 1] \in T[i - 1]
      BY <3>1, <1>5 DEF Repeats
    <3> QED
      BY <3>2
  <2> HIDE DEF Step
  <2>2. \A i \in 0 .. k : i # 0 => i \in 1 .. k
    BY <1>1
  <2> QED
    BY <1>5, <2>1, <2>2 DEF Repeats
<1>7. PICK r : r = CHOOSE h : h = [n \in 0 .. k |-> IF n = 0 THEN s ELSE f(h[n - 1], n)]
  OBVIOUS
<1>8. r = [n \in 0 .. k |-> IF n = 0 THEN s ELSE f(r[n - 1], n)]
  <2> HIDE DEF f
  <2> QED
    BY <1>6, <1>7
<1>9. remarkupvals(s) = r[k]
  BY <1>7 DEF remarkupvals, k
<1>10. r[k] \in T[k]
  <2>1. r[0] \in T[0]
    <3> HIDE DEF T, f
    <3>1. 0 \in 0 .. k
      BY <1>1
    <3> QED
      BY <1>2, <1>8, <3>1
  <2>2. \A i \in 1 .. k : r[i - 1] \in T[i - 1] => r[i] \in T[i]
    <3> HIDE DEF T
    <3> SUFFICES ASSUME NEW i \in 1 .. k, r[i - 1] \in T[i - 1] PROVE r[i] \in T[i]
      OBVIOUS
    <3>1. i \in 0 .. k /\ i # 0
      BY <1>1
    <3>2. r[i] = f(r[i - 1], i)
      <4> HIDE DEF f
      <4> QED
        BY <1>8, <3>1
    <3> QED
      BY <1>3, <3>2
  <2>3. \A i \in 0 .. k : r[i] \in T[i]
    <3> HIDE DEF T, f
    <3> QED
      BY <1>1, <2>1, <2>2, PassedOn
  <2>4. k \in 0 .. k
    BY <1>1
  <2> QED
    BY <2>3, <2>4
<1> QED
  <2> HIDE DEF k
  <2>1. k \in 0 .. k
    BY <1>1
  <2>2. Spares(s, r[k], G)
    BY <1>10, <2>1
  <2> QED
    BY <1>9, <2>2

\* What is to be finalized, and is not garbage, is marked anew.
LEMMA marktmuSpares ==
  ASSUME NEW s, NEW G, Aside(s, G), \A o \in ToSet(s.tmudata) : s.obj[o].kind = "udata"
  PROVE  Spares(s, marktmu(s), G)
<1> DEFINE q == s.tmudata
           k == Len(q)
           f(x, n) == MarkAnew(x, q[n])
           T == [i \in 0 .. k |-> {x \in States : Spares(s, x, G)}]
           Step == [i \in 1 .. k |-> [x \in T[i - 1] |-> f(x, i)]]
<1>0. s \in States /\ q \in Seq(Ids)
  BY FieldsOf DEF Aside
<1>1. k \in Nat /\ \A i \in 1 .. k : q[i] \in Ids /\ q[i] \in ToSet(q)
  <2> HIDE DEF q
  <2> QED
    BY <1>0 DEF ToSet
<1>2. s \in T[0]
  <2> HIDE DEF k
  <2> QED
    BY <1>0, <1>1, SparesSelf
<1>3. ASSUME NEW i \in 1 .. k, NEW x \in T[i - 1]
      PROVE  f(x, i) \in T[i]
  <2> DEFINE o == q[i]
  <2>0. q[i] \in Ids /\ q[i] \in ToSet(s.tmudata)
    BY <1>1
  <2> HIDE DEF k
  <2>1. i - 1 \in 0 .. k /\ i \in 0 .. k
    BY <1>1
  <2>2. x \in States /\ Spares(s, x, G)
    BY <2>1
  <2>3. o \notin G /\ x.obj[o].kind = "udata"
    BY <2>0, <2>2 DEF Aside, Forgotten, Spares, SameGraph
  <2>4. f(x, i) = MarkUdata(x, o)
    BY <2>0, <2>2, <2>3, MarkAnewIs
  <2>5. Spares(x, f(x, i), G)
    BY <2>0, <2>2, <2>3, <2>4, SparesIs, MarkUdataSpares
  <2> HIDE DEF f
  <2>6. Spares(s, f(x, i), G)
    BY <2>2, <2>5, SparesIs
  <2>7. f(x, i) \in States
    BY <2>6 DEF Spares, SameGraph
  <2> QED
    BY <2>1, <2>6, <2>7
<1>4. Within(k, T, Step)
  <2> HIDE DEF T, f
  <2> QED
    BY <1>3 DEF Within
<1>5. PICK m : Repeats(k, T, Step, s, m)
  <2> HIDE DEF T, Step, k
  <2> QED
    BY <1>1, <1>2, <1>4, Repeated
<1>6. m = [i \in 0 .. k |-> IF i = 0 THEN s ELSE f(m[i - 1], i)]
  <2> HIDE DEF T, f
  <2>1. \A i \in 1 .. k : Step[i][m[i - 1]] = f(m[i - 1], i)
    <3> SUFFICES ASSUME NEW i \in 1 .. k PROVE Step[i][m[i - 1]] = f(m[i - 1], i)
      OBVIOUS
    <3>1. i - 1 \in 0 .. k
      BY <1>1
    <3>2. m[i - 1] \in T[i - 1]
      BY <3>1, <1>5 DEF Repeats
    <3> QED
      BY <3>2
  <2> HIDE DEF Step
  <2>2. \A i \in 0 .. k : i # 0 => i \in 1 .. k
    BY <1>1
  <2> QED
    BY <1>5, <2>1, <2>2 DEF Repeats
<1>7. PICK r : r = CHOOSE h : h = [n \in 0 .. k |-> IF n = 0 THEN s ELSE f(h[n - 1], n)]
  OBVIOUS
<1>8. r = [n \in 0 .. k |-> IF n = 0 THEN s ELSE f(r[n - 1], n)]
  <2> HIDE DEF f
  <2> QED
    BY <1>6, <1>7
<1>9. marktmu(s) = r[k]
  BY <1>7 DEF marktmu, k, q
<1>10. r[k] \in T[k]
  <2>1. r[0] \in T[0]
    <3> HIDE DEF T, f
    <3>1. 0 \in 0 .. k
      BY <1>1
    <3> QED
      BY <1>2, <1>8, <3>1
  <2>2. \A i \in 1 .. k : r[i - 1] \in T[i - 1] => r[i] \in T[i]
    <3> HIDE DEF T
    <3> SUFFICES ASSUME NEW i \in 1 .. k, r[i - 1] \in T[i - 1] PROVE r[i] \in T[i]
      OBVIOUS
    <3>1. i \in 0 .. k /\ i # 0
      BY <1>1
    <3>2. r[i] = f(r[i - 1], i)
      <4> HIDE DEF f
      <4> QED
        BY <1>8, <3>1
    <3> QED
      BY <1>3, <3>2
  <2>3. \A i \in 0 .. k : r[i] \in T[i]
    <3> HIDE DEF T, f
    <3> QED
      BY <1>1, <2>1, <2>2, PassedOn
  <2>4. k \in 0 .. k
    BY <1>1
  <2> QED
    BY <2>3, <2>4
<1> QED
  <2> HIDE DEF k
  <2>1. k \in 0 .. k
    BY <1>1
  <2>2. Spares(s, r[k], G)
    BY <1>10, <2>1
  <2> QED
    BY <1>9, <2>2

-----------------------------------------------------------------------------
(* The step from marking to sweeping.                                      *)

\* Fields that are the same make states alike.
LEMMA FieldsAlike ==
  ASSUME NEW s \in States, NEW r, OpenApart(s), r.stack = s.stack,
         \A o \in Ids : /\ r.obj[o].kind = s.obj[o].kind /\ r.obj[o].val = s.obj[o].val
                        /\ r.obj[o].slot = s.obj[o].slot /\ r.obj[o].th = s.obj[o].th
  PROVE  Alike(s, r)
<1>1. \A o \in Ids : Held(r, o) = Held(s, o)
  BY DEF Held, IsOpenUpval, UpvalSlot, OpenApart
<1> SUFFICES ASSUME NEW o \in Ids
             PROVE  (Exists(r, o) <=> Exists(s, o)) /\ Strong(r, o) = Strong(s, o)
  BY DEF Alike
<1>2. s.obj[o].val = 0 \/ s.obj[o].val \in Ids
  BY FieldsOf DEF Names
<1>3. Kind(r, s.obj[o].val) = Kind(s, s.obj[o].val)
  BY <1>2 DEF Kind
<1>4. r.obj[o].kind = s.obj[o].kind /\ r.obj[o].val = s.obj[o].val /\ r.stack = s.stack
  OBVIOUS
<1>5. Strong(r, o) = Strong(s, o)
  BY <1>1, <1>3, <1>4 DEF Strong
<1> QED
  BY <1>4, <1>5 DEF Exists

\* Up to luaC_separateudata.
Before(s) == GrayAgain(WeakAgain(Remarked(s)))

LEMMA RemarkedSpares ==
  ASSUME NEW s, NEW G, Marking(s), Aside(s, G), Pale(s, G)
  PROVE  Spares(s, Remarked(s), G)
<1> DEFINE u == remarkupvals(s)
<1>1. Marked(u, Again(s)) /\ Graph(s)
  BY remarkupvalsMarks DEF Marking, Marks, Marked
<1>2. Spares(s, u, G)
  BY <1>1, remarkupvalsSpares
<1> HIDE DEF u
<1>3. Spares(u, propagateall(u), G)
  BY <1>1, <1>2, SparesIs, propagateallSpares
<1>4. Remarked(s) = propagateall(u)
  BY DEF Remarked, u
<1> QED
  BY <1>2, <1>3, <1>4, SparesIs

LEMMA WeakAgainSpares ==
  ASSUME NEW s, NEW G, NEW X, Marked(s, X), s.gray = <<>>, Aside(s, G), Pale(s, G)
  PROVE  Spares(s, WeakAgain(s), G)
<1> DEFINE t == [s EXCEPT !.gray = s.weak, !.weak = <<>>]
           u == markobject(t, Main)
<1>1. s \in States
  BY DEF Marked, Graph
<1>2. ListsSet(s, t, s.weak, s.grayagain, <<>>)
  <2>1. t = [s EXCEPT !.gray = s.weak, !.grayagain = s.grayagain, !.weak = <<>>]
    BY <1>1 DEF States
  <2> QED
    BY <2>1, <1>1 DEF ListsSet, States
<1>3. WeakAgain(s) = propagateall(u)
  BY DEF WeakAgain
<1> HIDE DEF t
<1>4. Marked(t, X \ ToSet(t.gray)) /\ SameGraph(s, t) /\ t.obj = s.obj
  BY <1>2, ListMoved
<1> DEFINE Y == X \ ToSet(t.gray)
<1>5. Marked(t, Y) /\ Graph(t) /\ Exists(t, Main) /\ Main \in Ids
  BY <1>4, Constants DEF Marked, Graph, RootsAlive, Alive
<1> HIDE DEF Y
<1>6. Spares(s, t, G) /\ Main \notin G
  BY <1>4 DEF Spares, SameIn, Aside, Forgotten
<1>7. Spares(t, u, G)
  BY <1>5, <1>6, SparesIs, reallymarkobjectSpares
<1>8. Marked(u, Y)
  BY <1>5, markobjectMarks DEF Marks
<1> HIDE DEF u
<1>9. Aside(t, G) /\ Spares(s, u, G) /\ Aside(u, G) /\ Pale(u, G)
  BY <1>6, <1>7, SparesIs
<1>10. Spares(u, propagateall(u), G)
  BY <1>8, <1>9, propagateallSpares
<1> QED
  BY <1>3, <1>9, <1>10, SparesIs

LEMMA GrayAgainSpares ==
  ASSUME NEW s, NEW G, NEW X, Marked(s, X), s.gray = <<>>, Aside(s, G), Pale(s, G)
  PROVE  Spares(s, GrayAgain(s), G)
<1> DEFINE t == [s EXCEPT !.gray = s.grayagain, !.grayagain = <<>>]
<1>1. s \in States
  BY DEF Marked, Graph
<1>2. ListsSet(s, t, s.grayagain, <<>>, s.weak)
  <2>1. t = [s EXCEPT !.gray = s.grayagain, !.grayagain = <<>>, !.weak = s.weak]
    BY <1>1 DEF States
  <2> QED
    BY <2>1, <1>1 DEF ListsSet, States
<1>3. GrayAgain(s) = propagateall(t)
  BY DEF GrayAgain
<1> HIDE DEF t
<1>4. Marked(t, X \ ToSet(t.gray)) /\ SameGraph(s, t) /\ t.obj = s.obj
  BY <1>2, ListMoved
<1>5. Spares(s, t, G)
  BY <1>4 DEF Spares, SameIn
<1>6. Aside(t, G) /\ Pale(t, G)
  BY <1>5, SparesIs
<1>7. Spares(t, propagateall(t), G)
  BY <1>4, <1>6, propagateallSpares
<1> QED
  BY <1>3, <1>5, <1>7, SparesIs

LEMMA BeforeSpares ==
  ASSUME NEW s, NEW G, CollectorInv(s), s.gcstate = "propagate", Aside(s, G), Pale(s, G)
  PROVE  LET c == Before(s)
         IN  /\ Spares(s, c, G) /\ Marked(c, ToSet(c.tmudata)) /\ RootLists(c, {})
             /\ c.tmudata = s.tmudata /\ c \in States
<1> DEFINE a == Remarked(s)
           b == WeakAgain(a)
           c == GrayAgain(b)
           Z == ToSet(s.tmudata)
<1>1. Marking(s) /\ RootLists(s, {}) /\ Graph(s)
  BY DEF CollectorInv, InvBut
<1>2. Marked(a, ToSet(a.grayagain) \cup Z) /\ a.gray = <<>>
  BY <1>1, RemarkedMarks
<1>3. Spares(s, a, G)
  BY <1>1, RemarkedSpares
<1> HIDE DEF a, Z
<1>4. Aside(a, G) /\ Pale(a, G)
  BY <1>3, SparesIs
<1>5. Marked(b, ToSet(b.grayagain) \cup Z) /\ b.gray = <<>>
  BY <1>2, WeakAgainMarks
<1>6. Spares(a, b, G)
  BY <1>2, <1>4, WeakAgainSpares
<1> HIDE DEF b
<1>7. Aside(b, G) /\ Pale(b, G) /\ Spares(s, b, G)
  BY <1>3, <1>4, <1>6, SparesIs
<1>8. Marked(c, Z)
  BY <1>5, GrayAgainMarks
<1>9. Spares(b, c, G)
  BY <1>5, <1>7, GrayAgainSpares
<1> HIDE DEF c
<1>10. Spares(s, c, G)
  BY <1>7, <1>9, SparesIs
<1>11. SameGraph(s, c) /\ c.tmudata = s.tmudata /\ c \in States
  BY <1>10 DEF Spares, SameGraph
<1>12. Marked(c, ToSet(c.tmudata)) /\ RootLists(c, {})
  BY <1>1, <1>8, <1>11, RootListsSame DEF Marked, Z
<1> QED
  BY <1>10, <1>11, <1>12 DEF Before, a, b, c

\* Userdata that wait to be finalized leave the list of all objects.
LEMMA SeparatedIs ==
  ASSUME NEW s, Marked(s, ToSet(s.tmudata)), RootLists(s, {})
  PROVE  LET r == luaC_separateudata(s)
         IN  /\ Alike(s, r) /\ r \in States /\ \A o \in Ids : r.obj[o].color = s.obj[o].color
             /\ \A o \in ToSet(s.tmudata) : o \in ToSet(r.tmudata)
             /\ \A o \in ToSet(r.tmudata) :
                  o \in ToSet(s.tmudata) \/ (o \in Ids /\ s.obj[o].gc /\ ~s.obj[o].final)
<1> DEFINE r == luaC_separateudata(s)
           due == {o \in Unmarked(s) : s.obj[o].gc}
           out == Only(s.rootgc, due)
<1>1. SameObjects(s, r) /\ s \in States /\ OpenApart(s)
  BY SeparatedMarks DEF Marked, Graph
<1>2. s.rootgc \in Seq(Ids) /\ s.tmudata \in Seq(Ids)
  BY <1>1, FieldsOf
<1>3. r.tmudata = s.tmudata \o out
  BY <1>1 DEF luaC_separateudata, States
<1>4. out \in Seq(Ids) /\ \A p : p \in ToSet(out) <=> p \in ToSet(s.rootgc) /\ p \in due
  <2> HIDE DEF due
  <2> QED
    BY <1>2, OnlyIs
<1> HIDE DEF out, r
<1>5. \A p : p \in ToSet(r.tmudata) <=> p \in ToSet(s.tmudata) \/ p \in ToSet(out)
  BY <1>2, <1>3, <1>4, JoinIs
<1>6. \A p \in due : s.obj[p].gc /\ ~s.obj[p].final
  BY DEF Unmarked
<1>7. \A p \in ToSet(s.rootgc) : p \in Ids
  BY <1>2 DEF ToSet
<1>8. Alike(s, r)
  BY <1>1, FieldsAlike DEF SameObjects
<1> HIDE DEF due
<1> QED
  BY <1>1, <1>4, <1>5, <1>6, <1>7, <1>8 DEF SameObjects, r

LEMMA PreservedSpares ==
  ASSUME NEW s, NEW G, Marked(s, ToSet(s.tmudata)), RootLists(s, {}), Aside(s, G), Pale(s, G)
  PROVE  LET r == Preserved(s)
         IN  /\ Alike(s, r) /\ \A o \in ToSet(s.tmudata) : o \in ToSet(r.tmudata)
             /\ \A o \in ToSet(r.tmudata) :
                  o \in ToSet(s.tmudata) \/ (o \in Ids /\ s.obj[o].gc /\ ~s.obj[o].final)
             /\ (\A o \in ToSet(r.tmudata) : o \notin G) => Aside(r, G) /\ Pale(r, G)
<1> DEFINE t == luaC_separateudata(s)
           u == marktmu(t)
           r == propagateall(u)
<1>1. Marked(t, ToSet(t.tmudata)) /\ RootLists(t, {}) /\ SameObjects(s, t)
  BY SeparatedMarks
<1>2. /\ Alike(s, t) /\ t \in States /\ \A o \in Ids : t.obj[o].color = s.obj[o].color
      /\ \A o \in ToSet(s.tmudata) : o \in ToSet(t.tmudata)
      /\ \A o \in ToSet(t.tmudata) :
           o \in ToSet(s.tmudata) \/ (o \in Ids /\ s.obj[o].gc /\ ~s.obj[o].final)
  BY SeparatedIs
<1>3. Preserved(s) = r
  BY DEF Preserved
<1> HIDE DEF t
<1>4. Marked(u, {}) /\ Repainted(t, u) /\ \A o \in ToSet(t.tmudata) : t.obj[o].kind = "udata"
  BY <1>1, marktmuMarks DEF RootLists
<1> HIDE DEF u
<1>5. Marked(r, {}) /\ SameGraph(u, r)
  BY <1>4, propagateallMarks
<1>6. SameGraph(t, r) /\ OpenApart(t)
  BY <1>1, <1>4, <1>5, SameChain DEF Repainted, Marked, Graph
<1>7. ASSUME \A o \in ToSet(t.tmudata) : o \notin G
      PROVE  Aside(r, G) /\ Pale(r, G)
  <2>1. Aside(t, G) /\ Pale(t, G)
    BY <1>2, <1>6, <1>7, AlikeIs DEF Aside, Pale, iswhite
  <2>2. Spares(t, u, G)
    BY <1>4, <2>1, marktmuSpares DEF u
  <2>3. Aside(u, G) /\ Pale(u, G)
    BY <2>1, <2>2, SparesIs
  <2>4. Spares(u, r, G)
    BY <1>4, <2>3, propagateallSpares
  <2> HIDE DEF r
  <2> QED
    BY <2>3, <2>4, SparesIs
<1> HIDE DEF r
<1>8. Alike(t, r) /\ r.tmudata = t.tmudata
  BY <1>6, SameAlike
<1>9. Alike(s, r)
  BY <1>2, <1>8 DEF Alike
<1> QED
  BY <1>2, <1>3, <1>7, <1>8, <1>9

\* Weak tables forget what is not marked; then the white that was is dead.
LEMMA FlippedIs ==
  ASSUME NEW s, NEW G, AllMarked(s)
  PROVE  LET r == Flipped(s)
         IN  /\ Alike(s, r) /\ r.tmudata = s.tmudata
             /\ Aside(s, G) /\ Pale(s, G) => \A o \in G : Exists(s, o) => isdead(r, o)
<1> DEFINE r == Flipped(s)
           w == [o \in Ids |->
                   IF o \in ToSet(s.weak) /\ iscleared(s, s.obj[o].val) THEN [s.obj[o] EXCEPT !.val = 0]
                   ELSE IF s.obj[o].kind = "string" /\ InWeak(s, o) THEN [s.obj[o] EXCEPT !.color = "gray"]
                   ELSE s.obj[o]]
<1>1. s \in States /\ Graph(s) /\ NoneDead(s) /\ GrayLists(s) /\ OpenApart(s)
  BY DEF AllMarked, Marked, Graph
<1>2. \A o \in ToSet(s.weak) : s.obj[o].kind = "weak" /\ o \in Ids /\ ~iswhite(s, o)
  <2>1. s.weak \in Seq(Ids)
    BY <1>1, FieldsOf
  <2>2. \A o \in ToSet(s.weak) : o \in Ids
    BY <2>1 DEF ToSet
  <2> QED
    BY <1>1, <2>2 DEF GrayLists, Listed, iswhite
<1>3. \A o \in Ids : s.obj[o] \in Objects /\ (s.obj[o].val = 0 \/ s.obj[o].val \in Ids)
  BY <1>1, FieldsOf DEF Names
<1>4. \A o \in Ids : /\ w[o].kind = s.obj[o].kind /\ w[o].slot = s.obj[o].slot
                     /\ w[o].th = s.obj[o].th
                     /\ w[o].val = IF o \in ToSet(s.weak) /\ iscleared(s, s.obj[o].val) THEN 0
                                   ELSE s.obj[o].val
                     /\ w[o].color = s.obj[o].color \/ (s.obj[o].kind = "string" /\ InWeak(s, o))
  BY <1>2, <1>3 DEF Objects
<1> HIDE DEF w
<1>5. r = [s EXCEPT !.obj = w, !.currentwhite = otherwhite(s), !.sweepgc = 0,
                    !.gcstate = "sweepstring"]
  BY <1>1 DEF Flipped, cleartable, otherwhite, States, w
<1> HIDE DEF r
<1>6. r.obj = w /\ r.currentwhite = otherwhite(s) /\ r.tmudata = s.tmudata /\ r.stack = s.stack
  BY <1>1, <1>5 DEF States
<1>7. otherwhite(r) = s.currentwhite /\ s.currentwhite \in Whites
  BY <1>1, <1>6, FieldsOf DEF otherwhite, Whites
<1>8. \A o \in Ids : Held(r, o) = Held(s, o) \/ s.obj[o].kind = "weak"
  <2> SUFFICES ASSUME NEW o \in Ids, s.obj[o].kind # "weak" PROVE Held(r, o) = Held(s, o)
    OBVIOUS
  <2>1. r.obj[o].val = s.obj[o].val
    BY <1>2, <1>4, <1>6
  <2>2. IsOpenUpval(s, o) => s.obj[o].th \in Ids /\ s.obj[s.obj[o].th].kind = "thread"
    BY <1>1 DEF OpenApart
  <2>3. IsOpenUpval(s, o) => r.obj[s.obj[o].th].val = s.obj[s.obj[o].th].val
    BY <1>2, <1>4, <1>6, <2>2
  <2>4. IsOpenUpval(r, o) <=> IsOpenUpval(s, o)
    BY <1>4, <1>6 DEF IsOpenUpval
  <2>5. r.obj[o].th = s.obj[o].th /\ r.obj[o].slot = s.obj[o].slot
    BY <1>4, <1>6
  <2> QED
    BY <1>6, <2>1, <2>3, <2>4, <2>5 DEF Held, UpvalSlot
<1>9. Alike(s, r)
  <2> SUFFICES ASSUME NEW o \in Ids
               PROVE  (Exists(r, o) <=> Exists(s, o)) /\ Strong(r, o) = Strong(s, o)
    BY DEF Alike
  <2>1. Exists(r, o) <=> Exists(s, o)
    BY <1>4, <1>6 DEF Exists
  <2>2. r.obj[o].kind = s.obj[o].kind
    BY <1>4, <1>6
  <2>3. CASE s.obj[o].kind # "weak"
    <3>1. r.obj[o].val = s.obj[o].val /\ Held(r, o) = Held(s, o) /\ r.stack = s.stack
      BY <1>2, <1>4, <1>6, <1>8, <2>3
    <3> QED
      BY <2>1, <2>2, <2>3, <3>1 DEF Strong
  <2>4. CASE s.obj[o].kind = "weak"
    <3>1. \A v : v = 0 \/ v \in Ids => Kind(r, v) = Kind(s, v)
      BY <1>4, <1>6 DEF Kind
    <3>2. r.obj[o].val = IF o \in ToSet(s.weak) /\ iscleared(s, s.obj[o].val) THEN 0 ELSE s.obj[o].val
      BY <1>4, <1>6
    <3>3. Kind(r, 0) = "nil"
      BY DEF Kind
    <3>4. iscleared(s, s.obj[o].val) => Kind(s, s.obj[o].val) # "string"
      BY DEF iscleared, Kind
    <3>5. Kind(r, s.obj[o].val) = Kind(s, s.obj[o].val)
      BY <1>3, <3>1
    <3>6. Strong(s, o) = IF Kind(s, s.obj[o].val) = "string" THEN {s.obj[o].val} ELSE {}
      BY <2>4 DEF Strong
    <3>7. Strong(r, o) = IF Kind(r, r.obj[o].val) = "string" THEN {r.obj[o].val} ELSE {}
      BY <2>2, <2>4 DEF Strong
    <3> QED
      BY <2>1, <3>2, <3>3, <3>4, <3>5, <3>6, <3>7
  <2> QED
    BY <2>3, <2>4
<1>10. ASSUME Aside(s, G), Pale(s, G), NEW o \in G, Exists(s, o)
       PROVE  isdead(r, o)
  <2>1. o \in Ids /\ s.obj[o].color \in Whites /\ ~isdead(s, o)
    BY <1>1, <1>10 DEF Aside, Pale, iswhite, Whites, NoneDead
  <2>2. s.obj[o].color = s.currentwhite
    BY <1>7, <2>1 DEF isdead, otherwhite, Whites
  <2>3. ~(s.obj[o].kind = "string" /\ InWeak(s, o))
    <3> SUFFICES ASSUME s.obj[o].kind = "string", NEW h \in ToSet(s.weak), s.obj[h].val = o
                 PROVE  FALSE
      BY DEF InWeak
    <3>1. h \in Ids /\ s.obj[h].kind = "weak" /\ Exists(s, h) /\ h \notin G
      BY <1>2, <1>10 DEF Pale, Exists
    <3>2. Kind(s, o) = "string"
      BY <2>1, Constants DEF Kind
    <3>3. o \in Strong(s, h)
      BY <3>1, <3>2 DEF Strong
    <3> QED
      BY <1>10, <3>1, <3>3 DEF Aside, Forgotten
  <2> QED
    BY <1>4, <1>6, <1>7, <2>1, <2>2, <2>3 DEF isdead
<1> QED
  BY <1>6, <1>9, <1>10 DEF r

\* The step as a whole: garbage that is not kept for a finalizer is dead.
LEMMA atomicSpares ==
  ASSUME NEW s, NEW G, CollectorInv(s), s.gcstate = "propagate", Aside(s, G), Pale(s, G)
  PROVE  LET r == atomic(s)
         IN  /\ Alike(s, r) /\ \A o \in ToSet(s.tmudata) : o \in ToSet(r.tmudata)
             /\ \A o \in ToSet(r.tmudata) :
                  o \in ToSet(s.tmudata) \/ (o \in G => s.obj[o].gc /\ ~s.obj[o].final)
             /\ (\A o \in ToSet(r.tmudata) : o \notin G) =>
                  \A o \in G : Exists(s, o) => isdead(r, o)
<1> DEFINE c == Before(s)
           p == Preserved(c)
           r == Flipped(p)
<1>1. /\ Spares(s, c, G) /\ Marked(c, ToSet(c.tmudata)) /\ RootLists(c, {})
      /\ c.tmudata = s.tmudata
  BY BeforeSpares
<1>2. AllMarked(p)
  BY AllMarkedAtLast DEF Before
<1>3. atomic(s) = r
  BY DEF atomic, Flipped, Before
<1> HIDE DEF c
<1>4. Aside(c, G) /\ Pale(c, G) /\ Alike(s, c)
  BY <1>1, SparesIs, SameAlike DEF Aside, Spares
<1>5. /\ Alike(c, p) /\ \A o \in ToSet(c.tmudata) : o \in ToSet(p.tmudata)
      /\ \A o \in ToSet(p.tmudata) :
           o \in ToSet(c.tmudata) \/ (o \in Ids /\ c.obj[o].gc /\ ~c.obj[o].final)
      /\ (\A o \in ToSet(p.tmudata) : o \notin G) => Aside(p, G) /\ Pale(p, G)
  BY <1>1, <1>4, PreservedSpares
<1> HIDE DEF p
<1>6. /\ Alike(p, r) /\ r.tmudata = p.tmudata
      /\ Aside(p, G) /\ Pale(p, G) => \A o \in G : Exists(p, o) => isdead(r, o)
  BY <1>2, FlippedIs
<1> HIDE DEF r
<1>7. Alike(s, r) /\ Alike(s, p)
  BY <1>4, <1>5, <1>6 DEF Alike
<1>8. \A o \in ToSet(r.tmudata) :
        o \in ToSet(s.tmudata) \/ (o \in G => s.obj[o].gc /\ ~s.obj[o].final)
  BY <1>1, <1>5, <1>6 DEF Spares, SameIn
<1>9. (\A o \in ToSet(r.tmudata) : o \notin G) => \A o \in G : Exists(s, o) => isdead(r, o)
  BY <1>5, <1>6, <1>7 DEF Alike, Aside
<1> QED
  BY <1>1, <1>3, <1>5, <1>6, <1>7, <1>8, <1>9

-----------------------------------------------------------------------------
(* A cycle begins.                                                         *)

LEMMA markrootSpares ==
  ASSUME NEW s, NEW G, CollectorInv(s), s.gcstate \in {"pause", "finalize"}, Aside(s, G)
  PROVE  LET r == markroot(s)
         IN  /\ Alike(s, r) /\ \A o \in G : SameIn(s, r, o)
             /\ (\A o \in G : Exists(s, o)) => Pale(r, G)
<1> DEFINE t == [s EXCEPT !.gray = <<>>, !.grayagain = <<>>, !.weak = <<>>]
           u == markobject(t, Main)
           v == markvalue(u, GlobalTable)
           r == markroot(s)
<1>1. s \in States /\ Graph(s) /\ OpenApart(s)
      /\ \A o \in Ids : Exists(s, o) => s.obj[o].color = s.currentwhite \/ o \in ToSet(s.tmudata)
  BY NothingToSweep DEF CollectorInv, InvBut, Graph
<1>2. ListsSet(s, t, <<>>, <<>>, <<>>)
  BY DEF ListsSet
<1>3. r = [v EXCEPT !.gcstate = "propagate"]
  BY DEF markroot
<1> HIDE DEF t
<1>4. t.gray = <<>> /\ t.grayagain = <<>> /\ t.weak = <<>> /\ t.obj = s.obj /\ SameGraph(s, t)
  BY <1>1, <1>2, EmptyIs, WithLists
<1>5. Spares(s, t, G)
  BY <1>4 DEF Spares, SameIn
<1>6. Aside(t, G) /\ Graph(t)
  <2>1. Alike(s, t) /\ t \in States
    BY <1>1, <1>4, SameAlike DEF SameGraph
  <2>2. \A o \in Ids : Alive(t, o) <=> Alive(s, o)
    BY <1>4 DEF Alive, Exists, isdead, otherwhite, SameGraph
  <2>3. BlackKinds(t)
    BY <1>1, <1>4 DEF Graph, BlackKinds, IsOpenUpval
  <2> QED
    BY <1>1, <1>4, <1>5, <2>2, <2>3, GraphSame, SparesIs
<1>7. Main \notin G /\ GlobalTable \notin G /\ Main \in Ids /\ GlobalTable \in Names
  <2>1. GlobalTable \in Strong(s, Main) /\ Exists(s, Main)
    BY <1>1 DEF Graph, RootsAlive, Strong, Alive
  <2> QED
    BY <2>1, Constants DEF Aside, Forgotten, Names
<1>8. Spares(t, u, G)
  BY <1>6, <1>7, reallymarkobjectSpares
<1> HIDE DEF u
<1>9. Aside(u, G) /\ Spares(s, u, G)
  BY <1>5, <1>6, <1>8, SparesIs
<1>10. Spares(u, v, G)
  BY <1>7, <1>9, markvalueSpares
<1> HIDE DEF v
<1>11. Spares(s, v, G)
  BY <1>5, <1>9, <1>10, SparesIs
<1> HIDE DEF r
<1>12. r.obj = v.obj /\ r.stack = v.stack
  BY <1>3, <1>11 DEF Spares, SameGraph, States
<1>13. Alike(s, r) /\ \A o \in G : SameIn(s, r, o)
  <2>1. /\ r.stack = s.stack
        /\ \A o \in Ids : /\ r.obj[o].kind = s.obj[o].kind /\ r.obj[o].val = s.obj[o].val
                          /\ r.obj[o].slot = s.obj[o].slot /\ r.obj[o].th = s.obj[o].th
    BY <1>11, <1>12 DEF Spares, SameGraph
  <2> QED
    BY <1>1, <1>11, <1>12, <2>1, FieldsAlike DEF Spares, SameIn
<1>14. ASSUME \A o \in G : Exists(s, o)
       PROVE  Pale(r, G)
  <2>1. s.currentwhite \in Whites
    BY <1>1, FieldsOf
  <2> QED
    BY <1>1, <1>13, <1>14, <2>1 DEF Pale, SameIn, iswhite, Whites, Aside, Forgotten
<1> QED
  BY <1>13, <1>14 DEF r

-----------------------------------------------------------------------------
(* Sweeping: what is left refers to nothing new, and what was dead is.     *)

Fades(s, r) ==
  /\ ToSet(r.tmudata) \subseteq ToSet(s.tmudata)
  /\ \A o \in Ids : Exists(r, o) =>
       /\ Exists(s, o) /\ (isdead(s, o) => isdead(r, o))
       /\ r.obj[o].gc = s.obj[o].gc /\ r.obj[o].final = s.obj[o].final
       /\ \A p \in Strong(r, o) : p = 0 \/ p \in Strong(s, o)

LEMMA FadesIs ==
  ASSUME NEW s, NEW r
  PROVE  /\ Fades(s, s) /\ \A w : Fades(s, r) /\ Fades(r, w) => Fades(s, w)
         /\ Fades(s, r) => \A G : 0 \notin G /\ Forgotten(s, G) => Forgotten(r, G)
<1>1. Fades(s, s)
  BY DEF Fades
<1>2. \A w : Fades(s, r) /\ Fades(r, w) => Fades(s, w)
  BY DEF Fades
<1>3. Fades(s, r) => \A G : 0 \notin G /\ Forgotten(s, G) => Forgotten(r, G)
  BY DEF Fades, Forgotten
<1> QED
  BY <1>1, <1>2, <1>3

\* What is not dead may be as new.
Thinned(s, r, o) ==
  \/ r.obj[o] = NoObject
  \/ /\ r.obj[o].kind = s.obj[o].kind /\ r.obj[o].val = s.obj[o].val
     /\ r.obj[o].slot = s.obj[o].slot /\ r.obj[o].th = s.obj[o].th
     /\ r.obj[o].gc = s.obj[o].gc /\ r.obj[o].final = s.obj[o].final
     /\ r.obj[o].color = s.obj[o].color \/ (~isdead(s, o) /\ r.obj[o].color = s.currentwhite)
Thins(s, r) ==
  /\ s \in States /\ OpenApart(s) /\ r.currentwhite = s.currentwhite /\ r.stack = s.stack
  /\ ToSet(r.tmudata) \subseteq ToSet(s.tmudata)
  /\ \A o \in Ids : Thinned(s, r, o)

LEMMA ThinsFades ==
  ASSUME NEW s, NEW r, Thins(s, r)
  PROVE  Fades(s, r)
<1>1. \A o \in Ids : Exists(r, o) => r.obj[o] # NoObject
  BY DEF Exists, NoObject, Object
<1>2. \A o \in Ids : s.obj[o].val = 0 \/ s.obj[o].val \in Ids
  BY FieldsOf DEF Thins, Names
<1>3. NoObject.val = 0 /\ NoObject.kind = "free"
  BY DEF NoObject, Object
<1> SUFFICES ASSUME NEW o \in Ids, Exists(r, o)
             PROVE  /\ Exists(s, o) /\ (isdead(s, o) => isdead(r, o))
                    /\ r.obj[o].gc = s.obj[o].gc /\ r.obj[o].final = s.obj[o].final
                    /\ \A p \in Strong(r, o) : p = 0 \/ p \in Strong(s, o)
  BY DEF Thins, Fades
<1>4. /\ r.obj[o].kind = s.obj[o].kind /\ r.obj[o].val = s.obj[o].val
      /\ r.obj[o].slot = s.obj[o].slot /\ r.obj[o].th = s.obj[o].th
      /\ r.obj[o].gc = s.obj[o].gc /\ r.obj[o].final = s.obj[o].final
      /\ r.obj[o].color = s.obj[o].color \/ ~isdead(s, o)
  BY <1>1 DEF Thins, Thinned
<1>5. Exists(s, o) /\ (isdead(s, o) => isdead(r, o))
  BY <1>4 DEF Exists, isdead, otherwhite, Thins
<1>6. Held(r, o) = Held(s, o) \/ Held(r, o) = 0
  <2>1. CASE IsOpenUpval(s, o)
    <3>1. s.obj[o].th \in Ids
      BY <2>1 DEF Thins, OpenApart
    <3>2. r.obj[s.obj[o].th].val = s.obj[s.obj[o].th].val \/ r.obj[s.obj[o].th].val = 0
      BY <1>3, <3>1 DEF Thins, Thinned
    <3> QED
      BY <2>1, <3>2, <1>4 DEF Held, IsOpenUpval, UpvalSlot, Thins
  <2>2. CASE ~IsOpenUpval(s, o)
    BY <2>2, <1>4 DEF Held, IsOpenUpval
  <2> QED
    BY <2>1, <2>2
<1>7. Kind(r, s.obj[o].val) = "string" => Kind(s, s.obj[o].val) = "string"
  BY <1>2, <1>3 DEF Kind, Thins, Thinned
<1>8. \A p \in Strong(r, o) : p = 0 \/ p \in Strong(s, o)
  BY <1>4, <1>6, <1>7 DEF Strong, Thins
<1> QED
  BY <1>4, <1>5, <1>8

\* What a state without o is.
LEMMA FreedFades ==
  ASSUME NEW s, s \in States, OpenApart(s), NEW o \in Ids
  PROVE  Fades(s, [s EXCEPT !.obj[o] = NoObject])
<1> DEFINE r == [s EXCEPT !.obj[o] = NoObject]
<1>1. /\ r.currentwhite = s.currentwhite /\ r.stack = s.stack /\ r.tmudata = s.tmudata
      /\ r.obj[o] = NoObject /\ \A p \in Ids : p # o => r.obj[p] = s.obj[p]
  BY DEF States
<1> HIDE DEF r
<1>2. Thins(s, r)
  BY <1>1 DEF Thins, Thinned
<1> QED
  BY <1>2, ThinsFades DEF r

\* What is not dead is painted as new.
LEMMA WhitenedFades ==
  ASSUME NEW s, s \in States, OpenApart(s), NEW o \in Ids, ~isdead(s, o)
  PROVE  Fades(s, makewhite(s, o))
<1> DEFINE r == makewhite(s, o)
<1>1. s.obj[o] \in Objects /\ s.currentwhite \in Colors
  BY FieldsOf DEF Whites, Colors
<1>2. /\ r.currentwhite = s.currentwhite /\ r.stack = s.stack /\ r.tmudata = s.tmudata
      /\ r.obj[o] = [s.obj[o] EXCEPT !.color = s.currentwhite]
      /\ \A p \in Ids : p # o => r.obj[p] = s.obj[p]
  BY DEF States, makewhite, Painted
<1> HIDE DEF r
<1>3. Thinned(s, r, o)
  BY <1>1, <1>2 DEF Thinned, Objects
<1>4. Thins(s, r)
  BY <1>2, <1>3 DEF Thins, Thinned
<1> QED
  BY <1>4, ThinsFades DEF r

LEMMA SweptFades ==
  ASSUME NEW s, s \in States, OpenApart(s), NEW r, NEW D,
         r.currentwhite = s.currentwhite, r.stack = s.stack, r.tmudata = s.tmudata,
         \A o \in Ids : r.obj[o] = IF o \in D THEN Swept(s, o) ELSE s.obj[o]
  PROVE  Fades(s, r)
<1> SUFFICES ASSUME NEW o \in Ids PROVE Thinned(s, r, o)
  BY ThinsFades DEF Thins
<1>1. s.obj[o] \in Objects /\ s.currentwhite \in Colors
  BY FieldsOf DEF Whites, Colors
<1>2. CASE o \in D /\ isdead(s, o)
  BY <1>2 DEF Swept, Thinned
<1>3. CASE o \in D /\ ~isdead(s, o)
  <2>1. r.obj[o] = [s.obj[o] EXCEPT !.color = s.currentwhite]
    BY <1>3 DEF Swept
  <2> QED
    BY <1>1, <1>3, <2>1 DEF Thinned, Objects
<1>4. CASE o \notin D
  BY <1>4 DEF Thinned
<1> QED
  BY <1>2, <1>3, <1>4

\* An upvalue that is closed holds what it held.
LEMMA JoinedFades ==
  ASSUME NEW s, NEW E, InvBut(s, E), NEW u \in Ids, IsOpenUpval(s, u), ~isdead(s, u)
  PROVE  Fades(s, Joined(s, u))
<1> DEFINE j == Joined(s, u)
<1>1. /\ s \in States /\ j \in States /\ SamePhase(s, j)
      /\ \A p \in Ids : p # u => j.obj[p] = s.obj[p]
      /\ j.obj[u].kind = "upval" /\ j.obj[u].color = s.obj[u].color
      /\ j.obj[u].val = Held(s, u) /\ j.obj[u].slot = 0
      /\ \A p \in Ids : p # u => Strong(j, p) = Strong(s, p)
  BY JoinedIs, InvFacts
<1>2. j.obj[u].gc = s.obj[u].gc /\ j.obj[u].final = s.obj[u].final
  <2>1. s.obj[u] \in Objects /\ s.obj \in [Ids -> Objects]
    BY <1>1, FieldsOf
  <2>2. j.obj[u] = [s.obj[u] EXCEPT !.val = Held(s, u), !.slot = 0, !.th = 0]
    BY <1>1, <2>1 DEF Joined, Linked, ClosedUpval, States
  <2> QED
    BY <2>1, <2>2 DEF Objects
<1>3. s.obj[u].kind = "upval"
  BY DEF IsOpenUpval
<1> HIDE DEF j
<1>4. \A p : p \in Strong(j, u) => p \in Strong(s, u)
  BY <1>1, <1>3 DEF Strong, Held, IsOpenUpval
<1>5. \A o \in Ids : isdead(s, o) => isdead(j, o)
  BY <1>1 DEF isdead, otherwhite, SamePhase
<1> SUFFICES ASSUME NEW o \in Ids, Exists(j, o)
             PROVE  /\ Exists(s, o) /\ (isdead(s, o) => isdead(j, o))
                    /\ j.obj[o].gc = s.obj[o].gc /\ j.obj[o].final = s.obj[o].final
                    /\ \A p \in Strong(j, o) : p = 0 \/ p \in Strong(s, o)
  BY <1>1 DEF Fades, SamePhase, j
<1>6. CASE o = u
  BY <1>2, <1>3, <1>4, <1>5, <1>6 DEF Exists
<1>7. CASE o # u
  BY <1>1, <1>5, <1>7 DEF Exists
<1> QED
  BY <1>6, <1>7

LEMMA CloseOneFades ==
  ASSUME NEW s, NEW E, InvBut(s, E), s.gcstate # "propagate", NEW u \in Ids, IsOpenUpval(s, u)
  PROVE  Fades(s, CloseOne(s, u))
<1> DEFINE j == Joined(s, u)
<1>1. s \in States /\ OpenApart(s)
  BY InvFacts
<1>2. CASE isdead(s, u)
  BY <1>1, <1>2, FreedFades DEF CloseOne
<1>3. CASE ~isdead(s, u)
  <2>1. CloseOne(s, u) = IF s.obj[u].color # "gray" THEN j ELSE Painted(j, u, j.currentwhite)
    BY <1>1, <1>3, CloseOneIs
  <2>2. Fades(s, j)
    BY <1>3, JoinedFades
  <2>3. j \in States /\ Graph(j) /\ SamePhase(s, j) /\ j.obj[u].color = s.obj[u].color
    BY <1>3, JoinedIs
  <2> HIDE DEF j
  <2>4. ~isdead(j, u)
    BY <1>3, <2>3 DEF isdead, otherwhite, SamePhase
  <2>5. Fades(j, makewhite(j, u))
    BY <2>3, <2>4, WhitenedFades DEF Graph
  <2> QED
    BY <2>1, <2>2, <2>5, FadesIs DEF makewhite
<1> QED
  BY <1>2, <1>3

LEMMA CloseAtFades ==
  ASSUME NEW s, NEW E, InvBut(s, E), s.gcstate # "propagate", NEW th, NEW i
  PROVE  Fades(s, CloseAt(s, th, i))
<1>1. CASE UpvalsAt(s, th, i) = {}
  BY <1>1, FadesIs DEF CloseAt
<1>2. CASE UpvalsAt(s, th, i) # {}
  <2>1. PICK u : u = CHOOSE x \in UpvalsAt(s, th, i) : TRUE
    OBVIOUS
  <2>2. u \in Ids /\ IsOpenUpval(s, u)
    BY <2>1, <1>2 DEF UpvalsAt, OpenOf
  <2>3. CloseAt(s, th, i) = CloseOne(s, u)
    BY <2>1, <1>2 DEF CloseAt
  <2> QED
    BY <2>2, <2>3, CloseOneFades
<1> QED
  BY <1>1, <1>2

LEMMA CloseUpvalsFades ==
  ASSUME NEW s, NEW E, InvBut(s, E), s.gcstate # "propagate", NEW th, NEW level \in Places,
         \A o \in E : o \in Ids /\ s.obj[o].kind = "thread"
  PROVE  Fades(s, CloseUpvals(s, th, level))
<1> DEFINE k == StackSlots + 1 - level
           f(x, n) == CloseAt(x, th, StackSlots + 1 - n)
           T == [i \in 0 .. k |-> {x \in States : Closes(s, x, E) /\ Fades(s, x)}]
           Step == [i \in 1 .. k |-> [x \in T[i - 1] |-> f(x, i)]]
<1>0. s \in States /\ StackSlots \in Nat /\ level \in Nat /\ 1 <= level /\ level <= StackSlots
  BY InvFacts, Constants DEF Places
<1>1. k \in Nat
  BY <1>0
<1>2. s \in T[0]
  <2>1. Closes(s, s, E)
    BY DEF Closes, SamePhase
  <2> HIDE DEF k
  <2>2. 0 \in 0 .. k
    BY <1>1
  <2> QED
    BY <1>0, <2>1, <2>2, FadesIs
<1>3. ASSUME NEW i \in 1 .. k, NEW x \in T[i - 1]
      PROVE  f(x, i) \in T[i]
  <2> DEFINE y == f(x, i)
  <2> HIDE DEF k
  <2>1. i - 1 \in 0 .. k /\ i \in 0 .. k
    BY <1>1
  <2>2. x \in States /\ Closes(s, x, E) /\ Fades(s, x)
    BY <2>1
  <2>3. InvBut(x, E) /\ x.gcstate = s.gcstate
    BY <2>2 DEF Closes, SamePhase
  <2>4. \A o \in E : x.obj[o].kind = "thread"
    BY <2>2 DEF Closes
  <2>5. Closes(x, y, E)
    BY <2>3, <2>4, CloseAtCloses
  <2>6. Fades(x, y)
    BY <2>3, CloseAtFades
  <2> HIDE DEF f, y
  <2>7. Closes(s, y, E) /\ Fades(s, y) /\ y \in States
    BY <2>2, <2>5, <2>6, ClosesChain, FadesIs, InvFacts DEF Closes
  <2> QED
    BY <2>1, <2>7 DEF y
<1>4. Within(k, T, Step)
  <2> HIDE DEF T, f
  <2> QED
    BY <1>3 DEF Within
<1>5. PICK m : Repeats(k, T, Step, s, m)
  <2> HIDE DEF T, Step, k
  <2> QED
    BY <1>1, <1>2, <1>4, Repeated
<1>6. m = [i \in 0 .. k |-> IF i = 0 THEN s ELSE f(m[i - 1], i)]
  <2> HIDE DEF T, f
  <2>1. \A i \in 1 .. k : Step[i][m[i - 1]] = f(m[i - 1], i)
    <3> SUFFICES ASSUME NEW i \in 1 .. k PROVE Step[i][m[i - 1]] = f(m[i - 1], i)
      OBVIOUS
    <3>1. i - 1 \in 0 .. k
      BY <1>1
    <3>2. m[i - 1] \in T[i - 1]
      BY <3>1, <1>5 DEF Repeats
    <3> QED
      BY <3>2
  <2> HIDE DEF Step
  <2>2. \A i \in 0 .. k : i # 0 => i \in 1 .. k
    BY <1>1
  <2> QED
    BY <1>5, <2>1, <2>2 DEF Repeats
<1>7. PICK r : r = CHOOSE h : h = [n \in 0 .. k |-> IF n = 0 THEN s ELSE f(h[n - 1], n)]
  OBVIOUS
<1>8. r = [n \in 0 .. k |-> IF n = 0 THEN s ELSE f(r[n - 1], n)]
  <2> HIDE DEF f
  <2> QED
    BY <1>6, <1>7
<1>9. CloseUpvals(s, th, level) = r[k]
  BY <1>7 DEF CloseUpvals, k
<1>10. r[k] \in T[k]
  <2>1. r[0] \in T[0]
    <3> HIDE DEF T, f
    <3>1. 0 \in 0 .. k
      BY <1>1
    <3> QED
      BY <1>2, <1>8, <3>1
  <2>2. \A i \in 1 .. k : r[i - 1] \in T[i - 1] => r[i] \in T[i]
    <3> HIDE DEF T
    <3> SUFFICES ASSUME NEW i \in 1 .. k, r[i - 1] \in T[i - 1] PROVE r[i] \in T[i]
      OBVIOUS
    <3>1. i \in 0 .. k /\ i # 0
      BY <1>1
    <3>2. r[i] = f(r[i - 1], i)
      <4> HIDE DEF f
      <4> QED
        BY <1>8, <3>1
    <3> QED
      BY <1>3, <3>2
  <2>3. \A i \in 0 .. k : r[i] \in T[i]
    <3> HIDE DEF T, f
    <3> QED
      BY <1>1, <2>1, <2>2, PassedOn
  <2>4. k \in 0 .. k
    BY <1>1
  <2> QED
    BY <2>3, <2>4
<1>11. r[k] \in States /\ Fades(s, r[k])
  <2> HIDE DEF k
  <2>1. k \in 0 .. k
    BY <1>1
  <2> QED
    BY <1>10, <2>1
<1> QED
  BY <1>9, <1>11

\* A thread that is freed closes its upvalues first.
LEMMA freeobjFades ==
  ASSUME NEW s, NEW o \in Ids, InvBut(s, {o}), s.gcstate # "propagate"
  PROVE  Fades(s, freeobj(s, o))
<1>1. PICK b : b = IF s.obj[o].kind = "thread" THEN CloseUpvals(s, o, 1) ELSE s
  OBVIOUS
<1>2. freeobj(s, o) = [b EXCEPT !.obj[o] = NoObject]
  BY <1>1 DEF freeobj
<1>3. InvBut(b, {o}) /\ Fades(s, b)
  <2>1. CASE s.obj[o].kind = "thread"
    <3>1. b = CloseUpvals(s, o, 1)
      BY <2>1, <1>1
    <3>2. Closes(s, b, {o})
      BY <3>1, <2>1, CloseUpvalsCloses, Constants
    <3>3. Fades(s, b)
      BY <3>1, <2>1, CloseUpvalsFades, Constants
    <3> QED
      BY <3>2, <3>3 DEF Closes
  <2>2. CASE s.obj[o].kind # "thread"
    BY <2>2, <1>1, FadesIs
  <2> QED
    BY <2>1, <2>2
<1>4. Fades(b, [b EXCEPT !.obj[o] = NoObject])
  BY <1>3, InvFacts, FreedFades
<1> QED
  BY <1>2, <1>3, <1>4, FadesIs

LEMMA SweepOpenFades ==
  ASSUME NEW s, s \in States, OpenApart(s), NEW th \in Ids
  PROVE  Fades(s, SweepOpen(s, th))
<1> DEFINE r == SweepOpen(s, th)
<1>1. /\ r.currentwhite = s.currentwhite /\ r.stack = s.stack /\ r.tmudata = s.tmudata
      /\ \A o \in Ids : r.obj[o] = IF o \in OpenOf(s, th) THEN Swept(s, o) ELSE s.obj[o]
  BY DEF SweepOpen, States
<1> HIDE DEF r
<1>2. Fades(s, r)
  <2> DEFINE D == OpenOf(s, th)
  <2>1. \A o \in Ids : r.obj[o] = IF o \in D THEN Swept(s, o) ELSE s.obj[o]
    BY <1>1
  <2> HIDE DEF D
  <2> QED
    BY <1>1, <2>1, SweptFades
<1> QED
  BY <1>2 DEF r

LEMMA sweepstringsFades ==
  ASSUME NEW s, s \in States, OpenApart(s)
  PROVE  Fades(s, sweepstrings(s))
<1> DEFINE r == sweepstrings(s)
           D == s.strt
<1>1. /\ r.currentwhite = s.currentwhite /\ r.stack = s.stack /\ r.tmudata = s.tmudata
      /\ \A o \in Ids : r.obj[o] = IF o \in D THEN Swept(s, o) ELSE s.obj[o]
  BY DEF sweepstrings, States
<1> HIDE DEF r, D
<1>2. Fades(s, r)
  BY <1>1, SweptFades
<1> QED
  BY <1>2 DEF r

\* What differs in other fields than these is as it was.
LEMMA SameFades ==
  ASSUME NEW s, NEW r, s \in States, OpenApart(s), r.obj = s.obj, r.stack = s.stack,
         r.currentwhite = s.currentwhite, ToSet(r.tmudata) \subseteq ToSet(s.tmudata)
  PROVE  Fades(s, r)
<1>1. Thins(s, r)
  BY DEF Thins, Thinned
<1> QED
  BY <1>1, ThinsFades

LEMMA SweepObjectFades ==
  ASSUME NEW s, CollectorInv(s), s.gcstate = "sweep", NextToSweep(s) # 0
  PROVE  Fades(s, SweepObject(s))
<1>1. PICK o : o = NextToSweep(s)
  OBVIOUS
<1>2. PICK a : a = IF s.obj[o].kind = "thread" THEN SweepOpen(s, o) ELSE s
  OBVIOUS
<1>3. SweepObject(s) = IF isdead(a, o) THEN freeobj(Unlinked(a), o)
                       ELSE [makewhite(a, o) EXCEPT !.sweepgc = o]
  BY <1>1, <1>2 DEF SweepObject
<1>4. Swepts(a, o) /\ o \in Ids
  BY <1>1, <1>2, OpenSwept
<1>5. s \in States /\ OpenApart(s) /\ a \in States /\ OpenApart(a)
  BY <1>4, InvFacts DEF CollectorInv, Swepts
<1>6. Fades(s, a)
  BY <1>2, <1>4, <1>5, SweepOpenFades, FadesIs
<1>7. CASE isdead(a, o)
  <2>1. PICK u : u = Unlinked(a)
    OBVIOUS
  <2>2. InvBut(u, {o}) /\ SamePhase(a, u) /\ u.obj = a.obj
    BY <1>4, <2>1, UnlinkedIs
  <2>3. u.gcstate # "propagate"
    BY <1>4, <2>2 DEF SamePhase, Swepts
  <2>4. Fades(a, u)
    BY <1>5, <2>2, SameFades DEF SamePhase
  <2>5. Fades(u, freeobj(u, o))
    BY <1>4, <2>2, <2>3, freeobjFades
  <2> QED
    BY <1>3, <1>6, <1>7, <2>1, <2>4, <2>5, FadesIs
<1>8. CASE ~isdead(a, o)
  <2>1. PICK w : w = makewhite(a, o)
    OBVIOUS
  <2>2. PICK r : r = [w EXCEPT !.sweepgc = o]
    OBVIOUS
  <2>3. Fades(a, w)
    BY <1>4, <1>5, <1>8, <2>1, WhitenedFades
  <2>4. w \in States /\ OpenApart(w)
    <3>1. a.currentwhite \in Colors
      BY <1>5, FieldsOf DEF Whites, Colors
    <3>2. SameGraph(a, w)
      BY <1>4, <1>5, <2>1, <3>1, PaintedIs DEF makewhite
    <3> QED
      BY <1>5, <3>2 DEF SameGraph, OpenApart, IsOpenUpval
  <2>5. r.obj = w.obj /\ r.stack = w.stack /\ r.currentwhite = w.currentwhite /\ r.tmudata = w.tmudata
    BY <2>2, <2>4 DEF States
  <2>6. Fades(w, r)
    BY <2>4, <2>5, SameFades
  <2> QED
    BY <1>3, <1>6, <1>8, <2>1, <2>2, <2>3, <2>6, FadesIs
<1> QED
  BY <1>7, <1>8

LEMMA sweeplistFades ==
  ASSUME NEW s, CollectorInv(s), s.gcstate = "sweep"
  PROVE  Fades(s, sweeplist(s))
<1> DEFINE k == GCSWEEPMAX
           f(x, n) == SweepNext(x)
           T == [i \in 0 .. k |-> {x \in States : CollectorInv(x) /\ x.gcstate = "sweep" /\ Fades(s, x)}]
           Step == [i \in 1 .. k |-> [x \in T[i - 1] |-> f(x, i)]]
           Of(h) == IF NextToSweep(h) = 0 THEN [h EXCEPT !.gcstate = "finalize"] ELSE h
<1>0. s \in States
  BY InvFacts DEF CollectorInv
<1>1. k \in Nat /\ k # 0
  BY Constants
<1>2. s \in T[0]
  <2> HIDE DEF k
  <2>1. 0 \in 0 .. k
    BY <1>1
  <2> QED
    BY <1>0, <2>1, FadesIs
<1>3. ASSUME NEW i \in 1 .. k, NEW x \in T[i - 1]
      PROVE  f(x, i) \in T[i]
  <2> DEFINE y == f(x, i)
  <2> HIDE DEF k
  <2>1. i - 1 \in 0 .. k /\ i \in 0 .. k
    BY <1>1
  <2>2. x \in States /\ CollectorInv(x) /\ x.gcstate = "sweep" /\ Fades(s, x)
    BY <2>1
  <2>3. CASE NextToSweep(x) = 0
    BY <2>1, <2>2, <2>3 DEF SweepNext
  <2>4. CASE NextToSweep(x) # 0
    <3>1. y = SweepObject(x)
      BY <2>4 DEF SweepNext
    <3> HIDE DEF y, f
    <3>2. \E o \in Ids : Sweeps(x, y, o)
      BY <2>2, <2>4, <3>1, SweepObjectSweeps
    <3>3. CollectorInv(y) /\ y.gcstate = "sweep" /\ y \in States
      BY <3>2, InvFacts DEF Sweeps, CollectorInv
    <3>4. Fades(s, y)
      BY <2>2, <2>4, <3>1, SweepObjectFades, FadesIs
    <3> QED
      BY <2>1, <3>3, <3>4 DEF y
  <2> QED
    BY <2>3, <2>4
<1>4. Within(k, T, Step)
  <2> HIDE DEF T, f
  <2> QED
    BY <1>3 DEF Within
<1>5. PICK m : Repeats(k, T, Step, s, m)
  <2> HIDE DEF T, Step
  <2> QED
    BY <1>1, <1>2, <1>4, Repeated
<1>6. m = [i \in 0 .. k |-> IF i = 0 THEN s ELSE f(m[i - 1], i)]
  <2> HIDE DEF T, f
  <2>1. \A i \in 1 .. k : Step[i][m[i - 1]] = f(m[i - 1], i)
    <3> SUFFICES ASSUME NEW i \in 1 .. k PROVE Step[i][m[i - 1]] = f(m[i - 1], i)
      OBVIOUS
    <3>1. i - 1 \in 0 .. k
      BY <1>1
    <3>2. m[i - 1] \in T[i - 1]
      BY <3>1, <1>5 DEF Repeats
    <3> QED
      BY <3>2
  <2> HIDE DEF Step
  <2>2. \A i \in 0 .. k : i # 0 => i \in 1 .. k
    BY <1>1
  <2> QED
    BY <1>5, <2>1, <2>2 DEF Repeats
<1>7. PICK r : r = CHOOSE h : h = [n \in 0 .. k |-> IF n = 0 THEN s ELSE f(h[n - 1], n)]
  OBVIOUS
<1>8. r = [n \in 0 .. k |-> IF n = 0 THEN s ELSE f(r[n - 1], n)]
  <2> HIDE DEF f
  <2> QED
    BY <1>6, <1>7
<1>9. sweeplist(s) = Of(r[k])
  BY <1>7 DEF sweeplist, k, Of
<1>10. r[k] \in T[k]
  <2>1. r[0] \in T[0]
    <3> HIDE DEF T, f
    <3>1. 0 \in 0 .. k
      BY <1>1
    <3> QED
      BY <1>2, <1>8, <3>1
  <2>2. \A i \in 1 .. k : r[i - 1] \in T[i - 1] => r[i] \in T[i]
    <3> HIDE DEF T
    <3> SUFFICES ASSUME NEW i \in 1 .. k, r[i - 1] \in T[i - 1] PROVE r[i] \in T[i]
      OBVIOUS
    <3>1. i \in 0 .. k /\ i # 0
      BY <1>1
    <3>2. r[i] = f(r[i - 1], i)
      <4> HIDE DEF f
      <4> QED
        BY <1>8, <3>1
    <3> QED
      BY <1>3, <3>2
  <2>3. \A i \in 0 .. k : r[i] \in T[i]
    <3> HIDE DEF T, f
    <3> QED
      BY <1>1, <2>1, <2>2, PassedOn
  <2>4. k \in 0 .. k
    BY <1>1
  <2> QED
    BY <2>3, <2>4
<1>11. PICK x : x = r[k]
  OBVIOUS
<1>12. x \in States /\ CollectorInv(x) /\ Fades(s, x) /\ OpenApart(x)
  <2> HIDE DEF k
  <2>1. k \in 0 .. k
    BY <1>1
  <2>2. x \in States /\ CollectorInv(x) /\ Fades(s, x)
    BY <1>10, <1>11, <2>1
  <2> QED
    BY <2>2, InvFacts DEF CollectorInv
<1>13. Fades(x, [x EXCEPT !.gcstate = "finalize"])
  <2> DEFINE w == [x EXCEPT !.gcstate = "finalize"]
  <2>1. w.obj = x.obj /\ w.stack = x.stack /\ w.currentwhite = x.currentwhite /\ w.tmudata = x.tmudata
    BY <1>12 DEF States
  <2> HIDE DEF w
  <2>2. Fades(x, w)
    BY <1>12, <2>1, SameFades
  <2> QED
    BY <2>2 DEF w
<1>14. Fades(s, [x EXCEPT !.gcstate = "finalize"])
  BY <1>12, <1>13, FadesIs
<1> QED
  BY <1>9, <1>11, <1>12, <1>14

\* A userdata that is finalized is as new.
LEMMA BackInListFades ==
  ASSUME NEW s, CollectorInv(s), s.gcstate = "finalize", s.tmudata # <<>>
  PROVE  Fades(s, BackInList(s, Head(s.tmudata)))
<1>1. PICK o : o = Head(s.tmudata)
  OBVIOUS
<1>2. PICK t : t = [s EXCEPT !.tmudata = Tail(@), !.rootgc = AfterMain(@, o)]
  OBVIOUS
<1>3. PICK r : r = makewhite(t, o)
  OBVIOUS
<1>4. r = BackInList(s, o)
  BY <1>2, <1>3 DEF BackInList
<1>5. s \in States /\ RootLists(s, {}) /\ OpenApart(s) /\ s.tmudata \in Seq(Ids)
  BY InvFacts, FieldsOf DEF CollectorInv
<1>6. /\ o \in Ids /\ ~isdead(s, o) /\ \A p \in ToSet(Tail(s.tmudata)) : p \in ToSet(s.tmudata)
  BY <1>1, <1>5, PopIs DEF RootLists, Alive
<1>7. /\ t.obj = s.obj /\ t.currentwhite = s.currentwhite /\ t.stack = s.stack
      /\ t.tmudata = Tail(s.tmudata)
  BY <1>2, <1>5 DEF States
<1>8. s.obj[o] \in Objects /\ s.currentwhite \in Colors /\ s.obj \in [Ids -> Objects]
  BY <1>5, <1>6, FieldsOf DEF Whites, Colors
<1>9. r = [t EXCEPT !.obj[o].color = s.currentwhite]
  BY <1>3, <1>7 DEF makewhite, Painted
<1>10. /\ r.obj = [s.obj EXCEPT ![o].color = s.currentwhite]
       /\ r.currentwhite = s.currentwhite /\ r.stack = s.stack /\ r.tmudata = Tail(s.tmudata)
  BY <1>2, <1>5, <1>7, <1>9 DEF States
<1>11. /\ r.obj[o] = [s.obj[o] EXCEPT !.color = s.currentwhite]
       /\ \A p \in Ids : p # o => r.obj[p] = s.obj[p]
  BY <1>6, <1>8, <1>10
<1>12. Thinned(s, r, o)
  BY <1>6, <1>8, <1>11 DEF Thinned, Objects
<1>13. \A p \in Ids : Thinned(s, r, p)
  BY <1>11, <1>12 DEF Thinned
<1>14. Thins(s, r)
  BY <1>5, <1>6, <1>10, <1>13 DEF Thins
<1> QED
  BY <1>1, <1>4, <1>14, ThinsFades

\* The steps of the sweep, when no finalizer keeps its userdata.
LEMMA SweepStepFades ==
  ASSUME NEW s, CollectorInv(s), s.gcstate \in {"sweepstring", "sweep", "finalize"}
  PROVE  Fades(s, singlestep(s, 0))
<1>1. s \in States /\ OpenApart(s)
  BY InvFacts DEF CollectorInv
<1>2. CASE s.gcstate = "sweepstring"
  BY <1>1, <1>2, sweepstringsFades DEF singlestep
<1>3. CASE s.gcstate = "sweep"
  BY <1>3, sweeplistFades DEF singlestep
<1>4. CASE s.gcstate = "finalize" /\ s.tmudata # <<>>
  BY <1>4, BackInListFades DEF singlestep, GCTM
<1>5. CASE s.gcstate = "finalize" /\ s.tmudata = <<>>
  <2> DEFINE w == [s EXCEPT !.gcstate = "pause"]
  <2>1. w.obj = s.obj /\ w.stack = s.stack /\ w.currentwhite = s.currentwhite /\ w.tmudata = s.tmudata
    BY <1>1 DEF States
  <2>2. singlestep(s, 0) = w
    BY <1>5 DEF singlestep
  <2> HIDE DEF w
  <2> QED
    BY <1>1, <2>1, <2>2, SameFades
<1> QED
  BY <1>2, <1>3, <1>4, <1>5

-----------------------------------------------------------------------------
(* A step of the collector.                                                *)

\* Nothing leads to G; what there is of it waits to be freed.
Doomed(s, G) ==
  /\ G \subseteq Ids /\ Forgotten(s, G)
  /\ \A o \in G : Exists(s, o) => Waits(s, o)
  /\ s.gcstate = "propagate" => \A o \in G : Exists(s, o)
\* No finalizer is pending.
Quiet(s, G) == \A o \in G : Exists(s, o) /\ s.obj[o].gc => s.obj[o].final

LEMMA DoomedFacts ==
  ASSUME NEW s, NEW G, CollectorInv(s), Doomed(s, G)
  PROVE  /\ Aside(s, G) /\ 0 \notin G
         /\ s.gcstate = "propagate" => Pale(s, G)
         /\ s.gcstate # "propagate" => \A o \in G : Exists(s, o) => isdead(s, o)
<1>1. s \in States /\ OpenApart(s)
  BY InvFacts DEF CollectorInv
<1> QED
  BY <1>1, Constants DEF Doomed, Aside, Pale, Waits

LEMMA PropagateDoomed ==
  ASSUME NEW s, NEW G, CollectorInv(s), s.gcstate = "propagate", s.gray # <<>>, Doomed(s, G)
  PROVE  LET r == propagatemark(s)
         IN  Doomed(r, G) /\ (Quiet(s, G) => Quiet(r, G))
<1>1. Aside(s, G) /\ Pale(s, G) /\ Graph(s) /\ GrayLists(s)
  BY DoomedFacts DEF CollectorInv, InvBut, Marking, Marked
<1>2. PICK r : r = propagatemark(s)
  OBVIOUS
<1>3. Spares(s, r, G)
  BY <1>1, <1>2, propagatemarkSpares
<1>4. Aside(r, G) /\ Pale(r, G) /\ r.gcstate = "propagate"
  BY <1>1, <1>3, SparesIs DEF Spares, SameGraph
<1>5. \A o \in G : /\ Exists(r, o) <=> Exists(s, o)
                   /\ r.obj[o].gc = s.obj[o].gc /\ r.obj[o].final = s.obj[o].final
  BY <1>1, <1>3 DEF Spares, SameGraph, SameIn, Exists, Aside
<1> QED
  BY <1>2, <1>4, <1>5 DEF Doomed, Aside, Pale, Waits, Quiet

\* What atomic does not keep for a finalizer is dead then.
LEMMA AtomicDoomed ==
  ASSUME NEW s, NEW G, CollectorInv(s), s.gcstate = "propagate", Doomed(s, G),
         \A o \in ToSet(atomic(s).tmudata) : o \notin G
  PROVE  Doomed(atomic(s), G)
<1>1. PICK r : r = atomic(s)
  OBVIOUS
<1>2. Aside(s, G) /\ Pale(s, G)
  BY DoomedFacts
<1>3. Alike(s, r) /\ \A o \in G : Exists(s, o) => isdead(r, o)
  BY <1>1, <1>2, atomicSpares
<1>4. r.gcstate = "sweepstring"
  BY <1>1, atomicKeeps
<1>5. Forgotten(r, G)
  BY <1>1, <1>3, AlikeIs DEF Doomed
<1> QED
  BY <1>1, <1>3, <1>4, <1>5 DEF Doomed, Waits

LEMMA FadesDoomed ==
  ASSUME NEW s, NEW r, NEW G, CollectorInv(s), s.gcstate # "propagate", r.gcstate # "propagate",
         Doomed(s, G), Fades(s, r)
  PROVE  Doomed(r, G)
<1>1. 0 \notin G /\ \A o \in G : Exists(s, o) => isdead(s, o)
  BY DoomedFacts
<1>2. Forgotten(r, G)
  BY <1>1, FadesIs DEF Doomed
<1> QED
  BY <1>1, <1>2 DEF Doomed, Fades, Waits

LEMMA StepDoomed ==
  ASSUME NEW s, NEW G, CollectorInv(s), s.gcstate # "pause", Doomed(s, G),
         s.gcstate = "propagate" /\ s.gray = <<>> =>
           \A o \in ToSet(atomic(s).tmudata) : o \notin G
  PROVE  LET r == singlestep(s, 0)
         IN  Doomed(r, G) /\ (r.gcstate = "propagate" => (Quiet(s, G) => Quiet(r, G)))
<1>1. s.gcstate \in Phases
  BY InvFacts, FieldsOf DEF CollectorInv
<1>2. CASE s.gcstate = "propagate" /\ s.gray # <<>>
  BY <1>2, PropagateDoomed DEF singlestep
<1>3. CASE s.gcstate = "propagate" /\ s.gray = <<>>
  BY <1>3, AtomicDoomed, atomicKeeps DEF singlestep
<1>4. CASE s.gcstate \in {"sweepstring", "sweep", "finalize"}
  <2>1. PICK r : r = singlestep(s, 0)
    OBVIOUS
  <2>2. r.gcstate \in {"sweep", "finalize", "pause"}
    BY <1>4, <2>1, singlestepKeeps
  <2>3. Fades(s, r)
    BY <1>4, <2>1, SweepStepFades
  <2>4. Doomed(r, G)
    BY <1>4, <2>2, <2>3, FadesDoomed
  <2> QED
    BY <2>1, <2>2, <2>4
<1> QED
  BY <1>1, <1>2, <1>3, <1>4 DEF Phases

\* Garbage is doomed; what of the doomed is unreachable is garbage.
LEMMA LostIs ==
  ASSUME NEW s, NEW G, CollectorInv(s)
  PROVE  /\ Lost(s, G) => Doomed(s, G)
         /\ Doomed(s, G) => Lost(s, G \cap Unreachable(s))
<1>1. Graph(s)
  BY InvFacts DEF CollectorInv
<1>2. Lost(s, G) => Doomed(s, G)
  BY <1>1, ReachableIs DEF Lost, Doomed
<1>3. ASSUME Doomed(s, G)
      PROVE  Lost(s, G \cap Unreachable(s))
  <2>1. Touches(s, s)
    BY DEF Touches
  <2>2. Forgotten(s, G \cap Unreachable(s))
    BY <1>1, <1>3, <2>1, Renewed DEF Doomed
  <2>3. \A o \in G \cap Unreachable(s) : Waits(s, o)
    BY <1>1, <1>3, ReachableIs DEF Doomed
  <2> QED
    BY <2>2, <2>3 DEF Lost
<1> QED
  BY <1>2, <1>3

\* A cycle begins: what is unreachable is garbage.
LEMMA BegunLost ==
  ASSUME NEW s, CollectorInv(s), s.gcstate = "pause"
  PROVE  Lost(markroot(s), Unreachable(s))
<1> DEFINE G == Unreachable(s)
<1>1. Graph(s) /\ s \in States /\ OpenApart(s)
  BY InvFacts DEF CollectorInv
<1>2. PICK r : r = markroot(s)
  OBVIOUS
<1>3. G \subseteq Ids /\ (\A o \in G : Exists(s, o)) /\ Forgotten(s, G)
  BY <1>1, ReachableIs, UnreachableForgotten
<1> HIDE DEF G
<1>4. Aside(s, G)
  BY <1>1, <1>3 DEF Aside
<1>5. Alike(s, r) /\ Pale(r, G)
  BY <1>2, <1>3, <1>4, markrootSpares
<1>6. CollectorInv(r) /\ r.gcstate = "propagate" /\ r.tmudata = s.tmudata
  BY <1>2, markrootKeeps
<1>7. Graph(r)
  BY <1>6, InvFacts DEF CollectorInv
<1>8. Unreachable(r) = G /\ Forgotten(r, G)
  <2>1. Unreachable(r) = Unreachable(s)
    BY <1>1, <1>5, <1>6, <1>7, AlikeIs
  <2> QED
    BY <2>1, <1>7, UnreachableForgotten DEF G
<1> QED
  BY <1>2, <1>5, <1>6, <1>8 DEF Lost, Pale, Waits, G


-----------------------------------------------------------------------------
(* An operation of the program loses nothing of what is lost.              *)

\* As it was, but for a value that is gone or that the program can reach.
LeftAlone(s, r, x) ==
  /\ r.obj[x].kind = s.obj[x].kind /\ r.obj[x].color = s.obj[x].color
  /\ r.obj[x].slot = s.obj[x].slot /\ r.obj[x].th = s.obj[x].th
  /\ r.obj[x].val = s.obj[x].val \/ r.obj[x].val = 0 \/ r.obj[x].val \in Reachable(r)
Mild(s, r) ==
  /\ Graph(r) /\ r.gcstate = s.gcstate /\ r.currentwhite = s.currentwhite
  /\ \A x \in Ids : Exists(r, x) => x \in Reachable(r) \/ LeftAlone(s, r, x)

LEMMA MildTouches ==
  ASSUME NEW s, NEW r, Mild(s, r)
  PROVE  Touches(s, r)
<1>1. Graph(r) /\ r \in States /\ OpenApart(r)
  BY DEF Mild, Graph
<1>2. /\ Main \in Reachable(r) /\ GlobalTable \in Reachable(r) /\ Shut(r, Reachable(r))
      /\ \A i \in Places : r.stack[i] # 0 => r.stack[i] \in Reachable(r)
  BY <1>1, ReachableIs
<1> SUFFICES ASSUME NEW x \in Ids, Exists(r, x), x \notin Reachable(r)
             PROVE  /\ Exists(s, x)
                    /\ \A p \in Strong(r, x) : p = 0 \/ p \in Reachable(r) \/ p \in Strong(s, x)
  BY DEF Touches
<1>3. LeftAlone(s, r, x) /\ x # Main
  BY <1>2 DEF Mild
<1>4. Exists(s, x) /\ r.obj[x].kind = s.obj[x].kind
  BY <1>3 DEF Exists, LeftAlone
<1>5. CASE r.obj[x].kind = "upval"
  <2>1. Strong(r, x) = {Held(r, x)} /\ Strong(s, x) = {Held(s, x)}
    BY <1>4, <1>5 DEF Strong
  <2>2. CASE ~IsOpenUpval(r, x)
    <3>1. ~IsOpenUpval(s, x)
      BY <2>2, <1>3 DEF IsOpenUpval, LeftAlone
    <3>2. Held(r, x) = r.obj[x].val /\ Held(s, x) = s.obj[x].val
      BY <2>2, <3>1 DEF Held
    <3> QED
      BY <2>1, <3>2, <1>3, <1>4 DEF LeftAlone
  <2>3. CASE IsOpenUpval(r, x)
    <3>1. PICK t : t = r.obj[x].th
      OBVIOUS
    <3>2. PICK i : i = r.obj[x].slot
      OBVIOUS
    <3>3. t \in Ids /\ r.obj[t].kind = "thread" /\ s.obj[x].th = t /\ s.obj[x].slot = i
      BY <2>3, <3>1, <3>2, <1>1, <1>3 DEF OpenApart, LeftAlone
    <3>4. i \in Places /\ IsOpenUpval(s, x)
      BY <2>3, <3>2, <1>1, <1>3, FieldsOf DEF IsOpenUpval, LeftAlone, Slots
    <3>5. Held(r, x) = UpvalSlot(r, t, i) /\ Held(s, x) = UpvalSlot(s, t, i)
      BY <2>3, <3>1, <3>2, <3>3, <3>4 DEF Held
    <3>6. CASE t = Main
      BY <2>1, <3>4, <3>5, <3>6, <1>2, <1>4 DEF UpvalSlot
    <3>7. CASE t # Main
      <4>1. Held(r, x) = r.obj[t].val /\ Held(s, x) = s.obj[t].val
        BY <3>5, <3>7 DEF UpvalSlot
      <4>2. CASE t \in Reachable(r)
        <5>1. r.obj[t].val \in Strong(r, t)
          BY <3>3 DEF Strong
        <5> QED
          BY <2>1, <4>1, <4>2, <5>1, <1>2, <1>4 DEF Shut
      <4>3. CASE t \notin Reachable(r)
        <5>1. LeftAlone(s, r, t)
          BY <4>3, <3>3 DEF Mild, Exists
        <5> QED
          BY <2>1, <4>1, <5>1, <1>4 DEF LeftAlone
      <4> QED
        BY <4>2, <4>3
    <3> QED
      BY <3>6, <3>7
  <2> QED
    BY <2>2, <2>3
<1>6. CASE r.obj[x].kind = "thread"
  <2>1. Strong(r, x) = {GlobalTable, r.obj[x].val} /\ Strong(s, x) = {GlobalTable, s.obj[x].val}
    BY <1>3, <1>4, <1>6 DEF Strong
  <2> QED
    BY <2>1, <1>2, <1>3, <1>4 DEF LeftAlone
<1>7. CASE r.obj[x].kind = "weak"
  <2> SUFFICES ASSUME NEW p \in Strong(r, x), p # 0, p \notin Reachable(r) PROVE p \in Strong(s, x)
    BY <1>4
  <2>1. p = r.obj[x].val /\ Kind(r, p) = "string" /\ p \in Names
    BY <1>1, <1>7, FieldsOf DEF Strong
  <2>2. p = s.obj[x].val /\ p \in Ids
    BY <2>1, <1>3 DEF LeftAlone, Names
  <2>3. r.obj[p].kind = "string"
    BY <2>1 DEF Kind
  <2>4. LeftAlone(s, r, p)
    BY <2>2, <2>3 DEF Mild, Exists
  <2>5. Kind(s, p) = "string"
    BY <2>3, <2>4 DEF Kind, LeftAlone
  <2> QED
    BY <2>2, <2>5, <1>4, <1>7 DEF Strong
<1>8. CASE r.obj[x].kind \notin {"upval", "thread", "weak"}
  <2>1. Strong(r, x) = {r.obj[x].val} /\ Strong(s, x) = {s.obj[x].val}
    BY <1>4, <1>8 DEF Strong
  <2> QED
    BY <2>1, <1>3, <1>4 DEF LeftAlone
<1> QED
  BY <1>5, <1>6, <1>7, <1>8

LEMMA MildLost ==
  ASSUME NEW s, NEW r, NEW G, Mild(s, r), Lost(s, G)
  PROVE  Lost(r, G \cap Unreachable(r))
<1> DEFINE D == G \cap Unreachable(r)
<1>1. Graph(r)
  BY DEF Mild
<1>2. Forgotten(r, D)
  BY <1>1, MildTouches, Renewed DEF Lost
<1>3. ASSUME NEW o \in D PROVE Waits(r, o)
  <2>1. o \in Ids /\ Exists(r, o) /\ o \notin Reachable(r)
    BY <1>1, ReachableIs
  <2>2. r.obj[o].color = s.obj[o].color /\ r.gcstate = s.gcstate /\ r.currentwhite = s.currentwhite
    BY <2>1 DEF Mild, LeftAlone
  <2>3. Waits(s, o)
    BY DEF Lost
  <2> QED
    BY <2>2, <2>3 DEF Waits, iswhite, isdead, otherwhite
<1> QED
  BY <1>2, <1>3 DEF Lost

\* What a barrier paints does not matter to what is not reachable.
LEMMA MildSpares ==
  ASSUME NEW s, NEW w, NEW r, Mild(s, w), Spares(w, r, Unreachable(w)), Graph(r)
  PROVE  Mild(s, r)
<1>1. Graph(w) /\ w \in States /\ OpenApart(w) /\ SameGraph(w, r)
  BY DEF Mild, Graph, Spares
<1>2. Alike(w, r) /\ r.tmudata = w.tmudata
  BY <1>1, SameAlike
<1>3. Reachable(r) = Reachable(w)
  BY <1>1, <1>2, AlikeIs
<1>4. r.gcstate = w.gcstate /\ r.currentwhite = w.currentwhite
  BY <1>1 DEF SameGraph
<1>5. ASSUME NEW x \in Ids, Exists(r, x), x \notin Reachable(r) PROVE LeftAlone(s, r, x)
  <2>1. Exists(w, x) /\ x \in Unreachable(w)
    BY <1>1, <1>2, <1>3, <1>5, ReachableIs DEF Alike
  <2>2. LeftAlone(s, w, x)
    BY <2>1, <1>3, <1>5 DEF Mild
  <2>3. r.obj[x].color = w.obj[x].color
    BY <2>1 DEF Spares, SameIn
  <2>4. /\ r.obj[x].kind = w.obj[x].kind /\ r.obj[x].val = w.obj[x].val
        /\ r.obj[x].slot = w.obj[x].slot /\ r.obj[x].th = w.obj[x].th
    BY <1>1 DEF SameGraph
  <2> QED
    BY <2>2, <2>3, <2>4, <1>3 DEF LeftAlone
<1> QED
  BY <1>4, <1>5 DEF Mild

\* The ways a state changes: only objects that can be reached are others.
LEMMA MildBut ==
  ASSUME NEW s, NEW r, CollectorInv(r), r.gcstate = s.gcstate, r.currentwhite = s.currentwhite,
         \A x \in Ids : x \in Reachable(r) \/ r.obj[x] = s.obj[x]
  PROVE  Mild(s, r)
<1>1. Graph(r)
  BY InvFacts DEF CollectorInv
<1> QED
  BY <1>1 DEF Mild, LeftAlone
LEMMA StoredMild ==
  ASSUME NEW s, CollectorInv(s), NEW i \in Places, NEW v, Value(s, v)
  PROVE  Mild(s, Stored(s, i, v))
<1>1. PICK w : w = Stored(s, i, v)
  OBVIOUS
<1>2. CollectorInv(w) /\ w.gcstate = s.gcstate
  BY <1>1, StoredKeeps
<1>3. s \in States
  BY InvFacts DEF CollectorInv
<1>4. w.obj = s.obj /\ w.currentwhite = s.currentwhite
  BY <1>1, <1>3 DEF Stored, States
<1> QED
  BY <1>1, <1>2, <1>4, MildBut

LEMMA DoneLost ==
  \A r : GarbageInv /\ GcInv' /\ Mild(g, r) /\ Does(r) => GarbageInv'
<1> SUFFICES ASSUME NEW r, GarbageInv, GcInv', Mild(g, r), Does(r) PROVE GarbageInv'
  OBVIOUS
<1>1. g' = r /\ garbage' = garbage \cap Unreachable(r)
  BY DEF Does
<1>2. Lost(r, garbage \cap Unreachable(r))
  BY MildLost DEF GarbageInv
<1>3. Lost(g', garbage')
  BY <1>1, <1>2
<1> QED
  BY <1>3 DEF GarbageInv


\* A new object is on the stack.
LEMMA AddedMild ==
  ASSUME NEW s, NEW r, NEW o \in Ids, NEW i \in Places, CollectorInv(s), CollectorInv(r),
         r.gcstate = s.gcstate, r.currentwhite = s.currentwhite,
         r.stack = [s.stack EXCEPT ![i] = o], \A p \in Ids : p # o => r.obj[p] = s.obj[p]
  PROVE  Mild(s, r)
<1>1. s.stack \in [Places -> Names] /\ Graph(r) /\ o # 0
  BY InvFacts, FieldsOf, Constants DEF CollectorInv
<1>2. r.stack[i] = o
  BY <1>1
<1>3. o \in Reachable(r)
  BY <1>1, <1>2, ReachableIs
<1> QED
  BY <1>3, MildBut

LEMMA NewMild ==
  ASSUME NEW s, CollectorInv(s), FreeIds(s) # {}, NEW kind \in {"table", "weak", "thread"},
         NEW i \in Places
  PROVE  Mild(s, New(s, kind, i))
<1>1. PICK r : r = New(s, kind, i)
  OBVIOUS
<1>2. PICK o : o = NewId(s)
  OBVIOUS
<1>3. PICK t : t = luaC_link(s, kind, 0)
  OBVIOUS
<1>4. kind \in {"table", "weak", "thread", "closure"}
  OBVIOUS
<1>5. o \in Ids /\ s \in States
  BY <1>2, NewIdIs, InvFacts DEF CollectorInv
<1>6. /\ t \in States /\ t.currentwhite = s.currentwhite /\ t.stack = s.stack
      /\ \A p \in Ids : p # o => t.obj[p] = s.obj[p]
  <2>1. LET w == luaC_link(s, kind, 0)
        IN  /\ w \in States /\ w.currentwhite = s.currentwhite /\ w.stack = s.stack
            /\ \A p \in Ids : p # NewId(s) => w.obj[p] = s.obj[p]
    BY ONLY <1>4, <1>5, FreeIds(s) # {}, LinkIs
  <2> QED
    BY <1>2, <1>3, <2>1
<1>7. r = Stored(t, i, o)
  BY <1>1, <1>2, <1>3 DEF New
<1>8. r.obj = t.obj /\ r.currentwhite = t.currentwhite /\ r.stack = [t.stack EXCEPT ![i] = o]
  BY <1>6, <1>7 DEF Stored, States
<1>9. Kept(s, r)
  BY <1>1, NewKept
<1>10. CollectorInv(r) /\ r.gcstate = s.gcstate
  BY <1>9 DEF Kept
<1>11. \A p \in Ids : p # o => r.obj[p] = s.obj[p]
  BY <1>6, <1>8
<1> QED
  BY <1>1, <1>5, <1>6, <1>8, <1>10, <1>11, AddedMild

LEMMA NewUdataMild ==
  ASSUME NEW s, CollectorInv(s), FreeIds(s) # {}, NEW gc \in BOOLEAN, NEW i \in Places
  PROVE  Mild(s, Stored(NewUdata(s, gc), i, NewId(s)))
<1> DEFINE o == NewId(s)
           a == Allocated(s, "udata", GlobalTable)
           w == NewUdata(s, gc)
           r == Stored(w, i, o)
<1>1. o \in Ids /\ s \in States
  BY NewIdIs, InvFacts DEF CollectorInv
<1>2. Kept(s, r) /\ r.stack = [s.stack EXCEPT ![i] = o]
  BY NewUdataKept
<1>3. PICK e : e = Object("udata", s.currentwhite, GlobalTable)
  OBVIOUS
<1>4. a = [s EXCEPT !.obj = [s.obj EXCEPT ![o] = e]]
  BY <1>3 DEF Allocated
<1>5. PICK b : b = [s.obj EXCEPT ![o] = e]
  OBVIOUS
<1>6. /\ DOMAIN b = Ids /\ \A p \in Ids : p # o => b[p] = s.obj[p]
  BY <1>1, <1>5 DEF States
<1>7. /\ a.obj = b /\ a.currentwhite = s.currentwhite
      /\ DOMAIN a = DOMAIN s
  BY <1>1, <1>4, <1>5 DEF States
<1>8. PICK d : d = [b[o] EXCEPT !.gc = gc]
  OBVIOUS
<1>9. w = [a EXCEPT !.rootgc = AfterMain(a.rootgc, o), !.obj[o].gc = gc]
  BY DEF NewUdata
<1>10. PICK q : q = AfterMain(a.rootgc, o)
  OBVIOUS
<1>11. {"obj", "rootgc", "currentwhite", "stack"} \subseteq DOMAIN a
  BY <1>1, <1>7 DEF States
<1>12. /\ w.obj = [b EXCEPT ![o] = d] /\ w.currentwhite = s.currentwhite
       /\ DOMAIN w = DOMAIN a
  <2> HIDE DEF a, w, o
  <2>1. w = [[a EXCEPT !.rootgc = q] EXCEPT !.obj = [b EXCEPT ![o] = d]]
    BY <1>7, <1>8, <1>9, <1>10, <1>11
  <2>2. PICK c : c = [b EXCEPT ![o] = d]
    OBVIOUS
  <2> QED
    BY <2>1, <2>2, <1>7, <1>11
<1>13. \A p \in Ids : p # o => w.obj[p] = s.obj[p]
  BY <1>6, <1>12
<1>14. r.obj = w.obj /\ r.currentwhite = w.currentwhite
  <2> HIDE DEF w, o
  <2> QED
    BY <1>11, <1>12 DEF Stored
<1>15. CollectorInv(r) /\ r.gcstate = s.gcstate
  BY <1>2 DEF Kept
<1> HIDE DEF r, w, a
<1>16. \A p \in Ids : p # o => r.obj[p] = s.obj[p]
  BY <1>13, <1>14
<1>17. r.currentwhite = s.currentwhite
  BY <1>12, <1>14
<1> HIDE DEF o
<1>18. Mild(s, r)
  BY <1>1, <1>2, <1>15, <1>16, <1>17, AddedMild
<1> QED
  BY <1>18 DEF r, w, o

LEMMA NewStringMild ==
  ASSUME NEW s, CollectorInv(s), FreeIds(s) # {}, NEW i \in Places
  PROVE  Mild(s, Stored(NewString(s), i, NewId(s)))
<1>1. PICK o : o = NewId(s)
  OBVIOUS
<1>2. PICK e : e = Object("string", s.currentwhite, 0)
  OBVIOUS
<1>3. PICK t : t = [s EXCEPT !.obj[o] = e]
  OBVIOUS
<1>4. PICK w : w = NewString(s)
  OBVIOUS
<1>5. PICK r : r = Stored(w, i, o)
  OBVIOUS
<1>6. o \in Ids /\ s \in States
  BY <1>1, NewIdIs, InvFacts DEF CollectorInv
<1>7. "string" \in Kinds /\ 0 \in Names
  BY DEF Kinds, Names
<1>8. e \in Objects
  BY <1>2, <1>6, <1>7, ObjectIs
<1>9. /\ t \in States /\ \A p \in Ids : p # o => t.obj[p] = s.obj[p]
      /\ t.currentwhite = s.currentwhite /\ t.stack = s.stack
  BY <1>3, <1>6, <1>8, AllocatedIs
<1>10. w = [t EXCEPT !.strt = t.strt \cup {o}]
  BY <1>1, <1>2, <1>3, <1>4 DEF NewString, Allocated
<1>11. r.obj = t.obj /\ r.currentwhite = t.currentwhite /\ r.stack = [t.stack EXCEPT ![i] = o]
  BY <1>5, <1>9, <1>10 DEF Stored, States
<1>12. CollectorInv(r) /\ r.gcstate = s.gcstate
  BY <1>1, <1>4, <1>5, NewStringKept DEF Kept
<1>13. \A p \in Ids : p # o => r.obj[p] = s.obj[p]
  BY <1>9, <1>11
<1> QED
  BY <1>1, <1>4, <1>5, <1>6, <1>9, <1>11, <1>12, <1>13, AddedMild

LEMMA NewObjectLoses ==
  ASSUME GarbageInv, NEW i \in Places, NewObject(i) PROVE GarbageInv'
<1>1. GcInv /\ CollectorInv(g) /\ FreeIds(g) # {}
  BY RoomIs DEF GarbageInv, GcInv, NewObject, HasRoom
<1>2. GcInv'
  BY <1>1, NewObjectKeeps
<1>3. CASE \E kind \in {"table", "weak"} : Does(Stored(luaC_link(g, kind, 0), i, NewId(g)))
  <2>1. PICK kind \in {"table", "weak"} : Does(New(g, kind, i))
    BY <1>3 DEF New
  <2>2. kind \in {"table", "weak", "thread"}
    OBVIOUS
  <2>3. Mild(g, New(g, kind, i))
    BY <1>1, <2>2, NewMild
  <2> QED
    BY <2>1, <2>3, <1>2, DoneLost
<1>4. CASE Does(Stored(luaC_link(g, "thread", 0), i, NewId(g)))
  <2>1. Does(New(g, "thread", i)) /\ Mild(g, New(g, "thread", i))
    BY <1>1, <1>4, NewMild DEF New
  <2> QED
    BY <2>1, <1>2, DoneLost
<1>5. CASE \E gc \in BOOLEAN : Does(Stored(NewUdata(g, gc), i, NewId(g)))
  <2>1. PICK gc \in BOOLEAN : Does(Stored(NewUdata(g, gc), i, NewId(g)))
    BY <1>5
  <2>2. Mild(g, Stored(NewUdata(g, gc), i, NewId(g)))
    BY <1>1, NewUdataMild
  <2> QED
    BY <2>1, <2>2, <1>2, DoneLost
<1> QED
  BY <1>3, <1>4, <1>5 DEF NewObject


\* A string is found again, a dead one revived.
LEMMA InternMild ==
  ASSUME NEW s, CollectorInv(s), NEW o \in s.strt, NEW i \in Places
  PROVE  Mild(s, Stored(Revived(s, o), i, o))
<1>1. s \in States /\ o \in Ids
  BY InvFacts, FieldsOf DEF CollectorInv
<1>2. PICK v : v = Revived(s, o)
  OBVIOUS
<1>3. /\ v \in States /\ v.currentwhite = s.currentwhite /\ v.stack = s.stack
      /\ \A p \in Ids : p # o => v.obj[p] = s.obj[p]
  <2>1. CASE ~isdead(s, o)
    BY <2>1, <1>1, <1>2 DEF Revived
  <2>2. CASE isdead(s, o)
    <3>1. s.currentwhite \in Colors
      BY <1>1, FieldsOf DEF Colors, Whites
    <3>2. v = Painted(s, o, s.currentwhite)
      BY <2>2, <1>2 DEF Revived, makewhite
    <3>3. v \in States /\ v.currentwhite = s.currentwhite /\ v.stack = s.stack
      BY <3>1, <3>2, <1>1, PaintedIs DEF SameGraph
    <3> QED
      BY <3>2, <3>3, <1>1 DEF Painted, States
  <2> QED
    BY <2>1, <2>2
<1>4. PICK r : r = Stored(v, i, o)
  OBVIOUS
<1>5. r.obj = v.obj /\ r.currentwhite = v.currentwhite /\ r.stack = [v.stack EXCEPT ![i] = o]
  BY <1>3, <1>4 DEF Stored, States
<1>6. CollectorInv(r) /\ r.gcstate = s.gcstate
  BY <1>2, <1>4, InternKept DEF Kept
<1>7. \A p \in Ids : p # o => r.obj[p] = s.obj[p]
  BY <1>3, <1>5
<1> QED
  BY <1>1, <1>2, <1>3, <1>4, <1>5, <1>6, <1>7, AddedMild

LEMMA InternLoses ==
  ASSUME GarbageInv, NEW i \in Places, Intern(i) PROVE GarbageInv'
<1>1. GcInv /\ CollectorInv(g)
  BY DEF GarbageInv, GcInv
<1>2. GcInv'
  BY <1>1, InternKeeps
<1>3. CASE g.strt # {}
  <2>1. PICK o \in g.strt : Does(Stored(Revived(g, o), i, o))
    BY <1>3 DEF Intern
  <2>2. Mild(g, Stored(Revived(g, o), i, o))
    BY <1>1, InternMild
  <2> QED
    BY <2>1, <2>2, <1>2, DoneLost
<1>4. CASE g.strt = {}
  <2>1. FreeIds(g) # {} /\ Does(Stored(NewString(g), i, NewId(g)))
    BY <1>4, RoomIs DEF Intern, HasRoom
  <2>2. Mild(g, Stored(NewString(g), i, NewId(g)))
    BY <1>1, <2>1, NewStringMild
  <2> QED
    BY <2>1, <2>2, <1>2, DoneLost
<1> QED
  BY <1>3, <1>4

\* A closure is on the stack and holds the variable that was found or made.
LEMMA WithClosureMild ==
  ASSUME NEW s, CollectorInv(s), FreeIds(s) # {}, FreeIds(s) \ {NewId(s)} # {},
         NEW i \in Places, NEW j \in Places, NEW th \in Ids, s.obj[th].kind = "thread",
         Value(s, UpvalSlot(s, th, j))
  PROVE  Mild(s, WithClosure(s, i, th, j))
<1>1. PICK cl : cl = NewId(s)
  OBVIOUS
<1>2. PICK t : t = luaC_link(s, "closure", 0)
  OBVIOUS
<1>3. s \in States /\ cl \in Ids /\ ~Exists(s, cl)
  BY <1>1, InvFacts, NewIdIs DEF CollectorInv
<1>4. /\ t \in States /\ t.obj[cl] = Object("closure", s.currentwhite, 0)
      /\ \A p \in Ids : p # cl => t.obj[p] = s.obj[p]
      /\ t.currentwhite = s.currentwhite /\ t.gcstate = s.gcstate /\ t.stack = s.stack
  <2>1. LET w == luaC_link(s, "closure", 0)
            o == NewId(s)
        IN  /\ w \in States /\ w.obj[o] = Object("closure", s.currentwhite, 0)
            /\ \A p \in Ids : p # o => w.obj[p] = s.obj[p]
            /\ w.currentwhite = s.currentwhite /\ w.gcstate = s.gcstate /\ w.stack = s.stack
    BY ONLY <1>3, FreeIds(s) # {}, LinkIs
  <2> QED
    BY <1>1, <1>2, <2>1
<1>5. "closure" \in Kinds /\ 0 \in Names
  BY DEF Kinds, Names
<1>6. t.obj[cl].kind = "closure" /\ t.obj[cl].slot = 0
  BY <1>3, <1>4, <1>5, ObjectIs
<1>7. PICK w : w = FindUpval(t, th, j, cl)
  OBVIOUS
\* The variable is u; besides it and the closure nothing changes.
<1>8. \E u, v : /\ u \in Ids /\ u # cl /\ DOMAIN v = DOMAIN t /\ v.currentwhite = t.currentwhite
                /\ v.stack = t.stack /\ DOMAIN v.obj = Ids
                /\ \A p \in Ids : p # u => v.obj[p] = t.obj[p]
                /\ w = [v EXCEPT !.obj[cl].val = u]
  <2>1. CASE UpvalsAt(t, th, j) # {}
    <3>1. PICK u : u = CHOOSE x \in UpvalsAt(t, th, j) : TRUE
      OBVIOUS
    <3>2. u \in Ids /\ IsOpenUpval(t, u)
      BY <2>1, <3>1 DEF UpvalsAt, OpenOf
    <3>3. u # cl
      BY <3>2, <1>6 DEF IsOpenUpval
    <3>4. PICK v : v = Revived(t, u)
      OBVIOUS
    <3>5. w = [v EXCEPT !.obj[cl].val = u]
      BY <2>1, <3>1, <3>4, <1>7 DEF FindUpval
    <3>6. /\ DOMAIN v = DOMAIN t /\ v.currentwhite = t.currentwhite
          /\ v.stack = t.stack /\ DOMAIN v.obj = Ids
          /\ \A p \in Ids : p # u => v.obj[p] = t.obj[p]
      <4>1. CASE ~isdead(t, u)
        BY <4>1, <3>4, <1>4 DEF Revived, States
      <4>2. CASE isdead(t, u)
        BY <4>2, <3>4, <1>4 DEF Revived, makewhite, Painted, States
      <4> QED
        BY <4>1, <4>2
    <3> QED
      BY <3>2, <3>3, <3>5, <3>6
  <2>2. CASE UpvalsAt(t, th, j) = {}
    <3>1. PICK u : u = NewId(t)
      OBVIOUS
    <3>2. FreeIds(t) # {}
      <4>1. \A p \in FreeIds(s) : p # cl => p \in FreeIds(t)
        BY <1>4, Constants DEF FreeIds, Exists
      <4> QED
        BY <4>1, <1>1
    <3>3. u \in Ids /\ ~Exists(t, u)
      BY <3>1, <3>2, NewIdIs
    <3>4. u # cl
      BY <3>3, <1>6 DEF Exists
    <3>5. PICK v : v = Opened(t, th, j)
      OBVIOUS
    <3>6. w = [v EXCEPT !.obj[cl].val = u]
      BY <2>2, <3>1, <3>5, <1>7 DEF FindUpval
    <3>7. /\ DOMAIN v = DOMAIN t /\ v.currentwhite = t.currentwhite
          /\ v.stack = t.stack /\ DOMAIN v.obj = Ids
          /\ \A p \in Ids : p # u => v.obj[p] = t.obj[p]
      BY <3>1, <3>3, <3>5, <1>4 DEF Opened, States
    <3> QED
      BY <3>3, <3>4, <3>6, <3>7
  <2> QED
    BY <2>1, <2>2
<1>9. PICK u, v : /\ u \in Ids /\ u # cl /\ DOMAIN v = DOMAIN t /\ v.currentwhite = t.currentwhite
                  /\ v.stack = t.stack /\ DOMAIN v.obj = Ids
                  /\ \A p \in Ids : p # u => v.obj[p] = t.obj[p]
                  /\ w = [v EXCEPT !.obj[cl].val = u]
  BY <1>8
<1>10. {"obj", "currentwhite", "stack"} \subseteq DOMAIN v
  BY <1>4, <1>9 DEF States
<1>11. PICK d : d = [v.obj[cl] EXCEPT !.val = u]
  OBVIOUS
<1>12. v.obj[cl] = Object("closure", s.currentwhite, 0)
  BY <1>3, <1>4, <1>9
<1>13. d.kind = "closure" /\ d.val = u
  BY <1>11, <1>12 DEF Object
<1>14. /\ w.obj = [v.obj EXCEPT ![cl] = d] /\ w.currentwhite = v.currentwhite
       /\ w.stack = v.stack /\ DOMAIN w = DOMAIN v
  BY <1>9, <1>10, <1>11
<1>15. PICK r : r = Stored(w, i, cl)
  OBVIOUS
<1>16. r = WithClosure(s, i, th, j)
  BY <1>1, <1>2, <1>7, <1>15 DEF WithClosure
<1>17. r.obj = w.obj /\ r.currentwhite = w.currentwhite /\ r.stack = [w.stack EXCEPT ![i] = cl]
  BY <1>10, <1>14, <1>15 DEF Stored
<1>18. CollectorInv(r) /\ r.gcstate = s.gcstate
  BY <1>16, WithClosureKept DEF Kept
<1>19. Graph(r) /\ cl # 0 /\ u # 0 /\ s.stack \in [Places -> Names]
  <2>1. Graph(r)
    BY <1>18, InvFacts DEF CollectorInv
  <2>2. s \in States
    BY InvFacts DEF CollectorInv
  <2>3. s.stack \in [Places -> Names]
    BY <2>2, FieldsOf
  <2>4. cl # 0 /\ u # 0
    BY <1>3, <1>9, Constants
  <2> QED
    BY <2>1, <2>3, <2>4
<1>20. r.stack[i] = cl
  BY <1>4, <1>9, <1>14, <1>17, <1>19
<1>21. r.obj[cl] = d /\ \A p \in Ids : p # cl /\ p # u => r.obj[p] = s.obj[p]
  BY <1>3, <1>4, <1>9, <1>14, <1>17
<1>22. u \in Strong(r, cl)
  BY <1>13, <1>21 DEF Strong
<1>23. cl \in Reachable(r)
  BY <1>19, <1>20, ReachableIs
<1>24. u \in Reachable(r)
  BY <1>19, <1>22, <1>23, ReachableIs DEF Shut
<1>25. r.currentwhite = s.currentwhite
  BY <1>4, <1>9, <1>14, <1>17
<1> QED
  BY <1>16, <1>18, <1>21, <1>23, <1>24, <1>25, MildBut


LEMMA NewClosureLoses ==
  ASSUME GarbageInv, NEW i \in Places, NEW th \in Ids, NEW j \in Places, NewClosure(i, th, j)
  PROVE  GarbageInv'
<1>0. GcInv
  BY DEF GarbageInv
<1>1. CollectorInv(g) /\ g \in States /\ RootsAlive(g) /\ g.stack \in [Places -> Names]
  BY <1>0, InvFacts, FieldsOf DEF GcInv, CollectorInv
<1>2. FreeIds(g) \ {NewId(g)} # {} /\ FreeIds(g) # {} /\ Does(WithClosure(g, i, th, j))
  BY RoomIs DEF NewClosure, HasRoom
<1>3. g.obj[th].kind = "thread" /\ Value(g, UpvalSlot(g, th, j))
  <2>1. CASE th = Main
    BY <2>1, <1>1 DEF RootsAlive, UpvalSlot
  <2>2. CASE th # Main
    <3>1. th \in ToSet(g.stack) /\ Kind(g, th) = "thread" /\ th # 0
      BY <2>2, Constants DEF NewClosure
    <3>2. \E k \in Places : th = g.stack[k]
      BY <3>1, <1>1 DEF ToSet
    <3>3. Refers(g, th) /\ g.obj[th].kind = "thread"
      BY <3>1, <3>2, <1>1, OnStackIs
    <3> QED
      BY <3>3, <2>2 DEF Refers, UpvalSlot
  <2> QED
    BY <2>1, <2>2
<1>4. Mild(g, WithClosure(g, i, th, j))
  BY <1>1, <1>2, <1>3, WithClosureMild
<1>5. GcInv'
  BY <1>0, NewClosureKeeps
<1> QED
  BY <1>2, <1>4, <1>5, DoneLost

LEMMA LoadLoses ==
  ASSUME GarbageInv, NEW i \in Places, NEW x,
         x = GlobalTable \/ \E j \in Places : x = g.stack[j],
         Erase(i) \/ GetField(i, x) \/ GetUpval(i, x)
  PROVE  GarbageInv'
<1>0. GcInv
  BY DEF GarbageInv
<1>1. CollectorInv(g) /\ GcInv'
  BY <1>0, LoadKeeps DEF GcInv
<1>2. /\ x # 0 => Alive(g, x) /\ Refers(g, x) /\ Kind(g, x) = g.obj[x].kind
      /\ x = 0 => Kind(g, x) = "nil"
  BY <1>1, OnStackIs
<1>3. \A v : Value(g, v) => Mild(g, Stored(g, i, v))
  BY <1>1, StoredMild
<1>4. CASE Erase(i)
  <2>1. Does(Stored(g, i, 0)) /\ Value(g, 0)
    BY <1>4 DEF Erase, Value
  <2> QED
    BY <2>1, <1>1, <1>3, DoneLost
<1>5. CASE GetField(i, x)
  <2>1. Does(Stored(g, i, g.obj[x].val)) /\ Kind(g, x) \in {"table", "weak"}
    BY <1>5 DEF GetField
  <2>2. Value(g, g.obj[x].val)
    BY <2>1, <1>2 DEF Refers
  <2> QED
    BY <2>1, <2>2, <1>1, <1>3, DoneLost
<1>6. CASE GetUpval(i, x)
  <2>1. PICK u : u = g.obj[x].val
    OBVIOUS
  <2>2. Does(Stored(g, i, Held(g, u))) /\ Kind(g, x) = "closure"
    BY <1>6, <2>1 DEF GetUpval
  <2>3. x # 0 /\ g.obj[x].kind = "closure" /\ Refers(g, x) /\ x \in Ids
    BY <2>2, <1>1, <1>2, OnStackIs
  <2>4. u # 0 /\ Alive(g, u) /\ g.obj[u].kind = "upval" /\ u \in Names
    BY <2>1, <2>3, <1>1, InvFacts, FieldsOf DEF Refers, CollectorInv
  <2>5. Refers(g, u)
    BY <2>4, <1>1, InvFacts DEF CollectorInv, AllRefer, Names
  <2>6. Value(g, Held(g, u))
    BY <2>4, <2>5 DEF Refers
  <2> QED
    BY <2>2, <2>6, <1>1, <1>3, DoneLost
<1> QED
  BY <1>4, <1>5, <1>6

\* A store into what can be reached, before its barrier.
LEMMA PutGraph ==
  ASSUME NEW s, NEW w, NEW o, NEW x, CollectorInv(s), Puts(s, w, o, x)
  PROVE  Graph(w)
BY PutsKeeps

LEMMA PutMild ==
  ASSUME NEW s, NEW w, NEW o, NEW x, CollectorInv(s), Puts(s, w, o, x), o \in Reachable(w)
  PROVE  Mild(s, w) /\ Graph(w) /\ Aside(w, Unreachable(w))
<1>1. Graph(w)
  BY PutsKeeps
<1>2. w.gcstate = s.gcstate /\ w.currentwhite = s.currentwhite
      /\ \A p \in Ids : p # o => LeftAlone(s, w, p)
  BY DEF Puts, LeftAlone
<1>3. Aside(w, Unreachable(w))
  BY <1>1, ReachableIs, UnreachableForgotten DEF Aside, Graph
<1> QED
  BY <1>1, <1>2, <1>3 DEF Mild

LEMMA BarriertMild ==
  ASSUME NEW s, NEW w, NEW o, NEW x, CollectorInv(s), Puts(s, w, o, x), o \in Reachable(w),
         s.obj[o].kind \in {"table", "weak"}
  PROVE  Mild(s, luaC_barriert(w, o, x))
<1>1. Mild(s, w) /\ Graph(w) /\ Aside(w, Unreachable(w))
  BY PutMild
<1>2. o \in Ids /\ o \notin Unreachable(w) /\ w \in States
  BY <1>1 DEF Puts, Unreachable
<1>3. CASE ~NeedsBarrier(w, o, x)
  BY <1>1, <1>3 DEF luaC_barriert
<1>4. CASE NeedsBarrier(w, o, x)
  <2>1. PICK t : t = Painted(w, o, "gray")
    OBVIOUS
  <2>2. PICK r : r = luaC_barriert(w, o, x)
    OBVIOUS
  <2>3. r = [t EXCEPT !.grayagain = <<o>> \o t.grayagain]
    BY <1>4, <2>1, <2>2 DEF luaC_barriert, luaC_barrierback
  <2>4. Spares(w, t, Unreachable(w)) /\ t \in States
    BY <1>1, <1>2, <2>1, PaintedSpares DEF Colors, Spares, SameGraph
  <2>5. PICK q : q = <<o>> \o t.grayagain
    OBVIOUS
  <2>6. t.gray \in Seq(Ids) /\ t.grayagain \in Seq(Ids) /\ t.weak \in Seq(Ids)
    BY <2>4, FieldsOf
  <2>7. q \in Seq(Ids)
    BY <1>2, <2>5, <2>6
  <2>8. ListsSet(t, r, t.gray, q, t.weak)
    BY <2>3, <2>4, <2>5 DEF ListsSet, States
  <2>9. SameGraph(t, r) /\ r.obj = t.obj
    BY <2>4, <2>6, <2>7, <2>8, WithLists
  <2>10. Spares(t, r, Unreachable(w))
    BY <2>9 DEF Spares, SameIn
  <2>11. Spares(w, r, Unreachable(w))
    BY <1>1, <2>4, <2>10, SparesIs
  <2>12. CollectorInv(r)
    BY <2>2, SetFieldKept DEF Kept
  <2>13. Graph(r)
    BY <2>12, InvFacts DEF CollectorInv
  <2> QED
    BY <1>1, <2>2, <2>11, <2>13, MildSpares
<1> QED
  BY <1>3, <1>4

LEMMA BarrierMild ==
  ASSUME NEW s, NEW w, NEW o, NEW x, CollectorInv(s), Puts(s, w, o, x), o \in Reachable(w),
         x # 0 => x \in Reachable(w)
  PROVE  Mild(s, luaC_barrier(w, o, x))
<1>1. Mild(s, w) /\ Graph(w) /\ Aside(w, Unreachable(w))
  BY PutMild
<1>2. o \in Ids /\ o \notin Unreachable(w) /\ w \in States
  BY <1>1 DEF Puts, Unreachable
<1>3. CASE ~NeedsBarrier(w, o, x)
  BY <1>1, <1>3 DEF luaC_barrier
<1>4. CASE NeedsBarrier(w, o, x)
  <2>1. PICK r : r = luaC_barrier(w, o, x)
    OBVIOUS
  <2>2. r = luaC_barrierf(w, o, x)
    BY <1>4, <2>1 DEF luaC_barrier
  <2>3. x \in Ids /\ x \notin Unreachable(w)
    <3>1. x # 0 /\ x \in Names
      BY <1>4 DEF NeedsBarrier, Puts
    <3> QED
      BY <3>1 DEF Unreachable, Names
  <2>4. Spares(w, r, Unreachable(w))
    <3>1. CASE w.gcstate = "propagate"
      BY <3>1, <2>2, <2>3, <1>1, reallymarkobjectSpares DEF luaC_barrierf
    <3>2. CASE w.gcstate # "propagate"
      <4>1. w.currentwhite \in Colors
        BY <1>2, FieldsOf DEF Colors, Whites
      <4> QED
        BY <4>1, <3>2, <2>2, <1>1, <1>2, PaintedSpares DEF luaC_barrierf, makewhite
    <3> QED
      BY <3>1, <3>2
  <2>5. CollectorInv(r)
    BY <2>1, BarrierKept DEF Kept
  <2>6. Graph(r)
    BY <2>5, InvFacts DEF CollectorInv
  <2> QED
    BY <1>1, <2>1, <2>4, <2>6, MildSpares
<1> QED
  BY <1>3, <1>4


\* A value of the stack moves to that of a coroutine.
LEMMA CoroutineSetMild ==
  ASSUME NEW s, CollectorInv(s), NEW co \in Ids, s.obj[co].kind = "thread", co # Main,
         NEW i \in Places, NEW x, x = s.stack[i]
  PROVE  Mild(s, [s EXCEPT !.obj[co].val = x])
<1>1. Value(s, x) /\ s \in States
  BY OnStackIs, InvFacts DEF CollectorInv
<1>2. PICK w : w = [s EXCEPT !.obj[co].val = x]
  OBVIOUS
<1>3. CollectorInv(w) /\ w.gcstate = s.gcstate
  BY <1>1, <1>2, CoroutineSetKept DEF Kept
<1>4. w.stack = s.stack /\ w.currentwhite = s.currentwhite
  BY <1>1, <1>2 DEF States
<1>5. Graph(w)
  BY <1>3, InvFacts DEF CollectorInv
<1>6. x = 0 \/ x \in Reachable(w)
  BY <1>4, <1>5, ReachableIs
<1>7. ASSUME NEW p \in Ids PROVE LeftAlone(s, w, p)
  <2>1. CASE p # co
    BY <2>1, <1>1, <1>2 DEF LeftAlone, States
  <2>2. CASE p = co
    <3>1. w.obj[co] = [s.obj[co] EXCEPT !.val = x] /\ s.obj[co] \in Objects
      BY <1>1, <1>2 DEF States
    <3>2. /\ w.obj[co].kind = s.obj[co].kind /\ w.obj[co].color = s.obj[co].color
          /\ w.obj[co].slot = s.obj[co].slot /\ w.obj[co].th = s.obj[co].th
          /\ w.obj[co].val = x
      BY <3>1 DEF Objects
    <3> QED
      BY <2>2, <3>2, <1>6 DEF LeftAlone
  <2> QED
    BY <2>1, <2>2
<1> QED
  BY <1>2, <1>3, <1>4, <1>5, <1>7 DEF Mild

\* A variable is set through a closure of the stack.
LEMMA SetUpvalMild ==
  ASSUME NEW s, CollectorInv(s), NEW u \in Ids, Alive(s, u), s.obj[u].kind = "upval",
         NEW f \in Ids, s.obj[f].kind = "closure", s.obj[f].val = u,
         NEW j \in Places, f = s.stack[j], NEW i \in Places, NEW x, x = s.stack[i]
  PROVE  Mild(s, luaC_barrier(UpvalSet(s, u, x), u, x))
<1>1. s \in States /\ BlackKinds(s) /\ OpenApart(s) /\ Value(s, x) /\ x \in Names
  BY OnStackIs, InvFacts DEF CollectorInv, Value, Names
<1>2. CASE ~IsOpenUpval(s, u)
  <2>1. PICK w : w = [s EXCEPT !.obj[u].val = x]
    OBVIOUS
  <2>2. UpvalSet(s, u, x) = w
    BY <1>2, <2>1 DEF UpvalSet
  <2>3. Puts(s, w, u, x)
    BY <1>1, <1>2, <2>1, PutIs
  <2>4. Graph(w) /\ w.stack = s.stack
    <3>0. CollectorInv(s)
      OBVIOUS
    <3>1. Graph(w)
      BY <3>0, <2>3, PutGraph
    <3> QED
      BY <3>1, <2>3 DEF Puts
  <2>5. f \in Reachable(w) /\ (x # 0 => x \in Reachable(w))
    BY <2>4, ReachableIs, Constants
  <2>6. u \in Strong(w, f)
    <3>1. f # u /\ w.obj[f].kind = "closure" /\ w.obj[f].val = u
      BY <2>3 DEF Puts
    <3> QED
      BY <3>1 DEF Strong
  <2>7. u \in Reachable(w)
    BY <2>4, <2>5, <2>6, ReachableIs, Constants DEF Shut
  <2> QED
    BY <2>2, <2>3, <2>5, <2>7, BarrierMild
<1>3. CASE IsOpenUpval(s, u)
  <2>1. PICK w : w = UpvalSet(s, u, x)
    OBVIOUS
  <2>2. s.obj[u].color # "black" /\ s.obj[u].th \in Ids /\ s.obj[s.obj[u].th].kind = "thread"
        /\ s.obj[u].slot \in Slots /\ s.obj[u].slot # 0
    BY <1>1, <1>3, FieldsOf DEF BlackKinds, OpenApart, IsOpenUpval
  <2>3. Mild(s, w) /\ w.obj[u].color = s.obj[u].color
    <3>1. CASE s.obj[u].th = Main
      <4>1. w = Stored(s, s.obj[u].slot, x) /\ s.obj[u].slot \in Places
        BY <1>3, <2>1, <2>2, <3>1 DEF UpvalSet, Slots
      <4>2. w.obj = s.obj
        BY <4>1, <1>1 DEF Stored, States
      <4> QED
        BY <4>1, <4>2, <1>1, StoredMild
    <3>2. CASE s.obj[u].th # Main
      <4>1. w = [s EXCEPT !.obj[s.obj[u].th].val = x]
        BY <1>3, <2>1, <3>2 DEF UpvalSet
      <4>2. w.obj[u].color = s.obj[u].color
        BY <4>1, <2>2, <3>2, <1>1, CoroutineSetKept
      <4> QED
        BY <4>1, <4>2, <2>2, <3>2, CoroutineSetMild
    <3> QED
      BY <3>1, <3>2
  <2>4. ~NeedsBarrier(w, u, x)
    BY <2>2, <2>3 DEF NeedsBarrier
  <2> QED
    BY <2>1, <2>3, <2>4 DEF luaC_barrier
<1> QED
  BY <1>2, <1>3

LEMMA StoreLoses ==
  ASSUME GarbageInv, NEW t, t = GlobalTable \/ \E j \in Places : t = g.stack[j],
         NEW i \in Places, NEW x, x = g.stack[i],
         SetField(t, x) \/ SetUpval(t, x) \/ SetEnv(t, x) \/ XMove(t, x)
  PROVE  GarbageInv'
<1>0. GcInv
  BY DEF GarbageInv
<1>1. CollectorInv(g) /\ GcInv'
  BY <1>0, StoreKeeps DEF GcInv
<1>2. /\ t # 0 => t \in Ids /\ Alive(g, t) /\ Refers(g, t) /\ Kind(g, t) = g.obj[t].kind
      /\ t = 0 => Kind(g, t) = "nil"
  BY <1>1, OnStackIs
<1>3. /\ Value(g, x) /\ x \in Names
      /\ x # 0 => x \in Ids /\ Alive(g, x) /\ Kind(g, x) = g.obj[x].kind
      /\ x = 0 => Kind(g, x) = "nil"
  BY <1>1, OnStackIs DEF Names
<1>4. ASSUME NEW w, t # 0, Graph(w), w.stack = g.stack
      PROVE  t \in Reachable(w) /\ (x # 0 => x \in Reachable(w))
  BY <1>4, ReachableIs
<1>5. CASE SetField(t, x)
  <2>1. PICK w : w = [g EXCEPT !.obj[t].val = x]
    OBVIOUS
  <2>2. /\ Does(luaC_barriert(w, t, x)) /\ t # 0 /\ t \in Ids /\ Alive(g, t)
        /\ g.obj[t].kind \in {"table", "weak"}
    BY <1>2, <1>5, <2>1, Constants DEF SetField
  <2>3. Puts(g, w, t, x)
    BY <2>1, <2>2, <1>1, <1>3, PutIs
  <2>4. Graph(w) /\ w.stack = g.stack
    <3>1. Graph(w)
      BY <2>3, <1>1, PutGraph
    <3> QED
      BY <3>1, <2>3 DEF Puts
  <2>5. t \in Reachable(w)
    BY <2>2, <2>4, <1>4
  <2>6. Mild(g, luaC_barriert(w, t, x))
    BY <2>2, <2>3, <2>5, <1>1, BarriertMild
  <2> QED
    BY <2>2, <2>6, <1>1, DoneLost
<1>6. CASE SetUpval(t, x)
  <2>1. PICK u : u = g.obj[t].val
    OBVIOUS
  <2>2. Does(luaC_barrier(UpvalSet(g, u, x), u, x)) /\ Kind(g, t) = "closure"
    BY <1>6, <2>1 DEF SetUpval
  <2>3. t # 0 /\ t \in Ids /\ g.obj[t].kind = "closure" /\ Refers(g, t)
    BY <2>2, <1>2
  <2>4. u # 0 /\ Alive(g, u) /\ g.obj[u].kind = "upval" /\ u \in Ids
    BY <2>1, <2>3, <1>1, InvFacts, FieldsOf DEF Refers, CollectorInv, Names
  <2>5. \E j \in Places : t = g.stack[j]
    <3>1. g.obj[GlobalTable].kind = "table"
      BY <1>1, InvFacts DEF CollectorInv, RootsAlive
    <3> QED
      BY <3>1, <2>3
  <2>6. Mild(g, luaC_barrier(UpvalSet(g, u, x), u, x))
    BY <2>1, <2>3, <2>4, <2>5, <1>1, SetUpvalMild
  <2> QED
    BY <2>2, <2>6, <1>1, DoneLost
<1>7. CASE SetEnv(t, x)
  <2>1. PICK w : w = [g EXCEPT !.obj[t].val = x]
    OBVIOUS
  <2>2. Does(luaC_barrier(w, t, x)) /\ Kind(g, t) = "udata" /\ Kind(g, x) \in {"table", "weak"}
    BY <1>7, <2>1 DEF SetEnv
  <2>3. t # 0 /\ t \in Ids /\ Alive(g, t) /\ g.obj[t].kind = "udata"
        /\ x # 0 /\ Alive(g, x) /\ g.obj[x].kind \in {"table", "weak"}
    BY <2>2, <1>2, <1>3
  <2>4. Puts(g, w, t, x)
    BY <2>1, <2>3, <1>1, <1>3, PutIs
  <2>5. Graph(w) /\ w.stack = g.stack
    <3>1. Graph(w)
      BY <2>4, <1>1, PutGraph
    <3> QED
      BY <3>1, <2>4 DEF Puts
  <2>6. t \in Reachable(w) /\ x \in Reachable(w)
    BY <2>3, <2>5, <1>4
  <2>7. Mild(g, luaC_barrier(w, t, x))
    BY <2>4, <2>6, <1>1, BarrierMild
  <2> QED
    BY <2>2, <2>7, <1>1, DoneLost
<1>8. CASE XMove(t, x)
  <2>1. PICK w : w = [g EXCEPT !.obj[t].val = x]
    OBVIOUS
  <2>2. Does(w) /\ t \in Ids /\ t # Main /\ g.obj[t].kind = "thread"
    BY <1>2, <1>8, <2>1 DEF XMove
  <2>3. Mild(g, w)
    BY <2>1, <2>2, <1>1, CoroutineSetMild
  <2> QED
    BY <2>2, <2>3, <1>1, DoneLost
<1> QED
  BY <1>5, <1>6, <1>7, <1>8


LEMMA SparesDoomed ==
  ASSUME NEW s, NEW r, NEW G, CollectorInv(s), Doomed(s, G), Spares(s, r, G)
  PROVE  Doomed(r, G)
<1>1. s \in States /\ OpenApart(s)
  BY InvFacts DEF CollectorInv
<1>2. SameGraph(s, r)
  BY DEF Spares
<1>3. Forgotten(r, G) /\ Alike(s, r)
  BY <1>1, <1>2, SameAlike DEF Doomed
<1>4. r.gcstate = s.gcstate /\ r.currentwhite = s.currentwhite
  BY <1>2 DEF SameGraph
<1>5. \A o \in G : r.obj[o].color = s.obj[o].color /\ (Exists(r, o) <=> Exists(s, o))
  BY <1>3 DEF Spares, SameIn, Alike, Doomed
<1> QED
  BY <1>3, <1>4, <1>5 DEF Doomed, Waits, iswhite, isdead, otherwhite

\* A variable is closed while objects are marked: a marked one refers to
\* nothing that is lost.
LEMMA CloseOneDooms ==
  ASSUME NEW s, NEW G, CollectorInv(s), s.gcstate = "propagate", NEW u \in Ids,
         IsOpenUpval(s, u), Doomed(s, G)
  PROVE  Doomed(CloseOne(s, u), G)
<1>1. s \in States /\ OpenApart(s) /\ NoneDead(s) /\ InvBut(s, {})
  BY InvFacts DEF CollectorInv, Marking, Marked
<1>2. Exists(s, u) /\ ~isdead(s, u) /\ s.obj[u].kind = "upval"
  BY <1>1 DEF NoneDead, IsOpenUpval, Exists
<1>3. PICK j : j = Joined(s, u)
  OBVIOUS
<1>4. CloseOne(s, u) = IF s.obj[u].color # "gray" THEN j ELSE Blackened(j, u)
  BY <1>1, <1>2, <1>3, CloseOneIs
<1>5. /\ j \in States /\ Graph(j) /\ SamePhase(s, j)
      /\ \A p \in Ids : p # u => j.obj[p] = s.obj[p]
      /\ j.obj[u].kind = "upval" /\ j.obj[u].color = s.obj[u].color
      /\ j.obj[u].val = Held(s, u) /\ Value(s, Held(s, u))
  BY <1>1, <1>2, <1>3, JoinedIs
<1>6. Forgotten(s, G) /\ 0 \notin G /\ G \subseteq Ids /\ Pale(s, G) /\ \A o \in G : Exists(s, o)
  BY DoomedFacts DEF Doomed
<1>7. Forgotten(j, G)
  <2>1. Fades(s, j)
    BY <1>1, <1>2, <1>3, JoinedFades
  <2> QED
    BY <2>1, <1>6, FadesIs
<1>8. \A o \in G : Exists(j, o) /\ iswhite(j, o)
  BY <1>2, <1>5, <1>6 DEF Exists, iswhite, Pale
<1>9. j.gcstate = "propagate"
  BY <1>5 DEF SamePhase
<1>10. Doomed(j, G)
  BY <1>6, <1>7, <1>8, <1>9 DEF Doomed, Waits
<1>11. CASE s.obj[u].color # "gray"
  BY <1>4, <1>10, <1>11
<1>12. CASE s.obj[u].color = "gray"
  <2>1. u \notin G
    BY <1>6, <1>12 DEF Pale, iswhite
  <2>2. Held(s, u) \notin G /\ Held(s, u) \in Names
    <3>1. Held(s, u) \in Strong(s, u)
      BY <1>2 DEF Strong
    <3> QED
      BY <3>1, <2>1, <1>2, <1>5, <1>6 DEF Forgotten, Value, Names
  <2>3. PICK v : v = j.obj[u].val
    OBVIOUS
  <2>4. PICK b : b = Painted(j, u, "black")
    OBVIOUS
  <2>5. Aside(j, G) /\ v \notin G /\ v \in Names
    BY <2>2, <2>3, <1>5, <1>6, <1>7 DEF Aside, Graph
  <2>6. Spares(j, b, G)
    BY <2>1, <2>4, <2>5, PaintedSpares DEF Colors
  <2>7. Aside(b, G)
    BY <2>5, <2>6, SparesIs
  <2>8. Spares(b, markvalue(b, v), G)
    BY <2>5, <2>7, markvalueSpares
  <2>9. Spares(j, markvalue(b, v), G)
    BY <2>5, <2>6, <2>8, SparesIs
  <2>10. PICK r : r = Blackened(j, u)
    OBVIOUS
  <2>11. r = markvalue(b, v) \/ r = b
    BY <2>3, <2>4, <2>10 DEF Blackened
  <2>12. Spares(j, r, G)
    BY <2>6, <2>9, <2>11
  <2>13. SameGraph(j, r) /\ \A o \in G : r.obj[o].color = j.obj[o].color
    BY <2>12 DEF Spares, SameIn
  <2>14. Forgotten(r, G) /\ Alike(j, r)
    BY <2>5, <2>13, <1>7, SameAlike DEF Aside
  <2>15. \A o \in G : Exists(r, o) /\ iswhite(r, o)
    BY <2>13, <2>14, <1>6, <1>8 DEF Alike, iswhite
  <2>16. r.gcstate = "propagate"
    BY <2>13, <1>9 DEF SameGraph
  <2>17. Doomed(r, G)
    BY <2>14, <2>15, <2>16, <1>6 DEF Doomed, Waits
  <2> QED
    BY <2>10, <2>17, <1>4, <1>12
<1> QED
  BY <1>11, <1>12

LEMMA CloseAtDooms ==
  ASSUME NEW s, NEW G, CollectorInv(s), s.gcstate = "propagate", NEW th, NEW i, Doomed(s, G)
  PROVE  Doomed(CloseAt(s, th, i), G)
<1>1. CASE UpvalsAt(s, th, i) = {}
  BY <1>1 DEF CloseAt
<1>2. CASE UpvalsAt(s, th, i) # {}
  <2>1. PICK u : u = CHOOSE x \in UpvalsAt(s, th, i) : TRUE
    OBVIOUS
  <2>2. u \in Ids /\ IsOpenUpval(s, u)
    BY <2>1, <1>2 DEF UpvalsAt, OpenOf
  <2>3. CloseAt(s, th, i) = CloseOne(s, u)
    BY <2>1, <1>2 DEF CloseAt
  <2> QED
    BY <2>2, <2>3, CloseOneDooms
<1> QED
  BY <1>1, <1>2

LEMMA CloseUpvalsDooms ==
  ASSUME NEW s, NEW G, CollectorInv(s), s.gcstate = "propagate", NEW th, NEW level \in Places,
         Doomed(s, G)
  PROVE  Doomed(CloseUpvals(s, th, level), G)
<1> DEFINE k == StackSlots + 1 - level
           f(x, n) == CloseAt(x, th, StackSlots + 1 - n)
           T == [i \in 0 .. k |-> {x \in States : Closes(s, x, {}) /\ Doomed(x, G)}]
           Step == [i \in 1 .. k |-> [x \in T[i - 1] |-> f(x, i)]]
<1>0. s \in States /\ StackSlots \in Nat /\ level \in Nat /\ 1 <= level /\ level <= StackSlots
  BY InvFacts, Constants DEF Places, CollectorInv
<1>1. k \in Nat
  BY <1>0
<1>2. s \in T[0]
  <2>1. Closes(s, s, {})
    BY DEF Closes, SamePhase, CollectorInv
  <2> HIDE DEF k
  <2>2. 0 \in 0 .. k
    BY <1>1
  <2> QED
    BY <1>0, <2>1, <2>2
<1>3. ASSUME NEW i \in 1 .. k, NEW x \in T[i - 1]
      PROVE  f(x, i) \in T[i]
  <2> DEFINE y == f(x, i)
  <2> HIDE DEF k
  <2>1. i - 1 \in 0 .. k /\ i \in 0 .. k
    BY <1>1
  <2>2. x \in States /\ Closes(s, x, {}) /\ Doomed(x, G)
    BY <2>1
  <2>3. CollectorInv(x) /\ InvBut(x, {}) /\ x.gcstate = "propagate"
    BY <2>2 DEF Closes, SamePhase, CollectorInv
  <2>4. Closes(x, y, {})
    BY <2>3, CloseAtCloses
  <2>5. Doomed(y, G)
    BY <2>2, <2>3, CloseAtDooms
  <2> HIDE DEF f, y
  <2>6. Closes(s, y, {}) /\ y \in States
    BY <2>2, <2>4, ClosesChain, InvFacts DEF Closes
  <2> QED
    BY <2>1, <2>5, <2>6 DEF y
<1>4. Within(k, T, Step)
  <2> HIDE DEF T, f
  <2> QED
    BY <1>3 DEF Within
<1>5. PICK m : Repeats(k, T, Step, s, m)
  <2> HIDE DEF T, Step
  <2> QED
    BY <1>1, <1>2, <1>4, Repeated
<1>6. m = [i \in 0 .. k |-> IF i = 0 THEN s ELSE f(m[i - 1], i)]
  <2> HIDE DEF T, f
  <2>1. \A i \in 1 .. k : Step[i][m[i - 1]] = f(m[i - 1], i)
    <3> SUFFICES ASSUME NEW i \in 1 .. k PROVE Step[i][m[i - 1]] = f(m[i - 1], i)
      OBVIOUS
    <3>1. i - 1 \in 0 .. k
      BY <1>1
    <3>2. m[i - 1] \in T[i - 1]
      BY <3>1, <1>5 DEF Repeats
    <3> QED
      BY <3>2
  <2> HIDE DEF Step
  <2>2. \A i \in 0 .. k : i # 0 => i \in 1 .. k
    BY <1>1
  <2> QED
    BY <1>5, <2>1, <2>2 DEF Repeats
<1>7. PICK r : r = CHOOSE h : h = [n \in 0 .. k |-> IF n = 0 THEN s ELSE f(h[n - 1], n)]
  OBVIOUS
<1>8. r = [n \in 0 .. k |-> IF n = 0 THEN s ELSE f(r[n - 1], n)]
  <2> HIDE DEF f
  <2> QED
    BY <1>6, <1>7
<1>9. CloseUpvals(s, th, level) = r[k]
  BY <1>7 DEF CloseUpvals, k
<1>10. r[k] \in T[k]
  <2>1. r[0] \in T[0]
    <3> HIDE DEF T, f
    <3>1. 0 \in 0 .. k
      BY <1>1
    <3> QED
      BY <1>2, <1>8, <3>1
  <2>2. \A i \in 1 .. k : r[i - 1] \in T[i - 1] => r[i] \in T[i]
    <3> HIDE DEF T
    <3> SUFFICES ASSUME NEW i \in 1 .. k, r[i - 1] \in T[i - 1] PROVE r[i] \in T[i]
      OBVIOUS
    <3>1. i \in 0 .. k /\ i # 0
      BY <1>1
    <3>2. r[i] = f(r[i - 1], i)
      <4> HIDE DEF f
      <4> QED
        BY <1>8, <3>1
    <3> QED
      BY <1>3, <3>2
  <2>3. \A i \in 0 .. k : r[i] \in T[i]
    <3> HIDE DEF T, f
    <3> QED
      BY <1>1, <2>1, <2>2, PassedOn
  <2>4. k \in 0 .. k
    BY <1>1
  <2> QED
    BY <2>3, <2>4
<1>11. r[k] \in States /\ Doomed(r[k], G)
  <2> HIDE DEF k
  <2>1. k \in 0 .. k
    BY <1>1
  <2> QED
    BY <1>10, <2>1
<1> QED
  BY <1>9, <1>11

\* What nothing refers to from outside is not reached.
LEMMA ForgottenUnreached ==
  ASSUME NEW s, NEW G, CollectorInv(s), Forgotten(s, G)
  PROVE  \A o \in G : o \notin Reachable(s)
<1> DEFINE X == Reachable(s) \ G
<1>1. Graph(s) /\ RootLists(s, {})
  BY InvFacts DEF CollectorInv
<1>2. Reachable(s) \subseteq {o \in Ids : Alive(s, o)}
  BY <1>1, ReachableAlive
<1>3. /\ Main \in Reachable(s) /\ ToSet(s.tmudata) \subseteq Reachable(s)
      /\ Shut(s, Reachable(s))
      /\ \A Y : Shut(s, Y) /\ Main \in Y /\ ToSet(s.tmudata) \subseteq Y => Reachable(s) \subseteq Y
  BY <1>1, ReachableIs
<1>4. Main \in X /\ ToSet(s.tmudata) \subseteq X
  BY <1>3 DEF Forgotten
<1>5. Shut(s, X)
  BY <1>2, <1>3 DEF Shut, Forgotten, Alive
<1> HIDE DEF X
<1>6. Reachable(s) \subseteq X
  BY <1>3, <1>4, <1>5
<1> QED
  BY <1>6 DEF X

\* A change that follows what garbage has been doomed through.
LEMMA MildDoomed ==
  ASSUME NEW c, NEW r, NEW G, CollectorInv(c), CollectorInv(r), Doomed(c, G), Mild(c, r),
         \A o \in Ids : Exists(r, o) => Exists(c, o)
  PROVE  Lost(r, G \cap Unreachable(r))
<1>1. Lost(r, (G \cap Unreachable(c)) \cap Unreachable(r))
  BY LostIs, MildLost
<1>2. G \cap Unreachable(r) \subseteq Unreachable(c)
  <2>1. \A o \in G : o \in Ids /\ o \notin Reachable(c)
    BY ForgottenUnreached DEF Doomed
  <2>2. Graph(c) /\ Graph(r)
    BY InvFacts DEF CollectorInv
  <2> QED
    BY <2>1, <2>2, ReachableIs
<1>3. (G \cap Unreachable(c)) \cap Unreachable(r) = G \cap Unreachable(r)
  BY <1>2
<1> QED
  BY <1>1, <1>3

\* A function returns.
LEMMA LeaveLoses ==
  ASSUME GarbageInv, NEW level \in Places, Leave(level) PROVE GarbageInv'
<1>0. GcInv
  BY DEF GarbageInv
<1>1. CollectorInv(g) /\ GcInv'
  BY <1>0, LeaveKeeps DEF GcInv
<1>2. PICK c : c = CloseUpvals(g, Main, level)
  OBVIOUS
<1>3. PICK r : r = [c EXCEPT !.stack = [i \in Places |-> IF i >= level THEN 0 ELSE @[i]]]
  OBVIOUS
<1>4. Does(r)
  BY <1>2, <1>3 DEF Leave
<1>5. Kept(g, c) /\ Kept(g, r)
  BY <1>1, <1>2, <1>3, LeaveKept
<1>6. CollectorInv(c) /\ CollectorInv(r) /\ c.gcstate = g.gcstate /\ r.gcstate = g.gcstate
  BY <1>5 DEF Kept
<1>7. c \in States
  BY <1>6, InvFacts DEF CollectorInv
<1>8. r.obj = c.obj /\ r.currentwhite = c.currentwhite
  BY <1>3, <1>7 DEF States
<1>9. Doomed(g, garbage)
  BY <1>1, LostIs DEF GarbageInv
<1>10. Doomed(c, garbage)
  <2>1. CASE g.gcstate = "propagate"
    BY <2>1, <1>1, <1>2, <1>9, CloseUpvalsDooms
  <2>2. CASE g.gcstate # "propagate"
    <3>1. PICK E : E = {}
      OBVIOUS
    <3>2. InvBut(g, E) /\ \A o \in E : o \in Ids /\ g.obj[o].kind = "thread"
      BY <3>1, <1>1 DEF CollectorInv
    <3>3. Fades(g, c)
      BY <3>2, <2>2, <1>2, CloseUpvalsFades
    <3> QED
      BY <3>3, <2>2, <1>1, <1>6, <1>9, FadesDoomed
  <2> QED
    BY <2>1, <2>2
<1>11. Mild(c, r)
  BY <1>6, <1>8, MildBut
<1>12. \A o \in Ids : Exists(r, o) => Exists(c, o)
  BY <1>8 DEF Exists
<1>13. Lost(r, garbage \cap Unreachable(r))
  BY <1>6, <1>10, <1>11, <1>12, MildDoomed
<1>14. g' = r /\ garbage' = garbage \cap Unreachable(r)
  BY <1>4 DEF Does
<1>15. Lost(g', garbage')
  BY <1>13, <1>14
<1> QED
  BY <1>1, <1>15 DEF GarbageInv

LEMMA OperationLoses ==
  ASSUME GarbageInv, Operation PROVE GarbageInv'
<1>1. PICK i \in Places :
        \/ NewObject(i) \/ Intern(i) \/ Erase(i) \/ Leave(i)
        \/ \E th \in Ids, j \in Places : NewClosure(i, th, j)
        \/ \E j \in Places :
             \/ GetField(i, OnStack(j)) \/ SetField(OnStack(j), OnStack(i)) \/ GetUpval(i, OnStack(j))
             \/ SetUpval(OnStack(j), OnStack(i)) \/ SetEnv(OnStack(j), OnStack(i))
             \/ XMove(OnStack(j), OnStack(i))
        \/ GetField(i, GlobalTable) \/ SetField(GlobalTable, OnStack(i))
  BY DEF Operation
<1>2. CASE NewObject(i)
  BY <1>2, NewObjectLoses
<1>3. CASE Intern(i)
  BY <1>3, InternLoses
<1>4. CASE Leave(i)
  BY <1>4, LeaveLoses
<1>5. CASE \E th \in Ids, j \in Places : NewClosure(i, th, j)
  BY <1>5, NewClosureLoses
<1>6. CASE Erase(i) \/ GetField(i, GlobalTable)
  BY <1>6, LoadLoses
<1>7. CASE \E j \in Places : GetField(i, OnStack(j)) \/ GetUpval(i, OnStack(j))
  <2>1. PICK j \in Places : GetField(i, OnStack(j)) \/ GetUpval(i, OnStack(j))
    BY <1>7
  <2>2. PICK x : x = OnStack(j)
    OBVIOUS
  <2>3. x = g.stack[j] /\ (GetField(i, x) \/ GetUpval(i, x))
    BY <2>1, <2>2 DEF OnStack
  <2> QED
    BY <2>3, LoadLoses
<1>8. ASSUME NEW t, t = GlobalTable \/ \E j \in Places : t = OnStack(j),
             \/ SetField(t, OnStack(i)) \/ SetUpval(t, OnStack(i)) \/ SetEnv(t, OnStack(i))
             \/ XMove(t, OnStack(i))
      PROVE  GarbageInv'
  <2>1. PICK x : x = OnStack(i)
    OBVIOUS
  <2>2. x = g.stack[i] /\ (t = GlobalTable \/ \E j \in Places : t = g.stack[j])
    BY <1>8, <2>1 DEF OnStack
  <2>3. SetField(t, x) \/ SetUpval(t, x) \/ SetEnv(t, x) \/ XMove(t, x)
    BY <1>8, <2>1
  <2> QED
    BY <2>2, <2>3, StoreLoses
<1> QED
  BY <1>1, <1>2, <1>3, <1>4, <1>5, <1>6, <1>7, <1>8

-----------------------------------------------------------------------------
(* A step of the collector between those of the program.                   *)

\* What is kept for a finalizer, and what that uses, is no garbage any more.
LEMMA AtomicLost ==
  ASSUME NEW s, NEW G, CollectorInv(s), s.gcstate = "propagate", Doomed(s, G)
  PROVE  Lost(atomic(s), G \cap Unreachable(atomic(s)))
<1>1. PICK r : r = atomic(s)
  OBVIOUS
<1>2. PICK D : D = G \cap Unreachable(r)
  OBVIOUS
<1>3. Aside(s, G) /\ Pale(s, G)
  BY DoomedFacts
<1>4. Alike(s, r) /\ \A o \in ToSet(s.tmudata) : o \in ToSet(r.tmudata)
  BY <1>1, <1>3, atomicSpares
<1>5. CollectorInv(r)
  BY <1>1, atomicKeeps
<1>6. Graph(r) /\ Graph(s)
  BY <1>5, InvFacts DEF CollectorInv
<1>7. Touches(s, r)
  BY <1>4 DEF Touches, Alike
<1>8. Forgotten(r, D)
  BY <1>2, <1>6, <1>7, Renewed DEF Doomed
<1>9. Forgotten(s, D)
  <2>1. Alike(r, s)
    BY <1>4 DEF Alike
  <2>2. \A o \in ToSet(s.tmudata) : o \notin D
    BY <1>4, <1>8 DEF Forgotten
  <2> QED
    BY <2>1, <2>2, <1>8, AlikeIs
<1>10. Doomed(s, D)
  <2>1. D \subseteq G
    BY <1>2
  <2> QED
    BY <2>1, <1>9 DEF Doomed
<1>11. Doomed(r, D)
  BY <1>1, <1>8, <1>10, AtomicDoomed DEF Forgotten
<1>12. Lost(r, D \cap Unreachable(r))
  BY <1>5, <1>11, LostIs
<1>13. D \cap Unreachable(r) = G \cap Unreachable(r)
  BY <1>2
<1> QED
  BY <1>1, <1>12, <1>13

\* A finalizer keeps its userdata on the stack.
LEMMA KeptLost ==
  ASSUME NEW s, NEW G, CollectorInv(s), s.gcstate = "finalize", s.tmudata # <<>>,
         Doomed(s, G), NEW keep \in Places
  PROVE  Lost(GCTM(s, keep), G \cap Unreachable(GCTM(s, keep)))
<1>1. PICK o : o = Head(s.tmudata)
  OBVIOUS
<1>2. PICK c : c = BackInList(s, o)
  OBVIOUS
<1>3. PICK r : r = [c EXCEPT !.stack[keep] = o]
  OBVIOUS
<1>4. keep # 0 /\ 0 \in Places \cup {0} /\ keep \in Places \cup {0}
  BY DEF Places
<1>5. GCTM(s, 0) = c /\ GCTM(s, keep) = r
  BY <1>1, <1>2, <1>3, <1>4 DEF GCTM
<1>6. CollectorInv(c) /\ c.gcstate = "finalize"
  <2>1. CollectorInv(GCTM(s, 0)) /\ GCTM(s, 0).gcstate = "finalize"
    BY <1>4, GCTMKeeps
  <2> QED
    BY <2>1, <1>5
<1>7. CollectorInv(r) /\ r.gcstate = "finalize"
  <2>1. CollectorInv(GCTM(s, keep)) /\ GCTM(s, keep).gcstate = "finalize"
    BY <1>4, GCTMKeeps
  <2> QED
    BY <2>1, <1>5
<1>8. Doomed(c, G)
  <2>1. Fades(s, c)
    BY <1>1, <1>2, BackInListFades
  <2> QED
    BY <2>1, <1>6, FadesDoomed
<1>9. r.obj = c.obj /\ r.currentwhite = c.currentwhite
  <2>1. c \in States
    BY <1>6, InvFacts DEF CollectorInv
  <2> QED
    BY <2>1, <1>3 DEF States
<1>10. Mild(c, r)
  BY <1>6, <1>7, <1>9, MildBut
<1>11. \A p \in Ids : Exists(r, p) => Exists(c, p)
  BY <1>9 DEF Exists
<1>12. Lost(r, G \cap Unreachable(r))
  BY <1>6, <1>7, <1>8, <1>10, <1>11, MildDoomed
<1> QED
  BY <1>5, <1>12

LEMMA SingleStepLoses ==
  ASSUME GarbageInv, SingleStep PROVE GarbageInv'
<1>0. GcInv
  BY DEF GarbageInv
<1>1. CollectorInv(g) /\ GcInv'
  BY <1>0, SingleStepKeeps DEF GcInv
<1>2. PICK keep \in Places \cup {0} :
        (keep # 0 => g.gcstate = "finalize" /\ g.tmudata # <<>>) /\ g' = singlestep(g, keep)
  BY DEF SingleStep
<1>3. PICK r : r = singlestep(g, keep)
  OBVIOUS
<1>4. CollectorInv(r) /\ g' = r
  BY <1>1, <1>2, <1>3, singlestepKeeps
<1>5. g.gcstate \in Phases
  BY <1>1, InvFacts, FieldsOf DEF CollectorInv
<1>6. CASE g.gcstate = "pause"
  <2>1. r = markroot(g)
    BY <1>3, <1>6 DEF singlestep
  <2>2. garbage' = Unreachable(g)
    BY <1>6 DEF SingleStep
  <2>3. Lost(r, Unreachable(g))
    BY <1>1, <1>6, <2>1, BegunLost
  <2>4. Lost(g', garbage')
    BY <2>2, <2>3, <1>4
  <2> QED
    BY <2>4, <1>1 DEF GarbageInv
<1>7. CASE g.gcstate # "pause"
  <2>1. garbage' = garbage \cap Unreachable(r)
    BY <1>4, <1>7 DEF SingleStep
  <2>2. Doomed(g, garbage)
    BY <1>1, LostIs DEF GarbageInv
  <2>3. Lost(r, garbage \cap Unreachable(r))
    <3>1. CASE g.gcstate = "propagate" /\ g.gray = <<>>
      <4>1. r = atomic(g)
        BY <1>3, <3>1 DEF singlestep
      <4> QED
        BY <4>1, <3>1, <2>2, <1>1, AtomicLost
    <3>2. CASE keep # 0
      <4>1. r = GCTM(g, keep) /\ keep \in Places
        BY <1>2, <1>3, <3>2 DEF singlestep
      <4> QED
        BY <4>1, <3>2, <2>2, <1>1, <1>2, KeptLost
    <3>3. CASE keep = 0 /\ ~(g.gcstate = "propagate" /\ g.gray = <<>>)
      <4>1. r = singlestep(g, 0)
        BY <1>3, <3>3
      <4>2. Doomed(r, garbage)
        BY <4>1, <3>3, <2>2, <1>1, <1>7, StepDoomed
      <4> QED
        BY <4>2, <1>4, LostIs
    <3> QED
      BY <3>1, <3>2, <3>3
  <2>4. Lost(g', garbage')
    BY <2>1, <2>3, <1>4
  <2> QED
    BY <2>4, <1>1 DEF GarbageInv
<1> QED
  BY <1>6, <1>7

-----------------------------------------------------------------------------
(* A full collection.                                                      *)

\* What each step of the collector stays in, all of them do.
LEMMA SteppedIn ==
  ASSUME NEW s, NEW state, NEW P, s \in P, \A x \in P : StepUnless(x, state) \in P
  PROVE  StepsTo(s, state) \in P
<1> DEFINE k == FullSteps
           f(x, n) == StepUnless(x, state)
           T == [i \in 0 .. k |-> P]
           Step == [i \in 1 .. k |-> [x \in T[i - 1] |-> f(x, i)]]
<1>1. k \in Nat
  BY Constants DEF FullSteps
<1>2. s \in T[0]
  <2> HIDE DEF k
  <2>1. 0 \in 0 .. k
    BY <1>1
  <2> QED
    BY <2>1
<1>3. ASSUME NEW i \in 1 .. k, NEW x \in T[i - 1]
      PROVE  f(x, i) \in T[i]
  <2> HIDE DEF k
  <2>1. i - 1 \in 0 .. k /\ i \in 0 .. k
    BY <1>1
  <2>2. x \in P
    BY <2>1
  <2> QED
    BY <2>1, <2>2
<1>4. Within(k, T, Step)
  <2> HIDE DEF T, f
  <2> QED
    BY <1>3 DEF Within
<1>5. PICK m : Repeats(k, T, Step, s, m)
  <2> HIDE DEF T, Step, k
  <2> QED
    BY <1>1, <1>2, <1>4, Repeated
<1>6. m = [i \in 0 .. k |-> IF i = 0 THEN s ELSE f(m[i - 1], i)]
  <2> HIDE DEF T, f
  <2>1. \A i \in 1 .. k : Step[i][m[i - 1]] = f(m[i - 1], i)
    <3> SUFFICES ASSUME NEW i \in 1 .. k PROVE Step[i][m[i - 1]] = f(m[i - 1], i)
      OBVIOUS
    <3>1. i - 1 \in 0 .. k
      BY <1>1
    <3>2. m[i - 1] \in T[i - 1]
      BY <3>1, <1>5 DEF Repeats
    <3> QED
      BY <3>2
  <2> HIDE DEF Step
  <2>2. \A i \in 0 .. k : i # 0 => i \in 1 .. k
    BY <1>1
  <2> QED
    BY <1>5, <2>1, <2>2 DEF Repeats
<1>7. PICK r : r = CHOOSE h : h = [n \in 0 .. k |-> IF n = 0 THEN s ELSE f(h[n - 1], n)]
  OBVIOUS
<1>8. r = [n \in 0 .. k |-> IF n = 0 THEN s ELSE f(r[n - 1], n)]
  <2> HIDE DEF f
  <2> QED
    BY <1>6, <1>7
<1>9. StepsTo(s, state) = r[k]
  BY <1>7 DEF StepsTo, k
<1>10. r[k] \in T[k]
  <2>1. r[0] \in T[0]
    <3> HIDE DEF T, f
    <3>1. 0 \in 0 .. k
      BY <1>1
    <3> QED
      BY <1>2, <1>8, <3>1
  <2>2. \A i \in 1 .. k : r[i - 1] \in T[i - 1] => r[i] \in T[i]
    <3> HIDE DEF T
    <3> SUFFICES ASSUME NEW i \in 1 .. k, r[i - 1] \in T[i - 1] PROVE r[i] \in T[i]
      OBVIOUS
    <3>1. i \in 0 .. k /\ i # 0
      BY <1>1
    <3>2. r[i] = f(r[i - 1], i)
      <4> HIDE DEF f
      <4> QED
        BY <1>8, <3>1
    <3> QED
      BY <1>3, <3>2
  <2>3. \A i \in 0 .. k : r[i] \in T[i]
    <3> HIDE DEF T, f
    <3> QED
      BY <1>1, <2>1, <2>2, PassedOn
  <2>4. k \in 0 .. k
    BY <1>1
  <2> QED
    BY <2>3, <2>4
<1>11. k \in 0 .. k
  BY <1>1
<1>12. T[k] = P
  <2> HIDE DEF k
  <2> QED
    BY <1>11
<1> QED
  <2> HIDE DEF k, T
  <2> QED
    BY <1>9, <1>10, <1>12

\* No step makes an object.
LEMMA StepShrinks ==
  ASSUME NEW s, CollectorInv(s), s.gcstate # "pause", NEW o \in Ids, Exists(singlestep(s, 0), o)
  PROVE  Exists(s, o)
<1>1. s.gcstate \in Phases /\ s \in States
  BY InvFacts, FieldsOf DEF CollectorInv
<1>2. CASE s.gcstate = "propagate"
  <2>1. PICK G : G = {}
    OBVIOUS
  <2>2. Forgotten(s, G)
    BY <2>1 DEF Forgotten
  <2>3. Aside(s, G) /\ Pale(s, G) /\ Graph(s) /\ GrayLists(s)
    BY <1>1, <1>2, <2>1, <2>2, InvFacts DEF Aside, Pale, CollectorInv, Marking, Marked
  <2>4. CASE s.gray # <<>>
    <3>1. Spares(s, propagatemark(s), G)
      BY <2>3, <2>4, propagatemarkSpares
    <3>2. singlestep(s, 0) = propagatemark(s)
      BY <1>2, <2>4 DEF singlestep
    <3> QED
      BY <3>1, <3>2 DEF Spares, SameGraph, Exists
  <2>5. CASE s.gray = <<>>
    <3>1. Alike(s, atomic(s))
      BY <1>2, <2>3, atomicSpares
    <3>2. singlestep(s, 0) = atomic(s)
      BY <1>2, <2>5 DEF singlestep
    <3> QED
      BY <3>1, <3>2 DEF Alike
  <2> QED
    BY <2>4, <2>5
<1>3. CASE s.gcstate \in {"sweepstring", "sweep", "finalize"}
  BY <1>3, SweepStepFades DEF Fades
<1> QED
  BY <1>1, <1>2, <1>3 DEF Phases

\* What was swept or abandoned before the cycle begins.
Sweepings(s) ==
  {x \in States : /\ CollectorInv(x) /\ x.gcstate \in {"sweepstring", "sweep", "finalize"}
                  /\ Fades(s, x)}

LEMMA FinalizeFades ==
  ASSUME NEW s, CollectorInv(s), s.gcstate \in {"sweepstring", "sweep", "finalize"}
  PROVE  Fades(s, StepsTo(s, "finalize"))
<1>1. s \in Sweepings(s)
  BY InvFacts, FadesIs DEF Sweepings, CollectorInv
<1>2. ASSUME NEW x \in Sweepings(s)
      PROVE  StepUnless(x, "finalize") \in Sweepings(s)
  <2>1. CASE x.gcstate = "finalize"
    BY <2>1 DEF StepUnless
  <2>2. CASE x.gcstate # "finalize"
    <3>1. PICK y : y = singlestep(x, 0)
      OBVIOUS
    <3>2. CollectorInv(x) /\ x.gcstate \in {"sweepstring", "sweep"} /\ Fades(s, x)
      BY <2>2 DEF Sweepings
    <3>3. CollectorInv(y) /\ y.gcstate \in {"sweep", "finalize"}
      BY <3>1, <3>2, singlestepKeeps
    <3>4. Fades(x, y)
      BY <3>1, <3>2, SweepStepFades
    <3>5. Fades(s, y) /\ y \in States
      BY <3>2, <3>3, <3>4, FadesIs, InvFacts DEF CollectorInv
    <3>6. StepUnless(x, "finalize") = y
      BY <2>2, <3>1 DEF StepUnless
    <3> QED
      BY <3>3, <3>5, <3>6 DEF Sweepings
  <2> QED
    BY <2>1, <2>2
<1>3. StepsTo(s, "finalize") \in Sweepings(s)
  BY <1>1, <1>2, SteppedIn
<1> QED
  BY <1>3 DEF Sweepings

\* The cycle of a full collection: G is doomed, and has no finalizer to run.
Collectings(s, G) ==
  {x \in States : /\ CollectorInv(x) /\ Doomed(x, G)
                  /\ x.gcstate = "propagate" => Quiet(x, G)
                  /\ \A o \in Ids : Exists(x, o) => Exists(s, o)}

LEMMA CollectingStep ==
  ASSUME NEW s, NEW G, NEW x, x \in Collectings(s, G), x.gcstate # "pause"
  PROVE  singlestep(x, 0) \in Collectings(s, G)
<1>1. PICK y : y = singlestep(x, 0)
  OBVIOUS
<1>2. CollectorInv(x) /\ Doomed(x, G) /\ (x.gcstate = "propagate" => Quiet(x, G))
  BY DEF Collectings
<1>3. x.gcstate \in Phases
  BY <1>2, InvFacts, FieldsOf DEF CollectorInv
<1>4. CollectorInv(y) /\ (y.gcstate = "propagate" => x.gcstate = "propagate")
  <2>1. 0 \in Places \cup {0}
    OBVIOUS
  <2> QED
    BY <1>1, <1>2, <1>3, <2>1, singlestepKeeps DEF Phases
<1>5. x.gcstate = "propagate" => \A o \in ToSet(atomic(x).tmudata) : o \notin G
  <2> SUFFICES ASSUME x.gcstate = "propagate", NEW o \in ToSet(atomic(x).tmudata), o \in G
               PROVE  FALSE
    OBVIOUS
  <2>1. Aside(x, G) /\ Pale(x, G)
    BY <1>2, DoomedFacts
  <2>2. o \in ToSet(x.tmudata) \/ (x.obj[o].gc /\ ~x.obj[o].final)
    BY <1>2, <2>1, atomicSpares
  <2>3. Exists(x, o) /\ o \notin ToSet(x.tmudata)
    BY <1>2 DEF Doomed, Forgotten
  <2> QED
    BY <1>2, <2>2, <2>3 DEF Quiet
<1>6. Doomed(y, G) /\ (y.gcstate = "propagate" => (Quiet(x, G) => Quiet(y, G)))
  BY <1>1, <1>2, <1>5, StepDoomed
<1>7. \A o \in Ids : Exists(y, o) => Exists(s, o)
  BY <1>1, <1>2, StepShrinks DEF Collectings
<1>8. y \in States
  BY <1>4, InvFacts DEF CollectorInv
<1>9. y.gcstate = "propagate" => Quiet(y, G)
  BY <1>2, <1>4, <1>6
<1> QED
  BY <1>1, <1>4, <1>6, <1>7, <1>8, <1>9 DEF Collectings

LEMMA PauseCollects ==
  ASSUME NEW s, NEW G, s \in Collectings(s, G)
  PROVE  StepsTo(s, "pause") \in Collectings(s, G)
<1>1. \A x \in Collectings(s, G) : StepUnless(x, "pause") \in Collectings(s, G)
  BY CollectingStep DEF StepUnless
<1> QED
  BY <1>1, SteppedIn

\* What a full collection has to free: nothing that it is reached from, and
\* no finalizer of its own.
LEMMA FullForgotten ==
  ASSUME NEW s, CollectorInv(s),
         NEW G, G = Unreachable(s) \ ReachedFrom(s, Finalizable(s))
  PROVE  Forgotten(s, G) /\ Quiet(s, G) /\ G \subseteq Ids
<1>1. PICK F : F = Finalizable(s)
  OBVIOUS
<1>2. PICK R : R = ReachedFrom(s, F)
  OBVIOUS
<1>3. G = Unreachable(s) \ R
  BY <1>1, <1>2
<1>4. Graph(s)
  BY InvFacts DEF CollectorInv
<1>5. /\ Main \in Reachable(s) /\ ToSet(s.tmudata) \subseteq Reachable(s) /\ Shut(s, Reachable(s))
      /\ Unreachable(s) \subseteq Ids
      /\ \A o \in Ids : o \in Unreachable(s) <=> Exists(s, o) /\ o \notin Reachable(s)
  BY <1>4, ReachableIs
<1>6. F \subseteq Ids /\ \A o \in Unreachable(s) : s.obj[o].gc /\ ~s.obj[o].final => o \in F
  BY <1>1, <1>5 DEF Finalizable
<1>7. F \subseteq R /\ Shut(s, R)
  BY <1>2, <1>4, <1>6, ReachedIs
<1>8. G \subseteq Ids /\ 0 \notin G
  BY <1>3, <1>5, Constants
<1>9. Quiet(s, G)
  BY <1>3, <1>6, <1>7 DEF Quiet
<1>10. \A x \in Ids : Exists(s, x) /\ x \notin G => \A p \in Strong(s, x) : p \notin G
  <2> SUFFICES ASSUME NEW x \in Ids, Exists(s, x), x \notin G, NEW p \in Strong(s, x), p \in G
               PROVE  FALSE
    OBVIOUS
  <2>1. p # 0 /\ p \in Ids
    BY <1>8
  <2>2. x \in Reachable(s) \/ x \in R
    BY <1>3, <1>5
  <2>3. p \in Reachable(s) \/ p \in R
    BY <2>1, <2>2, <1>5, <1>7 DEF Shut
  <2> QED
    BY <2>1, <2>3, <1>3, <1>5
<1>11. Main \notin G /\ \A o \in ToSet(s.tmudata) : o \notin G
  BY <1>3, <1>5, <1>8
<1> QED
  BY <1>8, <1>9, <1>10, <1>11 DEF Forgotten

\* Abandoning a cycle changes no object.
LEMMA AbandonedFades ==
  ASSUME NEW s, CollectorInv(s)
  PROVE  Fades(s, Abandoned(s))
<1>1. s \in States /\ OpenApart(s)
  BY InvFacts DEF CollectorInv
<1>2. PICK r : r = Abandoned(s)
  OBVIOUS
<1>3. r.obj = s.obj /\ r.stack = s.stack /\ r.currentwhite = s.currentwhite /\ r.tmudata = s.tmudata
  BY <1>1, <1>2 DEF Abandoned, States
<1>4. Fades(s, r)
  BY <1>1, <1>3, SameFades
<1> QED
  BY <1>2, <1>4

\* The cycle begins with what of G has not been freed yet.
LEMMA BegunCollects ==
  ASSUME NEW s, NEW G, CollectorInv(s), s.gcstate = "finalize", Forgotten(s, G), Quiet(s, G),
         G \subseteq Ids, NEW D, D = {o \in G : Exists(s, o)}
  PROVE  /\ markroot(s) \in Collectings(markroot(s), D)
         /\ \A o \in Ids : Exists(markroot(s), o) <=> Exists(s, o)
<1>1. PICK r : r = markroot(s)
  OBVIOUS
<1>2. s \in States /\ OpenApart(s)
  BY InvFacts DEF CollectorInv
<1>3. Forgotten(s, D)
  BY DEF Forgotten
<1>4. Aside(s, D)
  BY <1>2, <1>3 DEF Aside
<1>5. Alike(s, r) /\ (\A o \in D : SameIn(s, r, o)) /\ Pale(r, D)
  BY <1>1, <1>4, markrootSpares
<1>6. CollectorInv(r) /\ r.gcstate = "propagate" /\ r.tmudata = s.tmudata
  BY <1>1, markrootKeeps
<1>7. r \in States
  BY <1>6, InvFacts DEF CollectorInv
<1>8. Forgotten(r, D)
  <2>1. \A o \in ToSet(r.tmudata) : o \notin D
    BY <1>3, <1>6 DEF Forgotten
  <2> QED
    BY <1>3, <1>5, <2>1, AlikeIs
<1>9. \A o \in Ids : Exists(r, o) <=> Exists(s, o)
  BY <1>5 DEF Alike
<1>10. \A o \in D : Exists(r, o) /\ iswhite(r, o)
  BY <1>5, <1>9 DEF Pale
<1>11. Doomed(r, D)
  BY <1>6, <1>8, <1>10 DEF Doomed, Waits
<1>12. Quiet(r, D)
  BY <1>5 DEF Quiet, SameIn
<1> QED
  BY <1>1, <1>6, <1>7, <1>9, <1>11, <1>12 DEF Collectings

LEMMA FullGcLoses ==
  ASSUME GarbageInv, FullGc PROVE GarbageInv'
<1>0. GcInv
  BY DEF GarbageInv
<1>1. CollectorInv(g)
  BY <1>0 DEF GcInv
<1>2. PICK G : G = Unreachable(g) \ ReachedFrom(g, Finalizable(g))
  OBVIOUS
<1>3. Forgotten(g, G) /\ Quiet(g, G) /\ G \subseteq Ids /\ 0 \notin G
  BY <1>1, <1>2, FullForgotten, Constants
<1>4. PICK a : a = Abandoned(g)
  OBVIOUS
<1>5. CollectorInv(a) /\ a.gcstate \in {"sweepstring", "sweep", "finalize"} /\ Fades(g, a)
  BY <1>1, <1>4, AbandonedKeeps, AbandonedFades
<1>6. PICK b : b = StepsTo(a, "finalize")
  OBVIOUS
<1>7. CollectorInv(b) /\ b.gcstate = "finalize"
  BY <1>5, <1>6, SteppedToFinalize
<1>8. Fades(g, b)
  BY <1>5, <1>6, FinalizeFades, FadesIs
<1>9. Forgotten(b, G) /\ Quiet(b, G)
  BY <1>3, <1>8, FadesIs DEF Quiet, Fades
<1>10. PICK D : D = {o \in G : Exists(b, o)}
  OBVIOUS
<1>11. PICK c : c = markroot(b)
  OBVIOUS
<1>12. c \in Collectings(c, D) /\ \A o \in Ids : Exists(c, o) <=> Exists(b, o)
  BY <1>3, <1>7, <1>9, <1>10, <1>11, BegunCollects
<1>13. PICK r : r = StepsTo(c, "pause")
  OBVIOUS
<1>14. r \in Collectings(c, D)
  BY <1>12, <1>13, PauseCollects
<1>15. CollectorInv(r) /\ Doomed(r, D) /\ \A o \in Ids : Exists(r, o) => Exists(c, o)
  BY <1>14 DEF Collectings
<1>16. luaC_fullgc(g) = r
  BY <1>4, <1>6, <1>11, <1>13 DEF luaC_fullgc
<1>17. Lost(r, D \cap Unreachable(r))
  BY <1>15, LostIs
<1>18. D \cap Unreachable(r) = G \cap Unreachable(r)
  <2>1. \A o \in Ids : o \in Unreachable(r) => Exists(r, o)
    BY <1>15, InvFacts, ReachableIs DEF CollectorInv
  <2> QED
    BY <2>1, <1>3, <1>10, <1>12, <1>15
<1>19. g' = r /\ garbage' = G \cap Unreachable(r)
  BY <1>2, <1>16 DEF FullGc
<1>20. Lost(g', garbage')
  BY <1>17, <1>18, <1>19
<1>21. GcInv'
  BY <1>0, NextInv DEF GcNext
<1> QED
  BY <1>20, <1>21 DEF GarbageInv

-----------------------------------------------------------------------------
(* Every step.                                                             *)

LEMMA GarbageBegins == GcInit => GarbageInv
<1> SUFFICES ASSUME GcInit PROVE GarbageInv
  OBVIOUS
<1>1. GcInv
  BY InitInv
<1>2. garbage = {}
  BY DEF GcInit
<1>3. Lost(g, {})
  BY DEF Lost, Forgotten
<1> QED
  BY <1>1, <1>2, <1>3 DEF GarbageInv

LEMMA GarbageStays == GarbageInv /\ [GcNext]_gvars => GarbageInv'
<1> SUFFICES ASSUME GarbageInv, [GcNext]_gvars PROVE GarbageInv'
  OBVIOUS
<1>1. CASE Operation
  BY <1>1, OperationLoses
<1>2. CASE SingleStep
  BY <1>2, SingleStepLoses
<1>3. CASE FullGc
  BY <1>3, FullGcLoses
<1>4. CASE UNCHANGED gvars
  BY <1>4 DEF gvars, GarbageInv, GcInv
<1> QED
  BY <1>1, <1>2, <1>3, <1>4 DEF GcNext

\* Between two cycles nothing waits.
LEMMA NothingWaits == GarbageInv => GarbageIsFreed
<1> SUFFICES ASSUME GarbageInv, g.gcstate = "pause", NEW o \in garbage PROVE FALSE
  BY DEF GarbageIsFreed
<1>1. CollectorInv(g) /\ Lost(g, garbage)
  BY DEF GarbageInv, GcInv
<1>2. isdead(g, o)
  BY <1>1 DEF Lost, Waits
<1>3. o \in Ids /\ Exists(g, o)
  <2>1. o \in Unreachable(g) /\ Graph(g)
    BY <1>1, InvFacts DEF Lost, CollectorInv
  <2> QED
    BY <2>1, ReachableIs
<1> QED
  BY <1>1, <1>2, <1>3, NothingToSweep DEF NoneDead

(* What was unreachable when a cycle began, or a full collection, and has  *)
(* stayed so, is referred to by nothing else and waits to be freed: it is  *)
(* white while objects are marked and dead while they are swept            *)
(* (propagatemark, atomic, sweeplist and the barriers).                    *)
THEOREM GarbageWaits == GcSpec => []GarbageInv
<1>1. GcInit => GarbageInv
  BY GarbageBegins
<1>2. GarbageInv /\ [GcNext]_gvars => GarbageInv'
  BY GarbageStays
<1> QED
  BY <1>1, <1>2, PTL DEF GcSpec

(* A cycle frees what was unreachable when it began and stayed so, and a   *)
(* full collection all that no finalizer is due for, whatever the program  *)
(* does in between (singlestep, luaC_fullgc).                              *)
THEOREM GarbageFreed == GcSpec => []GarbageIsFreed
<1>1. GarbageInv => GarbageIsFreed
  BY NothingWaits
<1> QED
  BY <1>1, GarbageWaits, PTL

=============================================================================
