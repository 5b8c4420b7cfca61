---------------------------- MODULE TableProofs ----------------------------
(***************************************************************************)
(* What modules TabLib and Table promise.  TabLib, for all lists,          *)
(* positions and answers of a comparison: sort rearranges and, with an     *)
(* order, sorts; insert, remove and concat keep the rest of a list.        *)
(* Table, for all keys, hash values and values: the table answers as the   *)
(* function that has been stored in it.                                    *)
(***************************************************************************)
EXTENDS TabLib, Table, FiniteSetTheorems, FunctionTheorems, SequenceTheorems,
        NaturalsInduction, WellFoundedInduction, TLAPS

-----------------------------------------------------------------------------
(* Sorting                                                                 *)

Cells == 0 .. TableCells
Fields == {"call", "pc", "a", "l", "u", "i", "j", "pivot", "todo", "out"}
Sorting == tl.pc \notin {"idle", "called"} /\ tl.call.fn = "sort"
\* A call of auxsort has the part from l to u.
Active == tl.pc \in {"while", "return", "low", "high", "up", "down"}
PartEnds == (1 .. Size + 2) \X (0 .. Size)

\* NothingLost, of the cells a.
Whole(a) ==
  /\ a \in [Cells -> Int] /\ Elements(a) = Elements(CellsOf(tl.call.list))
  /\ \A k \in Size + 2 .. TableCells : a[k] = NONE
\* Whatever the comparisons answer.
Bounds ==
  /\ tl.pc \in {"while", "return", "low", "high", "up", "down", "done", "failed"}
  /\ tl.l \in 1 .. Size + 2 /\ tl.u \in 0 .. Size
  /\ tl.todo \in Seq(PartEnds)
  /\ tl.pc \in {"low", "high"} => tl.l + 2 <= tl.u
  /\ tl.pc \in {"up", "down"} => tl.l + 3 <= tl.u /\ tl.j \in tl.l .. tl.u - 1
  /\ tl.pc = "up" => tl.i \in tl.l .. tl.u
  /\ tl.pc = "down" => tl.i \in tl.l + 1 .. tl.u + 1

\* With an order: the parts still to be sorted, the one at work last.
Parts == IF Active THEN Append(tl.todo, <<tl.l, tl.u>>) ELSE tl.todo
Within(x, part) == part[1] <= x /\ x <= part[2]
Apart ==
  \A m, n \in DOMAIN Parts : \A x \in 1 .. Size :
    Within(x, Parts[m]) /\ Within(x, Parts[n]) => m = n
\* Two elements that are not in order are in one of them.
Ranked(a) ==
  \A x, y \in 1 .. Size :
    x < y => \/ a[x] <= a[y]
             \/ \E m \in DOMAIN Parts : Within(x, Parts[m]) /\ Within(y, Parts[m])
Filled(a) == \A x \in Cells : a[x] # NONE <=> x \in 1 .. Size
\* How far the part at work is sorted.
Worked ==
  /\ tl.pc = "return" => \A x, y \in tl.l .. tl.u : x < y => tl.a[x] <= tl.a[y]
  /\ tl.pc \in {"low", "high"} => tl.a[tl.l] <= tl.a[tl.u]
  /\ tl.pc = "high" => tl.a[tl.l] <= tl.a[Middle]
  /\ tl.pc \in {"up", "down"} =>
       /\ tl.a[tl.u - 1] = tl.pivot
       /\ \A x \in tl.l .. tl.i - 1 : tl.a[x] <= tl.pivot
       /\ \A x \in tl.j .. tl.u : tl.pivot <= tl.a[x]
       /\ tl.j > tl.l
  /\ tl.pc = "up" => tl.a[tl.i] <= tl.pivot /\ tl.i <= tl.u - 2 /\ tl.i <= tl.j
  /\ tl.pc = "down" => tl.pivot <= tl.a[tl.i] /\ tl.i <= tl.u - 1 /\ tl.i <= tl.j + 1
Halving ==
  /\ \A m \in DOMAIN tl.todo : 2 ^ (m - 1) * (tl.todo[m][2] - tl.todo[m][1] + 1) <= Size
  /\ tl.todo # <<>> => 2 ^ Len(tl.todo) <= Size
  /\ Active => 2 ^ Len(tl.todo) * (tl.u - tl.l + 1) <= Size
InOrder ==
  /\ tl.pc # "failed" /\ (tl.pc = "done" => tl.todo = <<>>)
  /\ Filled(tl.a) /\ Apart /\ Ranked(tl.a) /\ Worked /\ Halving

TabInv ==
  /\ tl.pc = "idle" => tl.call.fn = "none"
  /\ tl.pc # "idle" => /\ DOMAIN tl = Fields /\ tl.call \in TabCalls
                       /\ Active => tl.call.fn = "sort"
  /\ tl.pc = "called" => tl.a = CellsOf(tl.call.list) /\ tl.todo = <<>>
  /\ Sorting => /\ Bounds /\ Whole(tl.a)
                /\ tl.call.order = "less" => InOrder

-----------------------------------------------------------------------------
(* Exchanging two cells                                                    *)

LEMMA TabConstants ==
  /\ TableCells \in Nat
  /\ \A c \in TabCalls :
       /\ c.list \in Seq(Int) /\ Len(c.list) \in Nat /\ Len(c.list) < TableCells
       /\ DOMAIN c.list = 1 .. Len(c.list)
       /\ CellsOf(c.list) \in [Cells -> Int]
       /\ \A k \in Cells : CellsOf(c.list)[k] = IF k \in 1 .. Len(c.list) THEN c.list[k] ELSE NONE
<1>1. TableCells \in Nat
  BY TabAssumption
<1>2. ASSUME NEW c \in TabCalls
      PROVE  /\ c.list \in Seq(Int) /\ Len(c.list) \in Nat /\ Len(c.list) < TableCells
             /\ DOMAIN c.list = 1 .. Len(c.list)
             /\ CellsOf(c.list) \in [Cells -> Int]
             /\ \A k \in Cells : CellsOf(c.list)[k]
                                   = IF k \in 1 .. Len(c.list) THEN c.list[k] ELSE NONE
  <2>1. c.list \in Seq(Int) /\ Len(c.list) < TableCells
    BY TabAssumption
  <2>2. Len(c.list) \in Nat /\ DOMAIN c.list = 1 .. Len(c.list)
        /\ \A k \in 1 .. Len(c.list) : c.list[k] \in Int
    BY <2>1, LenProperties, ElementOfSeq
  <2> QED
    BY <2>1, <2>2 DEF CellsOf, Cells, NONE
<1> QED
  BY <1>1, <1>2

LEMMA SwapIs ==
  ASSUME NEW a \in [Cells -> Int], NEW x \in Cells, NEW y \in Cells
  PROVE  /\ set2(a, x, y) \in [Cells -> Int]
         /\ \A k \in Cells : set2(a, x, y)[k] = IF k = y THEN a[x] ELSE IF k = x THEN a[y] ELSE a[k]
BY DEF set2

LEMMA SwapKeeps ==
  ASSUME NEW a \in [Cells -> Int], NEW x \in Cells, NEW y \in Cells
  PROVE  Elements(set2(a, x, y)) = Elements(a)
<1> DEFINE b == set2(a, x, y)
           other(k) == IF k = y THEN x ELSE IF k = x THEN y ELSE k
<1>1. b \in [Cells -> Int] /\ \A k \in Cells : other(k) \in Cells /\ b[k] = a[other(k)]
  BY SwapIs
<1>2. \A k \in Cells : other(other(k)) = k
  OBVIOUS
<1>3. \A j, k \in Cells : other(j) = other(k) => j = k
  OBVIOUS
<1>4. \A k \in Cells : a[k] = b[other(k)]
  BY <1>1, <1>2
<1> HIDE DEF b
<1>5. {b[k] : k \in DOMAIN b} = {a[k] : k \in DOMAIN a}
  BY <1>1, <1>4
<1>6. ASSUME NEW v
      PROVE  Cardinality({k \in DOMAIN b : b[k] = v}) = Cardinality({k \in DOMAIN a : a[k] = v})
  <2> DEFINE A == {k \in DOMAIN a : a[k] = v}
             B == {k \in DOMAIN b : b[k] = v}
             f == [k \in B |-> other(k)]
  <2>1. A \subseteq Cells /\ B \subseteq Cells
    BY <1>1
  <2>2. IsFiniteSet(Cells)
    BY TabConstants, FS_Interval DEF Cells
  <2>3. IsFiniteSet(B)
    BY <2>1, <2>2, FS_Subset
  <2>4. f \in [B -> A]
    BY <1>1
  <2>5. \A j, k \in B : f[j] = f[k] => j = k
    BY <2>1, <1>3
  <2>6. \A j \in A : \E k \in B : f[k] = j
    <3> SUFFICES ASSUME NEW j \in A PROVE other(j) \in B /\ f[other(j)] = j
      OBVIOUS
    <3>1. j \in Cells /\ a[j] = v
      BY <2>1
    <3>2. other(j) \in B
      BY <1>1, <1>4, <3>1
    <3> QED
      BY <3>1, <3>2, <1>2
  <2> HIDE DEF A, B, f
  <2>7. f \in Bijection(B, A)
    BY <2>4, <2>5, <2>6, Fun_IsBij
  <2>8. Cardinality(A) = Cardinality(B)
    BY <2>3, <2>7, FS_Bijection DEF ExistsBijection
  <2> QED
    BY <2>8 DEF A, B
<1>7. Elements(b) = Elements(a)
  BY <1>5, <1>6 DEF Elements
<1> QED
  BY <1>7 DEF b

LEMMA PowerDoubles == \A n \in Nat : 2 ^ n \in Nat \ {0} /\ 2 ^ (n + 1) = 2 * 2 ^ n
<1> SUFFICES ASSUME NEW n \in Nat PROVE 2 ^ n \in Nat \ {0} /\ 2 ^ (n + 1) = 2 * 2 ^ n
  OBVIOUS
<1> DEFINE S == SUBSET (1 .. n)
           T == SUBSET (1 .. n + 1)
           U == {X \cup {n + 1} : X \in S}
           f == [X \in S |-> X \cup {n + 1}]
<1>1. /\ IsFiniteSet(S) /\ Cardinality(S) = 2 ^ n
      /\ IsFiniteSet(T) /\ Cardinality(T) = 2 ^ (n + 1)
  <2>1. IsFiniteSet(1 .. n) /\ Cardinality(1 .. n) = n
        /\ IsFiniteSet(1 .. n + 1) /\ Cardinality(1 .. n + 1) = n + 1
    BY FS_Interval
  <2> QED
    BY <2>1, FS_SUBSET
<1>2. T = S \cup U
  <2>1. ASSUME NEW X \in T PROVE X \in S \cup U
    <3>1. CASE n + 1 \notin X
      BY <3>1
    <3>2. CASE n + 1 \in X
      <4>1. X \ {n + 1} \in S
        OBVIOUS
      <4>2. X = (X \ {n + 1}) \cup {n + 1}
        BY <3>2
      <4> QED
        BY <4>1, <4>2
    <3> QED
      BY <3>1, <3>2
  <2>2. S \cup U \subseteq T
    <3>1. n + 1 \in 1 .. n + 1 /\ 1 .. n \subseteq 1 .. n + 1
      OBVIOUS
    <3>2. S \subseteq T
      BY <3>1
    <3>3. ASSUME NEW X \in U PROVE X \in T
      BY <3>1
    <3> QED
      BY <3>2, <3>3
  <2> QED
    BY <2>1, <2>2
<1>3. S \cap U = {}
  <2>1. \A X \in S : n + 1 \notin X
    OBVIOUS
  <2>2. \A X \in U : n + 1 \in X
    OBVIOUS
  <2> QED
    BY <2>1, <2>2
<1>4. f \in Bijection(S, U)
  <2>1. f \in [S -> U] /\ \A X \in U : \E Y \in S : f[Y] = X
    OBVIOUS
  <2>2. \A X, Y \in S : f[X] = f[Y] => X = Y
    <3> SUFFICES ASSUME NEW X \in S, NEW Y \in S, X \cup {n + 1} = Y \cup {n + 1} PROVE X = Y
      OBVIOUS
    <3>1. n + 1 \notin X /\ n + 1 \notin Y
      OBVIOUS
    <3> QED
      BY <3>1
  <2> QED
    BY <2>1, <2>2, Fun_IsBij
<1> HIDE DEF S, T, U, f
<1>5. IsFiniteSet(U) /\ Cardinality(U) = Cardinality(S)
  BY <1>1, <1>4, FS_Bijection DEF ExistsBijection
<1>6. Cardinality(S \cup U) = Cardinality(S) + Cardinality(U) - Cardinality(S \cap U)
  BY <1>1, <1>5, FS_Union
<1>7. Cardinality(S) \in Nat /\ Cardinality({}) = 0
  BY <1>1, FS_CardinalityType, FS_EmptySet
<1>8. 2 ^ (n + 1) = 2 * 2 ^ n
  <2>1. Cardinality(T) = 2 * Cardinality(S)
    <3>1. Cardinality(S \cap U) = 0
      BY <1>3, <1>7
    <3>2. Cardinality(T) = Cardinality(S) + Cardinality(U) - Cardinality(S \cap U)
      BY <1>2, <1>6
    <3> QED
      BY <3>1, <3>2, <1>5, <1>7
  <2>2. PICK p : p = 2 ^ n
    OBVIOUS
  <2>3. PICK q : q = 2 ^ (n + 1)
    OBVIOUS
  <2>4. q = 2 * p
    BY <1>1, <2>1, <2>2, <2>3
  <2> QED
    BY <2>2, <2>3, <2>4
<1>9. Cardinality(S) # 0
  <2>1. {} \in S
    BY DEF S
  <2> QED
    BY <1>1, <2>1, FS_EmptySet
<1> QED
  BY <1>1, <1>7, <1>8, <1>9

LEMMA PowerZero == 2 ^ 0 = 1
<1>1. IsFiniteSet({}) /\ Cardinality({}) = 0
  BY FS_EmptySet
<1>2. Cardinality(SUBSET {}) = 2 ^ 0
  BY <1>1, FS_SUBSET
<1>3. SUBSET {} = {{}}
  OBVIOUS
<1>4. Cardinality({{}}) = 1
  BY FS_Singleton
<1> QED
  BY <1>2, <1>3, <1>4

-----------------------------------------------------------------------------
(* The steps of sort, whatever the comparisons answer                      *)

LEMMA SortFacts ==
  ASSUME TabInv, Active
  PROVE  /\ Sorting /\ DOMAIN tl = Fields /\ tl.call \in TabCalls /\ tl.call.fn = "sort"
         /\ Size \in Nat /\ Size < TableCells /\ TableCells \in Nat
         /\ 0 .. Size + 1 \subseteq Cells
         /\ Bounds /\ Whole(tl.a)
         /\ tl.l \in Nat /\ tl.u \in Nat /\ tl.l >= 1 /\ tl.u <= Size
         /\ tl.call.order = "less" => InOrder
<1>1. Sorting /\ DOMAIN tl = Fields /\ tl.call \in TabCalls /\ tl.call.fn = "sort"
  BY DEF TabInv, Active, Sorting
<1>2. Bounds /\ Whole(tl.a) /\ (tl.call.order = "less" => InOrder)
  BY <1>1 DEF TabInv
<1>3. Size \in Nat /\ Size < TableCells /\ TableCells \in Nat
  BY <1>1, TabConstants DEF Size
<1>4. 0 .. Size + 1 \subseteq Cells
  BY <1>3 DEF Cells
<1> HIDE DEF Size
<1>5. tl.l \in Nat /\ tl.u \in Nat /\ tl.l >= 1 /\ tl.u <= Size
  BY <1>2, <1>3 DEF Bounds
<1> QED
  BY <1>1, <1>2, <1>3, <1>4, <1>5

LEMMA SwapWhole ==
  ASSUME TabInv, Active, NEW a, Whole(a), NEW x \in 0 .. Size + 1, NEW y \in 0 .. Size + 1
  PROVE  Whole(set2(a, x, y))
<1>1. Size \in Nat /\ x \in Cells /\ y \in Cells /\ TableCells \in Nat
  BY SortFacts
<1>2. a \in [Cells -> Int] /\ Elements(a) = Elements(CellsOf(tl.call.list))
      /\ \A k \in Size + 2 .. TableCells : a[k] = NONE
  BY DEF Whole
<1>3. set2(a, x, y) \in [Cells -> Int] /\ Elements(set2(a, x, y)) = Elements(a)
  BY <1>1, <1>2, SwapIs, SwapKeeps
<1>4. ASSUME NEW k \in Size + 2 .. TableCells PROVE set2(a, x, y)[k] = NONE
  <2>1. k \in Cells /\ k # x /\ k # y
    BY <1>1 DEF Cells
  <2> QED
    BY <2>1, <1>1, <1>2, SwapIs
<1> QED
  BY <1>2, <1>3, <1>4 DEF Whole

\* A step of sort keeps the call; its fields have to fit.
LEMMA SortGoesOn ==
  ASSUME TabInv, Active, DOMAIN tl' = Fields, tl'.call = tl.call, Whole(tl'.a), Bounds',
         tl.call.order = "less" => InOrder'
  PROVE  TabInv'
<1>1. DOMAIN tl = Fields /\ tl.call \in TabCalls /\ tl.call.fn = "sort"
  BY SortFacts
<1>2. tl'.pc \notin {"idle", "called"}
  BY DEF Bounds
<1>3. Whole(tl.a)'
  BY DEF Whole, Size
<1> QED
  BY <1>1, <1>2, <1>3 DEF TabInv, Active, Sorting

\* What a comparison does: one of the two, or the call fails.
LEMMA AnswerIs ==
  ASSUME NEW x, NEW y, NEW yes, NEW no, Asked(x, y, yes, no)
  PROVE  /\ \/ tl' = yes /\ (tl.call.order # "any" => x < y)
            \/ tl' = no /\ (tl.call.order # "any" => ~(x < y))
            \/ tl' = [tl EXCEPT !.pc = "failed"]
               /\ (tl.call.order # "any" => x = NONE \/ y = NONE)
<1>1. PICK r \in sort_comp(x, y) :
        tl' = CASE r = "true" -> yes [] r = "false" -> no
                [] r = "error" -> [tl EXCEPT !.pc = "failed"]
  BY DEF Asked
<1>2. r \in {"true", "false", "error"}
  BY <1>1 DEF sort_comp
<1>3. CASE r = "true"
  <2>1. tl' = yes
    BY <1>1, <1>3
  <2>2. tl.call.order # "any" => x < y
    BY <1>3 DEF sort_comp
  <2> QED
    BY <2>1, <2>2
<1>4. CASE r = "false"
  <2>1. tl' = no
    BY <1>1, <1>4
  <2>2. tl.call.order # "any" => ~(x < y)
    BY <1>4 DEF sort_comp
  <2> QED
    BY <2>1, <2>2
<1>5. CASE r = "error"
  <2>1. tl' = [tl EXCEPT !.pc = "failed"]
    BY <1>1, <1>5
  <2>2. tl.call.order # "any" => x = NONE \/ y = NONE
    BY <1>5 DEF sort_comp
  <2> QED
    BY <2>1, <2>2
<1> QED
  BY <1>2, <1>3, <1>4, <1>5

LEMMA FailedBounds ==
  ASSUME TabInv, Active, tl' = [tl EXCEPT !.pc = "failed"]
  PROVE  DOMAIN tl' = Fields /\ tl'.call = tl.call /\ Whole(tl'.a) /\ Bounds'
<1>1. /\ DOMAIN tl' = Fields /\ tl'.call = tl.call /\ tl'.a = tl.a /\ tl'.l = tl.l
      /\ tl'.u = tl.u /\ tl'.todo = tl.todo /\ tl'.pc = "failed"
  BY SortFacts DEF Fields
<1> QED
  BY <1>1, SortFacts DEF Bounds, Size, PartEnds

-----------------------------------------------------------------------------
(* The steps of sort with an order                                         *)

LEMMA PartsAre ==
  ASSUME TabInv, Active
  PROVE  /\ Parts \in Seq(PartEnds) /\ tl.todo \in Seq(PartEnds) /\ Len(tl.todo) \in Nat
         /\ Len(Parts) = Len(tl.todo) + 1 /\ DOMAIN Parts = 1 .. Len(tl.todo) + 1
         /\ Parts[Len(tl.todo) + 1] = <<tl.l, tl.u>>
         /\ \A m \in 1 .. Len(tl.todo) : Parts[m] = tl.todo[m]
<1>1. tl.todo \in Seq(PartEnds) /\ <<tl.l, tl.u>> \in PartEnds
  BY SortFacts DEF Bounds, PartEnds
<1> HIDE DEF PartEnds
<1>2. Parts = Append(tl.todo, <<tl.l, tl.u>>)
  BY DEF Parts
<1>3. Len(tl.todo) \in Nat
  BY <1>1, LenProperties
<1>4. /\ Parts \in Seq(PartEnds) /\ Len(Parts) = Len(tl.todo) + 1
      /\ Parts[Len(tl.todo) + 1] = <<tl.l, tl.u>>
      /\ \A m \in 1 .. Len(tl.todo) : Parts[m] = tl.todo[m]
  BY <1>1, <1>2, AppendProperties
<1> QED
  BY <1>1, <1>3, <1>4, LenProperties

\* An element of the part at work is in order with every other one.
LEMMA PartBetween ==
  ASSUME TabInv, Active, Apart, NEW a, Ranked(a),
         NEW x \in 1 .. Size, NEW y \in 1 .. Size, x < y,
         Within(x, <<tl.l, tl.u>>) <=> ~Within(y, <<tl.l, tl.u>>)
  PROVE  a[x] <= a[y]
<1> DEFINE c == Len(tl.todo) + 1
<1>1. c \in DOMAIN Parts /\ Parts[c] = <<tl.l, tl.u>>
  BY PartsAre
<1> HIDE DEF c
<1>2. ASSUME NEW m \in DOMAIN Parts, Within(x, Parts[m]), Within(y, Parts[m]) PROVE FALSE
  <2>1. m = c
    BY <1>1, <1>2 DEF Apart
  <2> QED
    BY <1>1, <1>2, <2>1
<1> QED
  BY <1>2 DEF Ranked

LEMMA SwapRanked ==
  ASSUME TabInv, Active, Apart, NEW a, Whole(a), Ranked(a), Filled(a),
         NEW p \in tl.l .. tl.u, NEW q \in tl.l .. tl.u
  PROVE  Ranked(set2(a, p, q)) /\ Filled(set2(a, p, q))
<1> DEFINE b == set2(a, p, q)
<1>1. /\ Size \in Nat /\ tl.l \in Nat /\ tl.u \in Nat /\ tl.l >= 1 /\ tl.u <= Size
      /\ 0 .. Size + 1 \subseteq Cells
  BY SortFacts
<1>2. p \in 1 .. Size /\ q \in 1 .. Size /\ p \in Cells /\ q \in Cells
  BY <1>1
<1>3. a \in [Cells -> Int]
  BY DEF Whole
<1>4. \A k \in Cells : b[k] = IF k = q THEN a[p] ELSE IF k = p THEN a[q] ELSE a[k]
  BY <1>2, <1>3, SwapIs
<1> HIDE DEF b
<1>5. Filled(b)
  BY <1>2, <1>4 DEF Filled
<1>6. ASSUME NEW x \in 1 .. Size, NEW y \in 1 .. Size, x < y
      PROVE  \/ b[x] <= b[y]
             \/ \E m \in DOMAIN Parts : Within(x, Parts[m]) /\ Within(y, Parts[m])
  <2>1. x \in Cells /\ y \in Cells
    BY <1>1
  <2>2. CASE Within(x, <<tl.l, tl.u>>) /\ Within(y, <<tl.l, tl.u>>)
    <3>1. PICK m : m \in DOMAIN Parts /\ Parts[m] = <<tl.l, tl.u>>
      <4>1. Len(tl.todo) + 1 \in DOMAIN Parts /\ Parts[Len(tl.todo) + 1] = <<tl.l, tl.u>>
        BY PartsAre
      <4> QED
        BY <4>1
    <3> QED
      BY <2>2, <3>1
  <2>3. CASE Within(x, <<tl.l, tl.u>>) /\ ~Within(y, <<tl.l, tl.u>>)
    <3>1. y > tl.u /\ tl.l <= x /\ x <= tl.u
      BY <1>1, <2>3, <1>6 DEF Within
    <3>2. \A z \in tl.l .. tl.u : a[z] <= a[y]
      <4> SUFFICES ASSUME NEW z \in tl.l .. tl.u PROVE a[z] <= a[y]
        OBVIOUS
      <4>1. z \in 1 .. Size /\ z < y /\ Within(z, <<tl.l, tl.u>>)
        BY <1>1, <3>1 DEF Within
      <4> QED
        BY <4>1, <2>3, PartBetween
    <3>3. b[y] = a[y]
      BY <1>1, <1>4, <2>1, <3>1
    <3>4. \E z \in tl.l .. tl.u : b[x] = a[z]
      BY <1>1, <1>4, <2>1, <3>1
    <3> QED
      BY <3>2, <3>3, <3>4
  <2>4. CASE ~Within(x, <<tl.l, tl.u>>) /\ Within(y, <<tl.l, tl.u>>)
    <3>1. x < tl.l /\ tl.l <= y /\ y <= tl.u
      BY <1>1, <2>4, <1>6 DEF Within
    <3>2. \A z \in tl.l .. tl.u : a[x] <= a[z]
      <4> SUFFICES ASSUME NEW z \in tl.l .. tl.u PROVE a[x] <= a[z]
        OBVIOUS
      <4>1. z \in 1 .. Size /\ x < z /\ Within(z, <<tl.l, tl.u>>)
        BY <1>1, <3>1 DEF Within
      <4> QED
        BY <4>1, <2>4, PartBetween
    <3>3. b[x] = a[x]
      BY <1>1, <1>4, <2>1, <3>1
    <3>4. \E z \in tl.l .. tl.u : b[y] = a[z]
      BY <1>1, <1>4, <2>1, <3>1
    <3> QED
      BY <3>2, <3>3, <3>4
  <2>5. CASE ~Within(x, <<tl.l, tl.u>>) /\ ~Within(y, <<tl.l, tl.u>>)
    <3>1. x \notin {p, q} /\ y \notin {p, q}
      BY <1>1, <2>5 DEF Within
    <3>2. b[x] = a[x] /\ b[y] = a[y]
      BY <1>4, <2>1, <3>1
    <3> QED
      BY <3>2, <1>6 DEF Ranked
  <2> QED
    BY <2>2, <2>3, <2>4, <2>5
<1>7. Ranked(b)
  BY <1>6 DEF Ranked
<1> QED
  BY <1>5, <1>7 DEF b

\* A step that keeps the part at work.
LEMMA PartGoesOn ==
  ASSUME TabInv, Active, InOrder, tl'.call = tl.call, tl'.todo = tl.todo, tl'.l = tl.l, tl'.u = tl.u,
         tl'.pc \in {"while", "return", "low", "high", "up", "down"},
         Ranked(tl'.a), Filled(tl'.a), Worked'
  PROVE  InOrder'
<1>1. Active'
  BY DEF Active
<1>2. Parts' = Parts /\ Size' = Size
  BY <1>1 DEF Parts, Size
<1>3. Ranked(tl.a)' /\ Filled(tl.a)' /\ Apart'
  BY <1>2 DEF Ranked, Filled, Apart, InOrder
<1>4. Halving'
  BY <1>1, <1>2 DEF Halving, InOrder
<1> QED
  BY <1>3, <1>4 DEF InOrder

\* A comparison of two elements of the list does not fail.
LEMMA NoError ==
  ASSUME TabInv, Active, NEW x \in 1 .. Size, NEW y \in 1 .. Size, InOrder
  PROVE  tl.a[x] # NONE /\ tl.a[y] # NONE
BY SortFacts DEF InOrder, Filled

LEMMA EndsKeep ==
  ASSUME TabInv, EndsCompared
  PROVE  TabInv'
<1>0. Active /\ tl.pc = "while" /\ tl.l < tl.u
  BY DEF EndsCompared, Active
<1>1. /\ Size \in Nat /\ tl.l \in 1 .. Size /\ tl.u \in 1 .. Size
      /\ DOMAIN tl = Fields /\ Bounds /\ Whole(tl.a) /\ (tl.call.order = "less" => InOrder)
      /\ 0 .. Size + 1 \subseteq Cells
  BY <1>0, SortFacts
<1>2. PICK l, u, a : l = tl.l /\ u = tl.u /\ a = tl.a
  OBVIOUS
<1> DEFINE pc == IF u - l = 1 THEN "return" ELSE "low"
<1>3. PICK b : b = set2(a, l, u)
  OBVIOUS
<1>4. \/ tl' = [tl EXCEPT !.pc = pc, !.a = b] /\ (tl.call.order # "any" => a[u] < a[l])
      \/ tl' = [tl EXCEPT !.pc = pc] /\ (tl.call.order # "any" => ~(a[u] < a[l]))
      \/ tl' = [tl EXCEPT !.pc = "failed"] /\ (tl.call.order # "any" => a[u] = NONE \/ a[l] = NONE)
  <2> DEFINE to == [tl EXCEPT !.pc = IF tl.u - tl.l = 1 THEN "return" ELSE "low"]
  <2>1. Asked(tl.a[tl.u], tl.a[tl.l], [to EXCEPT !.a = set2(@, tl.l, tl.u)], to)
    BY DEF EndsCompared
  <2>2. to = [tl EXCEPT !.pc = pc] /\ [to EXCEPT !.a = set2(@, tl.l, tl.u)] = [tl EXCEPT !.pc = pc, !.a = b]
    BY <1>1, <1>2, <1>3 DEF Fields
  <2> HIDE DEF to, pc
  <2> QED
    BY <2>1, <2>2, <1>2, AnswerIs
<1>5. CASE tl' = [tl EXCEPT !.pc = "failed"] /\ (tl.call.order # "any" => a[u] = NONE \/ a[l] = NONE)
  <2>1. tl.call.order # "less"
    BY <1>0, <1>1, <1>2, <1>5, NoError
  <2>2. DOMAIN tl' = Fields /\ tl'.call = tl.call /\ Whole(tl'.a) /\ Bounds'
    BY <1>0, <1>5, FailedBounds
  <2> QED
    BY <1>0, <2>1, <2>2, SortGoesOn
<1>6. ASSUME NEW w, Whole(w), tl' = [tl EXCEPT !.pc = pc, !.a = w],
             tl.call.order = "less" => w[l] <= w[u] /\ Ranked(w) /\ Filled(w)
      PROVE  TabInv'
  <2>1. /\ DOMAIN tl' = Fields /\ tl'.call = tl.call /\ tl'.a = w /\ tl'.l = l /\ tl'.u = u
        /\ tl'.todo = tl.todo /\ tl'.pc = pc
    BY <1>1, <1>2, <1>6 DEF Fields
  <2>2. Size' = Size /\ PartEnds' = PartEnds
    BY <2>1 DEF Size, PartEnds
  <2>3. Bounds'
    BY <1>0, <1>1, <1>2, <2>1, <2>2 DEF Bounds
  <2>4. ASSUME tl.call.order = "less" PROVE InOrder'
    <3>1. Worked'
      <4>1. pc = "return" => \A x, y \in l .. u : x < y => w[x] <= w[y]
        <5> SUFFICES ASSUME u - l = 1, NEW x \in l .. u, NEW y \in l .. u, x < y PROVE w[x] <= w[y]
          OBVIOUS
        <5>1. x = l /\ y = u
          BY <1>1, <1>2
        <5> QED
          BY <5>1, <2>4, <1>6
      <4> QED
        BY <4>1, <2>1, <2>4, <1>6 DEF Worked
    <3> QED
      BY <3>1, <1>0, <1>1, <1>2, <1>6, <2>1, <2>4, PartGoesOn
  <2> QED
    BY <1>0, <2>1, <2>3, <2>4, <1>6, SortGoesOn
<1>7. CASE tl' = [tl EXCEPT !.pc = pc, !.a = b] /\ (tl.call.order # "any" => a[u] < a[l])
  <2>1. Whole(b)
    BY <1>0, <1>1, <1>2, <1>3, SwapWhole
  <2>2. ASSUME tl.call.order = "less" PROVE b[l] <= b[u] /\ Ranked(b) /\ Filled(b)
    <3>1. Ranked(b) /\ Filled(b)
      <4>1. Apart /\ Ranked(a) /\ Filled(a) /\ Whole(a) /\ l \in tl.l .. tl.u /\ u \in tl.l .. tl.u
        BY <1>0, <1>1, <1>2, <2>2 DEF InOrder
      <4> QED
        BY <4>1, <1>0, <1>3, SwapRanked
    <3>2. a \in [Cells -> Int] /\ l \in Cells /\ u \in Cells
      BY <1>1, <1>2 DEF Whole
    <3>3. b[l] = a[u] /\ b[u] = a[l]
      BY <3>2, <1>3, SwapIs
    <3>4. a[u] \in Int /\ a[l] \in Int /\ a[u] < a[l]
      BY <3>2, <2>2, <1>7
    <3> QED
      BY <3>1, <3>3, <3>4
  <2> QED
    BY <2>1, <2>2, <1>6, <1>7
<1>8. CASE tl' = [tl EXCEPT !.pc = pc] /\ (tl.call.order # "any" => ~(a[u] < a[l]))
  <2>1. tl' = [tl EXCEPT !.pc = pc, !.a = a]
    BY <1>1, <1>2, <1>8 DEF Fields
  <2>2. ASSUME tl.call.order = "less" PROVE a[l] <= a[u] /\ Ranked(a) /\ Filled(a)
    <3>1. a \in [Cells -> Int] /\ l \in Cells /\ u \in Cells
      BY <1>1, <1>2 DEF Whole
    <3>2. a[u] \in Int /\ a[l] \in Int /\ ~(a[u] < a[l])
      BY <3>1, <2>2, <1>8
    <3> QED
      BY <3>2, <2>2, <1>1, <1>2 DEF InOrder
  <2> QED
    BY <2>1, <2>2, <1>1, <1>2, <1>6
<1> QED
  BY <1>4, <1>5, <1>7, <1>8

\* The middle of three elements or more, and what Partitioned makes of a.
LEMMA MiddleIs ==
  ASSUME TabInv, Active, tl.l + 2 <= tl.u
  PROVE  /\ Middle \in tl.l + 1 .. tl.u - 1 /\ Middle \in 1 .. Size
         /\ tl.u - tl.l = 2 => Middle = tl.l + 1
BY SortFacts DEF Middle

LEMMA PartitionKeeps ==
  ASSUME TabInv, tl.pc \in {"low", "high"}, NEW a, Whole(a), tl' = Partitioned(a),
         tl.call.order = "less" =>
           a[tl.l] <= a[Middle] /\ a[Middle] <= a[tl.u] /\ Ranked(a) /\ Filled(a)
  PROVE  TabInv'
<1>0. Active
  BY DEF Active
<1>1. /\ Size \in Nat /\ DOMAIN tl = Fields /\ Bounds /\ 0 .. Size + 1 \subseteq Cells
      /\ tl.l \in 1 .. Size /\ tl.u \in 1 .. Size /\ tl.l + 2 <= tl.u
      /\ (tl.call.order = "less" => InOrder)
  <2>1. tl.l + 2 <= tl.u
    BY <1>0, SortFacts DEF Bounds
  <2> QED
    BY <1>0, <2>1, SortFacts
<1>2. PICK l, u, m : l = tl.l /\ u = tl.u /\ m = Middle
  OBVIOUS
<1>3. /\ l \in 1 .. Size /\ u \in 1 .. Size /\ m \in l + 1 .. u - 1 /\ m \in 1 .. Size
      /\ u - l = 2 => m = l + 1
  BY <1>0, <1>1, <1>2, MiddleIs
<1>4. a \in [Cells -> Int] /\ l \in Cells /\ m \in Cells /\ u \in Cells /\ u - 1 \in Cells
  BY <1>1, <1>3 DEF Whole
<1>5. ASSUME tl.call.order = "less" PROVE a[l] <= a[m] /\ a[m] <= a[u]
  BY <1>2, <1>5
<1>6. CASE u - l = 2
  <2>1. tl' = [tl EXCEPT !.pc = "return", !.a = a]
    BY <1>2, <1>6 DEF Partitioned
  <2>2. /\ DOMAIN tl' = Fields /\ tl'.call = tl.call /\ tl'.a = a /\ tl'.l = l /\ tl'.u = u
        /\ tl'.todo = tl.todo /\ tl'.pc = "return"
    BY <1>1, <1>2, <2>1 DEF Fields
  <2>3. Bounds'
    BY <1>1, <2>2, <1>2 DEF Bounds, PartEnds, Size
  <2>4. ASSUME tl.call.order = "less" PROVE InOrder'
    <3>1. ASSUME NEW x \in l .. u, NEW y \in l .. u, x < y PROVE a[x] <= a[y]
      <4>1. x \in {l, m, u} /\ y \in {l, m, u}
        BY <1>3, <1>6
      <4>2. a[l] \in Int /\ a[m] \in Int /\ a[u] \in Int
        BY <1>4
      <4>3. l < m /\ m < u /\ l \in Int /\ m \in Int /\ u \in Int
        BY <1>3
      <4> QED
        BY <2>4, <1>5, <3>1, <4>1, <4>2, <4>3
    <3>2. Worked'
      BY <2>2, <3>1 DEF Worked
    <3> QED
      BY <1>0, <1>1, <1>2, <2>2, <2>4, <3>2, PartGoesOn
  <2> QED
    BY <1>0, <2>2, <2>3, <2>4, SortGoesOn
<1>7. CASE u - l # 2
  <2>1. PICK b : b = set2(a, m, u - 1)
    OBVIOUS
  <2>2. tl' = [tl EXCEPT !.pc = "up", !.a = b, !.pivot = a[m], !.i = l, !.j = u - 1]
    BY <1>2, <1>7, <2>1 DEF Partitioned
  <2>3. /\ DOMAIN tl' = Fields /\ tl'.call = tl.call /\ tl'.a = b /\ tl'.l = l /\ tl'.u = u
        /\ tl'.todo = tl.todo /\ tl'.pc = "up" /\ tl'.pivot = a[m] /\ tl'.i = l /\ tl'.j = u - 1
    BY <1>1, <1>2, <2>2 DEF Fields
  <2>4. l + 3 <= u
    BY <1>1, <1>2, <1>3, <1>7
  <2>5. Whole(b)
    BY <1>0, <1>1, <1>3, <2>1, <2>4, SwapWhole
  <2>6. Bounds'
    <3>1. Size' = Size /\ PartEnds' = PartEnds
      BY <2>3 DEF Size, PartEnds
    <3>2. u - 1 \in l .. u - 1 /\ l \in l .. u
      BY <1>1, <1>2, <1>3, <2>4
    <3>3. l \in 1 .. Size + 2 /\ u \in 0 .. Size /\ tl.todo \in Seq(PartEnds)
      BY <1>1, <1>2, <1>3 DEF Bounds
    <3> QED
      BY <2>3, <2>4, <3>1, <3>2, <3>3 DEF Bounds
  <2>7. ASSUME tl.call.order = "less" PROVE InOrder'
    <3>1. b[u - 1] = a[m] /\ b[u] = a[u] /\ b[l] = a[l]
      <4>1. u # m /\ u # u - 1 /\ l # m /\ l # u - 1
        BY <1>3, <2>4
      <4> QED
        BY <1>4, <2>1, <4>1, SwapIs
    <3>2. Ranked(b) /\ Filled(b)
      <4>1. m \in tl.l .. tl.u /\ u - 1 \in tl.l .. tl.u /\ Apart
        BY <1>1, <1>2, <1>3, <2>4, <2>7 DEF InOrder
      <4> QED
        BY <1>0, <2>1, <2>7, <4>1, SwapRanked
    <3>3. a[l] \in Int /\ a[m] \in Int /\ a[u] \in Int
      BY <1>4
    <3>4. ASSUME NEW x \in u - 1 .. u PROVE a[m] <= b[x]
      <4>1. x = u - 1 \/ x = u
        BY <1>3
      <4> QED
        BY <2>7, <1>5, <3>1, <3>3, <4>1
    <3>5. \A x \in l .. l - 1 : b[x] <= a[m]
      BY <1>3
    <3>6. l <= u - 2 /\ l <= u - 1 /\ u - 1 > l
      BY <1>3, <2>4
    <3>7. Worked'
      BY <2>3, <2>7, <1>5, <3>1, <3>4, <3>5, <3>6 DEF Worked
    <3> QED
      BY <1>0, <1>1, <1>2, <2>3, <2>7, <3>2, <3>7, PartGoesOn
  <2> QED
    BY <1>0, <2>3, <2>5, <2>6, <2>7, SortGoesOn
<1> QED
  BY <1>6, <1>7

LEMMA LowKeeps ==
  ASSUME TabInv, LowCompared
  PROVE  TabInv'
<1>0. Active /\ tl.pc = "low"
  BY DEF LowCompared, Active
<1>1. /\ Size \in Nat /\ DOMAIN tl = Fields /\ Bounds /\ 0 .. Size + 1 \subseteq Cells
      /\ tl.l \in 1 .. Size /\ tl.u \in 1 .. Size /\ tl.l + 2 <= tl.u /\ Whole(tl.a)
      /\ (tl.call.order = "less" => InOrder)
  <2>1. tl.l + 2 <= tl.u
    BY <1>0, SortFacts DEF Bounds
  <2> QED
    BY <1>0, <2>1, SortFacts
<1>2. PICK l, u, m, a : l = tl.l /\ u = tl.u /\ m = Middle /\ a = tl.a
  OBVIOUS
<1>3. /\ l \in 1 .. Size /\ u \in 1 .. Size /\ m \in l + 1 .. u - 1 /\ m \in 1 .. Size
  BY <1>0, <1>1, <1>2, MiddleIs
<1>4. a \in [Cells -> Int] /\ l \in Cells /\ m \in Cells /\ u \in Cells
  BY <1>1, <1>2, <1>3 DEF Whole
<1>5. PICK b : b = set2(a, m, l)
  OBVIOUS
<1>6. \/ tl' = Partitioned(b) /\ (tl.call.order # "any" => a[m] < a[l])
      \/ tl' = [tl EXCEPT !.pc = "high"] /\ (tl.call.order # "any" => ~(a[m] < a[l]))
      \/ tl' = [tl EXCEPT !.pc = "failed"] /\ (tl.call.order # "any" => a[m] = NONE \/ a[l] = NONE)
  <2>1. Asked(a[m], a[l], Partitioned(b), [tl EXCEPT !.pc = "high"])
    BY <1>2, <1>5 DEF LowCompared
  <2> QED
    BY <2>1, AnswerIs
<1>7. ASSUME tl.call.order = "less"
      PROVE  /\ InOrder /\ Ranked(a) /\ Filled(a) /\ Apart /\ a[l] <= a[u] /\ a[l] \in Int
             /\ a[m] \in Int /\ a[u] \in Int /\ a[l] # NONE /\ a[m] # NONE
  <2>1. InOrder
    BY <1>1, <1>7
  <2>2. a[l] <= a[u] /\ Ranked(a) /\ Filled(a) /\ Apart
    BY <1>0, <1>2, <2>1 DEF InOrder, Worked
  <2>3. a[l] # NONE /\ a[m] # NONE
    BY <1>0, <1>2, <1>3, <2>1, NoError
  <2> QED
    BY <2>1, <2>2, <2>3, <1>4
<1>8. CASE tl' = [tl EXCEPT !.pc = "failed"] /\ (tl.call.order # "any" => a[m] = NONE \/ a[l] = NONE)
  <2>1. tl.call.order # "less"
    BY <1>7, <1>8
  <2>2. DOMAIN tl' = Fields /\ tl'.call = tl.call /\ Whole(tl'.a) /\ Bounds'
    BY <1>0, <1>8, FailedBounds
  <2> QED
    BY <1>0, <2>1, <2>2, SortGoesOn
<1>9. CASE tl' = Partitioned(b) /\ (tl.call.order # "any" => a[m] < a[l])
  <2>1. Whole(b)
    BY <1>0, <1>1, <1>2, <1>3, <1>5, SwapWhole
  <2>2. ASSUME tl.call.order = "less"
        PROVE  b[l] <= b[m] /\ b[m] <= b[u] /\ Ranked(b) /\ Filled(b)
    <3>1. Ranked(b) /\ Filled(b)
      <4>1. m \in tl.l .. tl.u /\ l \in tl.l .. tl.u /\ Whole(a)
        BY <1>1, <1>2, <1>3
      <4> QED
        BY <1>0, <1>5, <1>7, <2>2, <4>1, SwapRanked
    <3>2. b[l] = a[m] /\ b[m] = a[l] /\ b[u] = a[u]
      <4>1. u # m /\ u # l /\ l # m
        BY <1>3
      <4> QED
        BY <1>4, <1>5, <4>1, SwapIs
    <3> QED
      BY <1>7, <1>9, <2>2, <3>1, <3>2
  <2> QED
    BY <1>0, <1>2, <1>9, <2>1, <2>2, PartitionKeeps
<1>10. CASE tl' = [tl EXCEPT !.pc = "high"] /\ (tl.call.order # "any" => ~(a[m] < a[l]))
  <2>1. /\ DOMAIN tl' = Fields /\ tl'.call = tl.call /\ tl'.a = a /\ tl'.l = l /\ tl'.u = u
        /\ tl'.todo = tl.todo /\ tl'.pc = "high"
    BY <1>1, <1>2, <1>10 DEF Fields
  <2>2. Bounds'
    BY <1>0, <1>1, <1>2, <2>1 DEF Bounds, PartEnds, Size
  <2>3. ASSUME tl.call.order = "less" PROVE InOrder'
    <3>1. Worked'
      <4>1. a[l] <= a[u] /\ a[l] <= a[m]
        BY <1>7, <1>10, <2>3
      <4>2. Middle' = m
        BY <1>2, <2>1 DEF Middle
      <4> QED
        BY <2>1, <4>1, <4>2 DEF Worked
    <3> QED
      BY <1>0, <1>2, <1>7, <2>1, <2>3, <3>1, PartGoesOn
  <2> QED
    BY <1>0, <1>1, <1>2, <2>1, <2>2, <2>3, SortGoesOn
<1> QED
  BY <1>6, <1>8, <1>9, <1>10

LEMMA HighKeeps ==
  ASSUME TabInv, HighCompared
  PROVE  TabInv'
<1>0. Active /\ tl.pc = "high"
  BY DEF HighCompared, Active
<1>1. /\ Size \in Nat /\ DOMAIN tl = Fields /\ Bounds /\ 0 .. Size + 1 \subseteq Cells
      /\ tl.l \in 1 .. Size /\ tl.u \in 1 .. Size /\ tl.l + 2 <= tl.u /\ Whole(tl.a)
      /\ (tl.call.order = "less" => InOrder)
  <2>1. tl.l + 2 <= tl.u
    BY <1>0, SortFacts DEF Bounds
  <2> QED
    BY <1>0, <2>1, SortFacts
<1>2. PICK l, u, m, a : l = tl.l /\ u = tl.u /\ m = Middle /\ a = tl.a
  OBVIOUS
<1>3. /\ l \in 1 .. Size /\ u \in 1 .. Size /\ m \in l + 1 .. u - 1 /\ m \in 1 .. Size
  BY <1>0, <1>1, <1>2, MiddleIs
<1>4. a \in [Cells -> Int] /\ l \in Cells /\ m \in Cells /\ u \in Cells
  BY <1>1, <1>2, <1>3 DEF Whole
<1>5. PICK b : b = set2(a, m, u)
  OBVIOUS
<1>6. \/ tl' = Partitioned(b) /\ (tl.call.order # "any" => a[u] < a[m])
      \/ tl' = Partitioned(a) /\ (tl.call.order # "any" => ~(a[u] < a[m]))
      \/ tl' = [tl EXCEPT !.pc = "failed"] /\ (tl.call.order # "any" => a[u] = NONE \/ a[m] = NONE)
  <2>1. Asked(a[u], a[m], Partitioned(b), Partitioned(a))
    BY <1>2, <1>5 DEF HighCompared
  <2> QED
    BY <2>1, AnswerIs
<1>7. ASSUME tl.call.order = "less"
      PROVE  /\ InOrder /\ Ranked(a) /\ Filled(a) /\ Apart /\ a[l] <= a[u] /\ a[l] <= a[m]
             /\ a[l] \in Int /\ a[m] \in Int /\ a[u] \in Int /\ a[u] # NONE /\ a[m] # NONE
  <2>1. InOrder
    BY <1>1, <1>7
  <2>2. a[l] <= a[u] /\ a[l] <= a[m] /\ Ranked(a) /\ Filled(a) /\ Apart
    BY <1>0, <1>2, <2>1 DEF InOrder, Worked
  <2>3. a[u] # NONE /\ a[m] # NONE
    BY <1>0, <1>2, <1>3, <2>1, NoError
  <2> QED
    BY <2>1, <2>2, <2>3, <1>4
<1>8. CASE tl' = [tl EXCEPT !.pc = "failed"] /\ (tl.call.order # "any" => a[u] = NONE \/ a[m] = NONE)
  <2>1. tl.call.order # "less"
    BY <1>7, <1>8
  <2>2. DOMAIN tl' = Fields /\ tl'.call = tl.call /\ Whole(tl'.a) /\ Bounds'
    BY <1>0, <1>8, FailedBounds
  <2> QED
    BY <1>0, <2>1, <2>2, SortGoesOn
<1>9. CASE tl' = Partitioned(b) /\ (tl.call.order # "any" => a[u] < a[m])
  <2>1. Whole(b)
    BY <1>0, <1>1, <1>2, <1>3, <1>5, SwapWhole
  <2>2. ASSUME tl.call.order = "less"
        PROVE  b[l] <= b[m] /\ b[m] <= b[u] /\ Ranked(b) /\ Filled(b)
    <3>1. Ranked(b) /\ Filled(b)
      <4>1. m \in tl.l .. tl.u /\ u \in tl.l .. tl.u /\ Whole(a)
        BY <1>1, <1>2, <1>3
      <4> QED
        BY <1>0, <1>5, <1>7, <2>2, <4>1, SwapRanked
    <3>2. b[l] = a[l] /\ b[m] = a[u] /\ b[u] = a[m]
      <4>1. u # m /\ u # l /\ l # m
        BY <1>3
      <4> QED
        BY <1>4, <1>5, <4>1, SwapIs
    <3> QED
      BY <1>7, <1>9, <2>2, <3>1, <3>2
  <2> QED
    BY <1>0, <1>2, <1>9, <2>1, <2>2, PartitionKeeps
<1>10. CASE tl' = Partitioned(a) /\ (tl.call.order # "any" => ~(a[u] < a[m]))
  <2>1. ASSUME tl.call.order = "less"
        PROVE  a[l] <= a[m] /\ a[m] <= a[u] /\ Ranked(a) /\ Filled(a)
    BY <1>7, <1>10, <2>1
  <2>2. Whole(a)
    BY <1>1, <1>2
  <2> QED
    BY <1>0, <1>2, <1>10, <2>1, <2>2, PartitionKeeps
<1> QED
  BY <1>6, <1>8, <1>9, <1>10

\* What the loops of auxsort know of the part at work.
LEMMA ScanFacts ==
  ASSUME TabInv, tl.pc \in {"up", "down"}
  PROVE  /\ Active /\ DOMAIN tl = Fields /\ Size \in Nat /\ 0 .. Size + 1 \subseteq Cells
         /\ tl.a \in [Cells -> Int] /\ tl.l \in 1 .. Size /\ tl.u \in 1 .. Size /\ tl.l + 3 <= tl.u
         /\ tl.j \in tl.l .. tl.u - 1 /\ tl.todo \in Seq(PartEnds) /\ Whole(tl.a)
         /\ tl.pc = "up" => tl.i \in tl.l .. tl.u
         /\ tl.pc = "down" => tl.i \in tl.l + 1 .. tl.u + 1
         /\ tl.call.order = "less" =>
              /\ InOrder /\ Apart /\ Ranked(tl.a) /\ Filled(tl.a)
              /\ tl.a[tl.u - 1] = tl.pivot /\ tl.pivot \in Int /\ tl.pivot # NONE
              /\ \A x \in tl.l .. tl.i - 1 : tl.a[x] <= tl.pivot
              /\ \A x \in tl.j .. tl.u : tl.pivot <= tl.a[x]
              /\ tl.j > tl.l
              /\ tl.pc = "up" => tl.a[tl.i] <= tl.pivot /\ tl.i <= tl.u - 2 /\ tl.i <= tl.j
              /\ tl.pc = "down" => tl.pivot <= tl.a[tl.i] /\ tl.i <= tl.u - 1 /\ tl.i <= tl.j + 1
<1>1. Active
  BY DEF Active
<1>2. /\ DOMAIN tl = Fields /\ Size \in Nat /\ 0 .. Size + 1 \subseteq Cells /\ Bounds
      /\ tl.a \in [Cells -> Int] /\ Whole(tl.a)
      /\ tl.l \in 1 .. Size /\ tl.u \in 1 .. Size /\ tl.l + 3 <= tl.u
      /\ (tl.call.order = "less" => InOrder)
  <2>1. tl.l + 3 <= tl.u
    BY <1>1, SortFacts DEF Bounds
  <2> QED
    BY <1>1, <2>1, SortFacts DEF Whole
<1>3. /\ tl.j \in tl.l .. tl.u - 1 /\ tl.todo \in Seq(PartEnds)
      /\ tl.pc = "up" => tl.i \in tl.l .. tl.u
      /\ tl.pc = "down" => tl.i \in tl.l + 1 .. tl.u + 1
  BY <1>2 DEF Bounds
<1>4. ASSUME tl.call.order = "less"
      PROVE  /\ InOrder /\ Apart /\ Ranked(tl.a) /\ Filled(tl.a)
             /\ tl.a[tl.u - 1] = tl.pivot /\ tl.pivot \in Int /\ tl.pivot # NONE
             /\ \A x \in tl.l .. tl.i - 1 : tl.a[x] <= tl.pivot
             /\ \A x \in tl.j .. tl.u : tl.pivot <= tl.a[x]
             /\ tl.j > tl.l
             /\ tl.pc = "up" => tl.a[tl.i] <= tl.pivot /\ tl.i <= tl.u - 2 /\ tl.i <= tl.j
             /\ tl.pc = "down" => tl.pivot <= tl.a[tl.i] /\ tl.i <= tl.u - 1 /\ tl.i <= tl.j + 1
  <2>1. InOrder
    BY <1>2, <1>4
  <2>2. Apart /\ Ranked(tl.a) /\ Filled(tl.a) /\ Worked
    BY <2>1 DEF InOrder
  <2>3. tl.u - 1 \in 1 .. Size /\ tl.u - 1 \in Cells
    BY <1>2
  <2>4. tl.a[tl.u - 1] \in Int /\ tl.a[tl.u - 1] # NONE
    BY <1>1, <1>2, <2>1, <2>3, NoError
  <2> QED
    BY <2>1, <2>2, <2>4 DEF Worked
<1> QED
  BY <1>1, <1>2, <1>3, <1>4

LEMMA UpKeeps ==
  ASSUME TabInv, ScanUp
  PROVE  TabInv'
<1>0. tl.pc = "up"
  BY DEF ScanUp
<1>1. PICK l, u, i, j, a, P :
        l = tl.l /\ u = tl.u /\ i = tl.i /\ j = tl.j /\ a = tl.a /\ P = tl.pivot
  OBVIOUS
<1>2. /\ Active /\ DOMAIN tl = Fields /\ Size \in Nat /\ 0 .. Size + 1 \subseteq Cells
      /\ a \in [Cells -> Int] /\ l \in 1 .. Size /\ u \in 1 .. Size /\ l + 3 <= u
      /\ j \in l .. u - 1 /\ tl.todo \in Seq(PartEnds) /\ Whole(a) /\ i \in l .. u
  BY <1>0, <1>1, ScanFacts
<1>3. ASSUME tl.call.order = "less"
      PROVE  /\ InOrder /\ Ranked(a) /\ Filled(a) /\ a[u - 1] = P /\ P \in Int /\ P # NONE
             /\ \A x \in l .. i - 1 : a[x] <= P
             /\ \A x \in j .. u : P <= a[x]
             /\ j > l /\ a[i] <= P /\ i <= u - 2 /\ i <= j
  BY <1>0, <1>1, <1>3, ScanFacts
<1> DEFINE k == i + 1
<1>4. \/ /\ tl' = [tl EXCEPT !.pc = IF k > u THEN "failed" ELSE "up", !.i = k]
         /\ tl.call.order # "any" => a[k] < P
      \/ /\ tl' = [tl EXCEPT !.pc = "down", !.i = k]
         /\ tl.call.order # "any" => ~(a[k] < P)
      \/ /\ tl' = [tl EXCEPT !.pc = "failed"]
         /\ tl.call.order # "any" => a[k] = NONE \/ P = NONE
  <2>1. Asked(a[k], P, [tl EXCEPT !.pc = IF k > u THEN "failed" ELSE "up", !.i = k],
              [tl EXCEPT !.pc = "down", !.i = k])
    BY <1>1 DEF ScanUp
  <2> HIDE DEF k
  <2> QED
    BY <2>1, AnswerIs
<1>5. ASSUME tl.call.order = "less" PROVE k \in 1 .. Size /\ k <= u - 1 /\ a[k] \in Int /\ a[k] # NONE
  <2>1. k \in 1 .. Size /\ k <= u - 1
    BY <1>2, <1>3, <1>5
  <2>2. a[k] # NONE
    BY <1>1, <1>2, <1>3, <1>5, <2>1, NoError
  <2> QED
    BY <2>1, <2>2, <1>2
<1>6. CASE /\ tl' = [tl EXCEPT !.pc = "failed"]
           /\ tl.call.order # "any" => a[k] = NONE \/ P = NONE
  <2>1. tl.call.order # "less"
    BY <1>3, <1>5, <1>6
  <2>2. DOMAIN tl' = Fields /\ tl'.call = tl.call /\ Whole(tl'.a) /\ Bounds'
    BY <1>2, <1>6, FailedBounds
  <2> QED
    BY <1>2, <2>1, <2>2, SortGoesOn
<1>7. ASSUME NEW pc \in {"failed", "up", "down"}, tl' = [tl EXCEPT !.pc = pc, !.i = k],
             pc = "up" => k <= u,
             tl.call.order = "less" =>
               /\ pc # "failed"
               /\ pc = "up" => a[k] <= P /\ k <= u - 2 /\ k <= j
               /\ pc = "down" => P <= a[k]
      PROVE  TabInv'
  <2>1. /\ DOMAIN tl' = Fields /\ tl'.call = tl.call /\ tl'.a = a /\ tl'.l = l /\ tl'.u = u
        /\ tl'.todo = tl.todo /\ tl'.pc = pc /\ tl'.i = k /\ tl'.j = j /\ tl'.pivot = P
    BY <1>1, <1>2, <1>7 DEF Fields
  <2>2. Size' = Size /\ PartEnds' = PartEnds
    BY <2>1 DEF Size, PartEnds
  <2>3. Bounds'
    BY <1>2, <1>7, <2>1, <2>2 DEF Bounds
  <2>4. ASSUME tl.call.order = "less" PROVE InOrder'
    <3>1. \A x \in l .. k - 1 : a[x] <= P
      <4> SUFFICES ASSUME NEW x \in l .. k - 1 PROVE a[x] <= P
        OBVIOUS
      <4>1. x \in l .. i - 1 \/ x = i
        BY <1>2
      <4> QED
        BY <4>1, <2>4, <1>3
    <3>2. k <= u - 1 /\ k <= j + 1
      BY <1>2, <1>3, <2>4
    <3>3. Worked'
      BY <1>3, <1>7, <2>1, <2>4, <3>1, <3>2 DEF Worked
    <3> QED
      BY <1>1, <1>2, <1>3, <1>7, <2>1, <2>4, <3>3, PartGoesOn
  <2> QED
    BY <1>2, <2>1, <2>3, <2>4, SortGoesOn
<1>8. CASE /\ tl' = [tl EXCEPT !.pc = IF k > u THEN "failed" ELSE "up", !.i = k]
           /\ tl.call.order # "any" => a[k] < P
  <2>1. ASSUME tl.call.order = "less" PROVE a[k] <= P /\ k <= u - 2 /\ k <= j /\ k <= u
    <3>1. a[k] < P /\ k <= u - 1 /\ a[k] \in Int /\ P \in Int
      BY <2>1, <1>3, <1>5, <1>8
    <3>2. k # u - 1
      BY <2>1, <3>1, <1>3
    <3>3. k <= j
      <4>1. ASSUME k > j PROVE FALSE
        <5>1. k \in j .. u
          BY <4>1, <3>1, <1>2
        <5> QED
          BY <5>1, <3>1, <2>1, <1>3
      <4> QED
        BY <4>1, <1>2
    <3> QED
      BY <3>1, <3>2, <3>3, <1>2
  <2>2. CASE k > u
    <3>1. tl' = [tl EXCEPT !.pc = "failed", !.i = k]
      BY <1>8, <2>2
    <3>2. tl.call.order # "less"
      BY <2>1, <2>2, <1>2
    <3> QED
      BY <3>1, <3>2, <1>7
  <2>3. CASE ~(k > u)
    <3>1. tl' = [tl EXCEPT !.pc = "up", !.i = k]
      BY <1>8, <2>3
    <3>2. k <= u
      BY <1>2, <2>3
    <3> QED
      BY <3>1, <3>2, <2>1, <1>7
  <2> QED
    BY <2>2, <2>3
<1>9. CASE /\ tl' = [tl EXCEPT !.pc = "down", !.i = k]
           /\ tl.call.order # "any" => ~(a[k] < P)
  <2>1. tl.call.order = "less" => P <= a[k]
    BY <1>3, <1>5, <1>9
  <2> QED
    BY <2>1, <1>7, <1>9
<1> QED
  BY <1>4, <1>6, <1>8, <1>9

\* The two parts beside a pivot at i.
LEMMA HalvesAre ==
  ASSUME TabInv, tl.pc = "down"
  PROVE  /\ <<tl.l, tl.i - 1>> \in PartEnds /\ <<tl.i + 1, tl.u>> \in PartEnds
         /\ \/ /\ Halves(tl, tl.i).next = <<tl.l, tl.i - 1>>
               /\ Halves(tl, tl.i).todo = <<tl.i + 1, tl.u>>
            \/ /\ Halves(tl, tl.i).next = <<tl.i + 1, tl.u>>
               /\ Halves(tl, tl.i).todo = <<tl.l, tl.i - 1>>
         /\ tl.i <= tl.u - 1 =>
              /\ Halves(tl, tl.i).next[2] - Halves(tl, tl.i).next[1] + 1 \in Nat \ {0}
              /\ Halves(tl, tl.i).todo[2] - Halves(tl, tl.i).todo[1] + 1 \in Nat
              /\ 2 * (Halves(tl, tl.i).next[2] - Halves(tl, tl.i).next[1] + 1) <= tl.u - tl.l + 1
              /\ Halves(tl, tl.i).todo[2] - Halves(tl, tl.i).todo[1] + 1 <= tl.u - tl.l + 1
<1>1. PICK l, u, i : l = tl.l /\ u = tl.u /\ i = tl.i
  OBVIOUS
<1>2. /\ Size \in Nat /\ l \in 1 .. Size /\ u \in 1 .. Size /\ l + 3 <= u /\ i \in l + 1 .. u + 1
  BY <1>1, ScanFacts
<1> DEFINE below == <<l, i - 1>>
           above == <<i + 1, u>>
           h     == Halves(tl, i)
<1>3. below \in PartEnds /\ above \in PartEnds
  BY <1>2 DEF PartEnds
<1>4. CASE i - l < u - i
  <2>1. h.next = below /\ h.todo = above
    BY <1>1, <1>4 DEF Halves
  <2>2. below[1] = l /\ below[2] = i - 1 /\ above[1] = i + 1 /\ above[2] = u
    OBVIOUS
  <2>3. i <= u - 1 => /\ i - 1 - l + 1 \in Nat \ {0} /\ u - (i + 1) + 1 \in Nat
                      /\ 2 * (i - 1 - l + 1) <= u - l + 1
                      /\ u - (i + 1) + 1 <= u - l + 1
    BY <1>2, <1>4
  <2> HIDE DEF h, below, above
  <2>4. i <= u - 1 =>
          /\ h.next[2] - h.next[1] + 1 \in Nat \ {0} /\ h.todo[2] - h.todo[1] + 1 \in Nat
          /\ 2 * (h.next[2] - h.next[1] + 1) <= u - l + 1
          /\ h.todo[2] - h.todo[1] + 1 <= u - l + 1
    BY <2>1, <2>2, <2>3
  <2> QED
    BY <1>1, <1>3, <2>1, <2>4 DEF h, below, above
<1>5. CASE ~(i - l < u - i)
  <2>1. h.next = above /\ h.todo = below
    BY <1>1, <1>5 DEF Halves
  <2>2. below[1] = l /\ below[2] = i - 1 /\ above[1] = i + 1 /\ above[2] = u
    OBVIOUS
  <2>3. i <= u - 1 => /\ i - 1 - l + 1 \in Nat /\ u - (i + 1) + 1 \in Nat \ {0}
                      /\ 2 * (u - (i + 1) + 1) <= u - l + 1
                      /\ i - 1 - l + 1 <= u - l + 1
    BY <1>2, <1>5
  <2> HIDE DEF h, below, above
  <2>4. i <= u - 1 =>
          /\ h.next[2] - h.next[1] + 1 \in Nat \ {0} /\ h.todo[2] - h.todo[1] + 1 \in Nat
          /\ 2 * (h.next[2] - h.next[1] + 1) <= u - l + 1
          /\ h.todo[2] - h.todo[1] + 1 <= u - l + 1
    BY <2>1, <2>2, <2>3
  <2> QED
    BY <1>1, <1>3, <2>1, <2>4 DEF h, below, above
<1> QED
  BY <1>4, <1>5

\* The part at work is replaced by the two beside a pivot P at i, of the cells b.
LEMMA PartedOrder ==
  ASSUME TabInv, tl.pc = "down", tl.call.order = "less", NEW b, Ranked(b), Filled(b),
         NEW P \in Int, b[tl.i] = P, b \in [Cells -> Int],
         \A x \in tl.l .. tl.i - 1 : b[x] <= P, \A x \in tl.i + 1 .. tl.u : P <= b[x],
         tl'.pc = "while", tl'.call = tl.call, tl'.a = b,
         tl'.l = Halves(tl, tl.i).next[1], tl'.u = Halves(tl, tl.i).next[2],
         tl'.todo = Append(tl.todo, Halves(tl, tl.i).todo)
  PROVE  InOrder'
<1>1. PICK l, u, i : l = tl.l /\ u = tl.u /\ i = tl.i
  OBVIOUS
<1>2. /\ Size \in Nat /\ l \in 1 .. Size /\ u \in 1 .. Size /\ l + 3 <= u /\ i \in l + 1 .. u - 1
      /\ Active /\ Apart /\ InOrder /\ Halving /\ 0 .. Size + 1 \subseteq Cells
      /\ tl.todo \in Seq(PartEnds)
  <2>1. /\ Size \in Nat /\ l \in 1 .. Size /\ u \in 1 .. Size /\ l + 3 <= u /\ i \in l + 1 .. u + 1
        /\ Active /\ Apart /\ InOrder /\ i <= u - 1 /\ 0 .. Size + 1 \subseteq Cells
        /\ tl.todo \in Seq(PartEnds)
    BY <1>1, ScanFacts
  <2> QED
    BY <2>1 DEF InOrder
<1> DEFINE below == <<l, i - 1>>
           above == <<i + 1, u>>
<1>3. PICK nx, td : nx = Halves(tl, i).next /\ td = Halves(tl, i).todo
  OBVIOUS
<1>4. /\ nx \in PartEnds /\ td \in PartEnds
      /\ \/ nx = below /\ td = above
         \/ nx = above /\ td = below
      /\ nx[2] - nx[1] + 1 \in Nat \ {0} /\ td[2] - td[1] + 1 \in Nat
      /\ 2 * (nx[2] - nx[1] + 1) <= u - l + 1
      /\ td[2] - td[1] + 1 <= u - l + 1
  <2>1. /\ nx = Halves(tl, tl.i).next /\ td = Halves(tl, tl.i).todo /\ tl.i <= tl.u - 1
        /\ below = <<tl.l, tl.i - 1>> /\ above = <<tl.i + 1, tl.u>>
    BY <1>1, <1>2, <1>3
  <2> HIDE DEF below, above
  <2>2. below \in PartEnds /\ above \in PartEnds
    BY <2>1, HalvesAre
  <2>3. (nx = below /\ td = above) \/ (nx = above /\ td = below)
    BY <2>1, HalvesAre
  <2>4. nx[2] - nx[1] + 1 \in Nat \ {0} /\ td[2] - td[1] + 1 \in Nat
    BY <2>1, HalvesAre
  <2>5. 2 * (nx[2] - nx[1] + 1) <= tl.u - tl.l + 1 /\ td[2] - td[1] + 1 <= tl.u - tl.l + 1
    BY <2>1, HalvesAre
  <2> QED
    BY <2>2, <2>3, <2>4, <2>5, <1>1
<1>5. below[1] = l /\ below[2] = i - 1 /\ above[1] = i + 1 /\ above[2] = u
  OBVIOUS
<1> HIDE DEF below, above
<1>6. PICK s, n : s = tl.todo /\ n = Len(tl.todo)
  OBVIOUS
<1>7. /\ n \in Nat /\ Len(s) = n /\ DOMAIN s = 1 .. n /\ s \in Seq(PartEnds)
      /\ DOMAIN Parts = 1 .. n + 1 /\ Parts[n + 1] = <<l, u>>
      /\ \A m \in 1 .. n : Parts[m] = s[m] /\ s[m] \in PartEnds
  <2>1. /\ n \in Nat /\ Len(s) = n /\ s \in Seq(PartEnds)
        /\ DOMAIN Parts = 1 .. n + 1 /\ Parts[n + 1] = <<l, u>>
        /\ \A m \in 1 .. n : Parts[m] = s[m]
    BY <1>1, <1>2, <1>6, PartsAre
  <2> QED
    BY <2>1, LenProperties, ElementOfSeq
<1>8. PICK t : t = Append(s, td)
  OBVIOUS
<1>9. /\ t \in Seq(PartEnds) /\ Len(t) = n + 1 /\ t[n + 1] = td /\ DOMAIN t = 1 .. n + 1
      /\ \A m \in 1 .. n : t[m] = s[m]
  <2>1. /\ t \in Seq(PartEnds) /\ Len(t) = n + 1 /\ t[n + 1] = td
        /\ \A m \in 1 .. n : t[m] = s[m]
    BY <1>4, <1>7, <1>8, AppendProperties
  <2> QED
    BY <2>1, LenProperties
<1>10. tl'.todo = t /\ tl'.l = nx[1] /\ tl'.u = nx[2]
  BY <1>1, <1>3, <1>6, <1>8
<1>11. nx = <<nx[1], nx[2]>>
  BY <1>4 DEF PartEnds
<1>12. PICK parts : parts = Parts'
  OBVIOUS
<1>13. /\ DOMAIN parts = 1 .. n + 2 /\ parts[n + 1] = td /\ parts[n + 2] = nx
       /\ \A m \in 1 .. n : parts[m] = s[m]
  <2>1. parts = Append(t, nx)
    BY <1>10, <1>11, <1>12 DEF Parts, Active
  <2>2. /\ parts \in Seq(PartEnds) /\ Len(parts) = n + 2 /\ parts[n + 2] = nx
        /\ \A m \in 1 .. n + 1 : parts[m] = t[m]
    BY <1>4, <1>7, <1>9, <2>1, AppendProperties
  <2>3. DOMAIN parts = 1 .. n + 2
    BY <2>2, LenProperties
  <2>4. n + 1 \in 1 .. n + 1 /\ \A m \in 1 .. n : m \in 1 .. n + 1
    BY <1>7
  <2>5. parts[n + 1] = td
    BY <2>2, <2>4, <1>9
  <2>6. \A m \in 1 .. n : parts[m] = s[m]
    BY <2>2, <2>4, <1>9
  <2> QED
    BY <2>2, <2>3, <2>5, <2>6
\* What the two new parts hold is what the part at work held, but for i.
<1>14. ASSUME NEW x \in 1 .. Size
       PROVE  /\ Within(x, nx) \/ Within(x, td) <=> Within(x, <<l, u>>) /\ x # i
              /\ ~(Within(x, nx) /\ Within(x, td))
              /\ x < i /\ Within(x, <<l, u>>) => Within(x, below)
              /\ x > i /\ Within(x, <<l, u>>) => Within(x, above)
  <2>1. /\ Within(x, below) <=> l <= x /\ x <= i - 1
        /\ Within(x, above) <=> i + 1 <= x /\ x <= u
        /\ Within(x, <<l, u>>) <=> l <= x /\ x <= u
    BY <1>5 DEF Within
  <2>2. /\ Within(x, below) \/ Within(x, above) <=> Within(x, <<l, u>>) /\ x # i
        /\ ~(Within(x, below) /\ Within(x, above))
        /\ x < i /\ Within(x, <<l, u>>) => Within(x, below)
        /\ x > i /\ Within(x, <<l, u>>) => Within(x, above)
    BY <2>1, <1>2
  <2> QED
    BY <2>2, <1>4
<1>15. ASSUME NEW m \in 1 .. n, NEW x \in 1 .. Size, Within(x, s[m])
       PROVE  ~Within(x, nx) /\ ~Within(x, td)
  <2>1. ~Within(x, <<l, u>>)
    <3>1. m \in DOMAIN Parts /\ n + 1 \in DOMAIN Parts /\ m # n + 1
          /\ Parts[m] = s[m] /\ Parts[n + 1] = <<l, u>>
      BY <1>7
    <3> QED
      BY <3>1, <1>2, <1>15 DEF Apart
  <2> QED
    BY <2>1, <1>14
<1>16. Size' = Size
  BY DEF Size
<1>17. ASSUME NEW x \in 1 .. Size, NEW m \in DOMAIN parts, NEW k \in DOMAIN parts,
              Within(x, parts[m]), Within(x, parts[k])
       PROVE  m = k
  <2>1. m \in 1 .. n \/ m = n + 1 \/ m = n + 2
    BY <1>7, <1>13
  <2>2. k \in 1 .. n \/ k = n + 1 \/ k = n + 2
    BY <1>7, <1>13
  <2>3. CASE m \in 1 .. n /\ k \in 1 .. n
    <3>1. m \in DOMAIN Parts /\ k \in DOMAIN Parts /\ Parts[m] = s[m] /\ Parts[k] = s[k]
      BY <1>7, <2>3
    <3>2. Within(x, Parts[m]) /\ Within(x, Parts[k])
      BY <3>1, <2>3, <1>13, <1>17
    <3> QED
      BY <3>1, <3>2, <1>2 DEF Apart
  <2>4. CASE m \in 1 .. n /\ k \notin 1 .. n
    BY <2>2, <2>4, <1>13, <1>15, <1>17
  <2>5. CASE m \notin 1 .. n /\ k \in 1 .. n
    BY <2>1, <2>5, <1>13, <1>15, <1>17
  <2>6. CASE m \notin 1 .. n /\ k \notin 1 .. n
    BY <2>1, <2>2, <2>6, <1>13, <1>14, <1>17
  <2> QED
    BY <2>3, <2>4, <2>5, <2>6
<1>18. Apart'
  BY <1>12, <1>16, <1>17 DEF Apart
<1>19. \A x \in l .. i : b[x] <= P
  <2> SUFFICES ASSUME NEW x \in l .. i PROVE b[x] <= P
    OBVIOUS
  <2>1. x \in l .. i - 1 \/ x = i
    BY <1>2
  <2> QED
    BY <2>1, <1>1
<1>20. \A x \in i .. u : P <= b[x]
  <2> SUFFICES ASSUME NEW x \in i .. u PROVE P <= b[x]
    OBVIOUS
  <2>1. x \in i + 1 .. u \/ x = i
    BY <1>2
  <2> QED
    BY <2>1, <1>1
<1>21. ASSUME NEW x \in 1 .. Size, NEW y \in 1 .. Size, x < y, ~(b[x] <= b[y])
       PROVE  \E m \in DOMAIN parts : Within(x, parts[m]) /\ Within(y, parts[m])
  <2>1. PICK m \in DOMAIN Parts : Within(x, Parts[m]) /\ Within(y, Parts[m])
    BY <1>21 DEF Ranked
  <2>2. CASE m \in 1 .. n
    <3>1. m \in DOMAIN parts /\ parts[m] = Parts[m]
      BY <1>7, <1>13, <2>2
    <3> QED
      BY <2>1, <3>1
  <2>3. CASE m \notin 1 .. n
    <3>1. Within(x, <<l, u>>) /\ Within(y, <<l, u>>)
      <4>1. m = n + 1
        BY <1>7, <2>3
      <4> QED
        BY <4>1, <1>7, <2>1
    <3>2. l <= x /\ y <= u
      BY <3>1 DEF Within
    <3>3. b[x] \in Int /\ b[y] \in Int
      BY <1>2
    <3>4. ~(x <= i /\ i <= y)
      <4> SUFFICES ASSUME x <= i, i <= y PROVE FALSE
        OBVIOUS
      <4>1. x \in l .. i /\ y \in i .. u
        BY <1>2, <3>2
      <4> QED
        BY <4>1, <3>3, <1>19, <1>20, <1>21
    <3>5. (x < i /\ y < i) \/ (x > i /\ y > i)
      <4>1. x \in Int /\ y \in Int /\ i \in Int /\ x < y
        BY <1>2, <1>21
      <4> QED
        BY <4>1, <3>4
    <3>6. \/ Within(x, below) /\ Within(y, below)
          \/ Within(x, above) /\ Within(y, above)
      BY <3>1, <3>5, <1>14
    <3>7. n + 1 \in DOMAIN parts /\ n + 2 \in DOMAIN parts
      BY <1>7, <1>13
    <3> QED
      BY <3>6, <3>7, <1>4, <1>13
  <2> QED
    BY <2>2, <2>3
<1>22. Ranked(tl.a)' /\ Filled(tl.a)'
  BY <1>12, <1>16, <1>21 DEF Ranked, Filled
<1>23. Halving'
  <2>1. PICK p : p = 2 ^ n
    OBVIOUS
  <2>2. p \in Nat \ {0} /\ 2 ^ (n + 1) = 2 * p /\ p * (u - l + 1) <= Size
        /\ \A m \in 1 .. n : 2 ^ (m - 1) * (s[m][2] - s[m][1] + 1) <= Size
    <3>1. 2 ^ n \in Nat \ {0} /\ 2 ^ (n + 1) = 2 * 2 ^ n
      BY <1>7, PowerDoubles
    <3>2. 2 ^ n * (u - l + 1) <= Size
      BY <1>1, <1>2, <1>6 DEF Halving
    <3>3. \A m \in 1 .. n : 2 ^ (m - 1) * (s[m][2] - s[m][1] + 1) <= Size
      BY <1>2, <1>6, <1>7 DEF Halving
    <3> QED
      BY <2>1, <3>1, <3>2, <3>3
  <2>3. PICK sz, bg : sz = nx[2] - nx[1] + 1 /\ bg = td[2] - td[1] + 1
    OBVIOUS
  <2>4. sz \in Nat \ {0} /\ bg \in Nat /\ 2 * sz <= u - l + 1 /\ bg <= u - l + 1
    BY <1>4, <2>3
  <2>5. (2 * p) * sz <= Size /\ p * bg <= Size /\ 2 * p <= Size
    <3>1. PICK w : w = u - l + 1
      OBVIOUS
    <3>2. w \in Nat /\ p \in Nat /\ sz \in Nat /\ bg \in Nat /\ p * w <= Size /\ 2 * sz <= w /\ bg <= w
      BY <1>2, <2>2, <2>4, <3>1
    <3>3. p * (2 * sz) <= p * w /\ p * bg <= p * w
      BY <3>2
    <3>4. p * (2 * sz) = (2 * p) * sz
      BY <3>2
    <3>5. 2 * p <= (2 * p) * sz
      BY <2>2, <2>4
    <3>6. p * w \in Int /\ p * bg \in Int /\ (2 * p) * sz \in Int /\ 2 * p \in Int
      BY <3>2
    <3>7. PICK e, f, g : e = p * w /\ f = (2 * p) * sz /\ g = p * bg
      OBVIOUS
    <3>8. e <= Size /\ f <= e /\ g <= e /\ 2 * p <= f
      BY <3>2, <3>3, <3>4, <3>5, <3>7
    <3>9. e \in Int /\ f \in Int /\ g \in Int /\ 2 * p \in Int /\ Size \in Int
      BY <1>2, <3>6, <3>7
    <3>10. f <= Size /\ g <= Size /\ 2 * p <= Size
      BY <3>8, <3>9
    <3> QED
      BY <3>7, <3>10
  <2>6. ASSUME NEW m \in 1 .. n + 1
        PROVE  2 ^ (m - 1) * (t[m][2] - t[m][1] + 1) <= Size
    <3>1. CASE m \in 1 .. n
      BY <3>1, <2>2, <1>9
    <3>2. CASE m = n + 1
      <4>1. m - 1 = n
        BY <3>2, <1>7
      <4>2. t[m][2] - t[m][1] + 1 = bg
        BY <3>2, <1>9, <2>3
      <4> QED
        BY <4>1, <4>2, <2>1, <2>5
    <3> QED
      BY <3>1, <3>2, <1>7
  <2>7. 2 ^ Len(t) <= Size /\ 2 ^ Len(t) * (nx[2] - nx[1] + 1) <= Size
    BY <1>9, <2>2, <2>3, <2>5
  <2> QED
    BY <1>9, <1>10, <1>16, <2>6, <2>7 DEF Halving
<1> QED
  BY <1>18, <1>22, <1>23 DEF InOrder, Worked

LEMMA DownKeeps ==
  ASSUME TabInv, ScanDown
  PROVE  TabInv'
<1>0. tl.pc = "down"
  BY DEF ScanDown
<1>1. PICK l, u, i, j, a, P :
        l = tl.l /\ u = tl.u /\ i = tl.i /\ j = tl.j /\ a = tl.a /\ P = tl.pivot
  OBVIOUS
<1>2. /\ Active /\ DOMAIN tl = Fields /\ Size \in Nat /\ 0 .. Size + 1 \subseteq Cells
      /\ a \in [Cells -> Int] /\ l \in 1 .. Size /\ u \in 1 .. Size /\ l + 3 <= u
      /\ j \in l .. u - 1 /\ tl.todo \in Seq(PartEnds) /\ Whole(a) /\ i \in l + 1 .. u + 1
  BY <1>0, <1>1, ScanFacts
<1>3. ASSUME tl.call.order = "less"
      PROVE  /\ InOrder /\ Apart /\ Ranked(a) /\ Filled(a) /\ a[u - 1] = P /\ P \in Int /\ P # NONE
             /\ \A x \in l .. i - 1 : a[x] <= P
             /\ \A x \in j .. u : P <= a[x]
             /\ j > l /\ P <= a[i] /\ i <= u - 1 /\ i <= j + 1
  BY <1>0, <1>1, <1>3, ScanFacts
<1> DEFINE k == j - 1
<1>4. PICK h : h = Halves(tl, i)
  OBVIOUS
<1>5. PICK b, c : b = set2(a, u - 1, i) /\ c = set2(a, i, k)
  OBVIOUS
<1>6. \/ /\ tl' = [tl EXCEPT !.pc = IF k < l THEN "failed" ELSE "down", !.j = k]
         /\ tl.call.order # "any" => P < a[k]
      \/ /\ k < i /\ tl' = [tl EXCEPT !.pc = "while", !.j = k, !.a = b,
                             !.l = h.next[1], !.u = h.next[2], !.todo = Append(@, h.todo)]
         /\ tl.call.order # "any" => ~(P < a[k])
      \/ /\ ~(k < i) /\ tl' = [tl EXCEPT !.pc = "up", !.j = k, !.a = c]
         /\ tl.call.order # "any" => ~(P < a[k])
      \/ /\ tl' = [tl EXCEPT !.pc = "failed"]
         /\ tl.call.order # "any" => P = NONE \/ a[k] = NONE
  <2> DEFINE no == IF k < i THEN [tl EXCEPT !.pc = "while", !.j = k, !.a = b,
                                    !.l = h.next[1], !.u = h.next[2], !.todo = Append(@, h.todo)]
                   ELSE [tl EXCEPT !.pc = "up", !.j = k, !.a = c]
             yes == [tl EXCEPT !.pc = IF k < l THEN "failed" ELSE "down", !.j = k]
  <2>1. Asked(P, a[k], yes, no)
    <3>1. "a" \in DOMAIN tl
      BY <1>2 DEF Fields
    <3> QED
      BY <3>1, <1>1, <1>4, <1>5 DEF ScanDown
  <2>2. \/ tl' = yes /\ (tl.call.order # "any" => P < a[k])
        \/ tl' = no /\ (tl.call.order # "any" => ~(P < a[k]))
        \/ tl' = [tl EXCEPT !.pc = "failed"]
           /\ (tl.call.order # "any" => P = NONE \/ a[k] = NONE)
    <3> HIDE DEF yes, no, k
    <3> QED
      BY <2>1, AnswerIs
  <2> HIDE DEF k
  <2> QED
    BY <2>2
<1>7. ASSUME tl.call.order = "less" PROVE k \in 1 .. Size /\ k >= l /\ a[k] \in Int /\ a[k] # NONE
  <2>1. k \in 1 .. Size /\ k >= l
    BY <1>2, <1>3, <1>7
  <2>2. a[k] # NONE
    BY <1>1, <1>2, <1>3, <1>7, <2>1, NoError
  <2> QED
    BY <2>1, <2>2, <1>2
<1>8. CASE /\ tl' = [tl EXCEPT !.pc = "failed"]
           /\ tl.call.order # "any" => P = NONE \/ a[k] = NONE
  <2>1. tl.call.order # "less"
    BY <1>3, <1>7, <1>8
  <2>2. DOMAIN tl' = Fields /\ tl'.call = tl.call /\ Whole(tl'.a) /\ Bounds'
    BY <1>2, <1>8, FailedBounds
  <2> QED
    BY <1>2, <2>1, <2>2, SortGoesOn
<1>9. CASE /\ tl' = [tl EXCEPT !.pc = IF k < l THEN "failed" ELSE "down", !.j = k]
           /\ tl.call.order # "any" => P < a[k]
  <2>1. PICK pc : pc = IF k < l THEN "failed" ELSE "down"
    OBVIOUS
  <2>2. /\ DOMAIN tl' = Fields /\ tl'.call = tl.call /\ tl'.a = a /\ tl'.l = l /\ tl'.u = u
        /\ tl'.todo = tl.todo /\ tl'.pc = pc /\ tl'.i = i /\ tl'.j = k /\ tl'.pivot = P
    BY <1>1, <1>2, <1>9, <2>1 DEF Fields
  <2>3. Size' = Size /\ PartEnds' = PartEnds
    BY <2>2 DEF Size, PartEnds
  <2>4. pc \in {"failed", "down"} /\ (pc = "down" => k \in l .. u - 1)
    BY <1>2, <2>1
  <2>5. Bounds'
    BY <1>2, <2>2, <2>3, <2>4 DEF Bounds
  <2>6. ASSUME tl.call.order = "less" PROVE InOrder'
    <3>1. P < a[k] /\ pc = "down"
      BY <1>7, <1>9, <2>1, <2>6, <1>2
    <3>2. ASSUME k \in l .. i - 1 PROVE FALSE
      <4>1. a[k] <= P
        BY <2>6, <3>2, <1>3
      <4> QED
        BY <2>6, <3>1, <4>1, <1>3, <1>7
    <3>3. k > l /\ i <= k + 1
      BY <1>2, <1>7, <2>6, <3>2
    <3>4. \A x \in k .. u : P <= a[x]
      <4> SUFFICES ASSUME NEW x \in k .. u PROVE P <= a[x]
        OBVIOUS
      <4>1. x = k \/ x \in j .. u
        BY <1>2
      <4> QED
        BY <4>1, <3>1, <1>3, <1>7, <2>6
    <3>5. Worked'
      BY <1>3, <2>2, <2>6, <3>1, <3>3, <3>4 DEF Worked
    <3> QED
      BY <1>1, <1>2, <1>3, <2>2, <2>6, <3>1, <3>5, PartGoesOn
  <2> QED
    BY <1>2, <2>2, <2>5, <2>6, SortGoesOn
<1>10. CASE /\ k < i /\ tl' = [tl EXCEPT !.pc = "while", !.j = k, !.a = b,
                                !.l = h.next[1], !.u = h.next[2], !.todo = Append(@, h.todo)]
            /\ tl.call.order # "any" => ~(P < a[k])
  <2>1. /\ DOMAIN tl' = Fields /\ tl'.call = tl.call /\ tl'.a = b /\ tl'.l = h.next[1]
        /\ tl'.u = h.next[2] /\ tl'.todo = Append(tl.todo, h.todo) /\ tl'.pc = "while"
    BY <1>2, <1>10 DEF Fields
  <2>2. Size' = Size /\ PartEnds' = PartEnds
    BY <2>1 DEF Size, PartEnds
  <2>3. h.next \in PartEnds /\ h.todo \in PartEnds
    BY <1>0, <1>1, <1>4, HalvesAre
  <2>4. h.next[1] \in 1 .. Size + 2 /\ h.next[2] \in 0 .. Size
    BY <2>3 DEF PartEnds
  <2>5. Append(tl.todo, h.todo) \in Seq(PartEnds)
    BY <1>2, <2>3, AppendProperties
  <2>6. Bounds'
    BY <2>1, <2>2, <2>4, <2>5 DEF Bounds
  <2>7. Whole(b)
    <3>1. u - 1 \in 0 .. Size + 1 /\ i \in 0 .. Size + 1
      BY <1>2
    <3> QED
      BY <3>1, <1>2, <1>5, SwapWhole
  <2>8. ASSUME tl.call.order = "less" PROVE InOrder'
    <3>1. i \in l .. u /\ u - 1 \in l .. u /\ i \in Cells /\ u - 1 \in Cells
          /\ i >= j /\ i <= u - 1
      <4>1. i <= u - 1 /\ k < i
        BY <1>3, <1>10, <2>8
      <4>2. i \in 0 .. Size + 1 /\ u - 1 \in 0 .. Size + 1 /\ i \in l .. u /\ u - 1 \in l .. u /\ i >= j
        BY <1>2, <4>1
      <4> QED
        BY <1>2, <4>1, <4>2
    <3>2. Ranked(b) /\ Filled(b)
      BY <1>1, <1>2, <1>3, <1>5, <2>8, <3>1, SwapRanked
    <3>3. \A x \in Cells : b[x] = IF x = i THEN a[u - 1] ELSE IF x = u - 1 THEN a[i] ELSE a[x]
      <4>1. a \in [Cells -> Int] /\ u - 1 \in Cells /\ i \in Cells
        BY <1>2, <3>1
      <4>2. \A x \in Cells : set2(a, u - 1, i)[x]
                               = IF x = i THEN a[u - 1] ELSE IF x = u - 1 THEN a[i] ELSE a[x]
        BY <4>1, SwapIs
      <4> QED
        BY <4>2, <1>5
    <3>4. b[i] = P /\ P \in Int /\ b \in [Cells -> Int]
      BY <1>3, <2>7, <2>8, <3>1, <3>3 DEF Whole
    <3>5. ASSUME NEW x \in l .. i - 1 PROVE b[x] <= P
      <4>1. x \in Cells /\ x # i /\ x # u - 1
        BY <1>2, <3>1
      <4>2. b[x] = a[x]
        BY <3>3, <4>1
      <4> QED
        BY <4>2, <1>3, <2>8
    <3>6. ASSUME NEW x \in i + 1 .. u PROVE P <= b[x]
      <4>1. x \in Cells /\ x # i /\ x \in j .. u
        BY <1>2, <3>1
      <4>2. b[x] = a[x] \/ b[x] = a[i]
        BY <3>3, <4>1
      <4> QED
        BY <4>1, <4>2, <1>3, <2>8
    <3>7. /\ tl'.l = Halves(tl, tl.i).next[1] /\ tl'.u = Halves(tl, tl.i).next[2]
          /\ tl'.todo = Append(tl.todo, Halves(tl, tl.i).todo)
      BY <1>1, <1>4, <2>1
    <3> QED
      BY <1>0, <1>1, <2>1, <2>8, <3>2, <3>4, <3>5, <3>6, <3>7, PartedOrder
  <2> QED
    BY <1>2, <2>1, <2>6, <2>7, <2>8, SortGoesOn
<1>11. CASE /\ ~(k < i) /\ tl' = [tl EXCEPT !.pc = "up", !.j = k, !.a = c]
            /\ tl.call.order # "any" => ~(P < a[k])
  <2>1. /\ DOMAIN tl' = Fields /\ tl'.call = tl.call /\ tl'.a = c /\ tl'.l = l /\ tl'.u = u
        /\ tl'.todo = tl.todo /\ tl'.pc = "up" /\ tl'.i = i /\ tl'.j = k /\ tl'.pivot = P
    BY <1>1, <1>2, <1>11 DEF Fields
  <2>2. Size' = Size /\ PartEnds' = PartEnds
    BY <2>1 DEF Size, PartEnds
  <2>3. /\ i \in l .. u /\ k \in l .. u /\ k \in l .. u - 1 /\ i \in Cells /\ k \in Cells
        /\ i \in 0 .. Size + 1 /\ k \in 0 .. Size + 1 /\ i <= k /\ k <= u - 2 /\ k > l
    <3>1. k \in Int /\ i <= k /\ k <= u - 2 /\ k > l
      BY <1>2, <1>11
    <3>2. i \in 0 .. Size + 1 /\ k \in 0 .. Size + 1
      BY <3>1, <1>2
    <3>3. i \in l .. u /\ k \in l .. u /\ k \in l .. u - 1
      BY <3>1, <1>2
    <3> QED
      BY <3>1, <3>2, <3>3, <1>2
  <2>4. Bounds'
    BY <1>2, <2>1, <2>2, <2>3 DEF Bounds
  <2>5. Whole(c)
    BY <1>2, <1>5, <2>3, SwapWhole
  <2>6. ASSUME tl.call.order = "less" PROVE InOrder'
    <3>1. Ranked(c) /\ Filled(c)
      BY <1>1, <1>2, <1>3, <1>5, <2>3, <2>6, SwapRanked
    <3>2. \A x \in Cells : c[x] = IF x = k THEN a[i] ELSE IF x = i THEN a[k] ELSE a[x]
      <4>1. a \in [Cells -> Int] /\ i \in Cells /\ k \in Cells
        BY <1>2, <2>3
      <4> HIDE DEF k
      <4>2. \A x \in Cells : set2(a, i, k)[x] = IF x = k THEN a[i] ELSE IF x = i THEN a[k] ELSE a[x]
        BY <4>1, SwapIs
      <4> QED
        BY <4>2, <1>5
    <3>3. a[k] <= P
      BY <1>3, <1>7, <1>11, <2>6
    <3>4. c[u - 1] = P
      <4>1. u - 1 \in Cells /\ u - 1 # k /\ u - 1 # i
        BY <1>2, <2>3
      <4> QED
        BY <4>1, <3>2, <1>3, <2>6
    <3>5. \A x \in l .. i - 1 : c[x] <= P
      <4> SUFFICES ASSUME NEW x \in l .. i - 1 PROVE c[x] <= P
        OBVIOUS
      <4>1. x \in Cells /\ x # i /\ x # k
        BY <1>2, <2>3
      <4> QED
        BY <4>1, <3>2, <1>3, <2>6
    <3>6. \A x \in k .. u : P <= c[x]
      <4> SUFFICES ASSUME NEW x \in k .. u PROVE P <= c[x]
        OBVIOUS
      <4>1. x = k \/ (x \in Cells /\ x # i /\ x # k /\ x \in j .. u)
        BY <1>2, <2>3
      <4>2. CASE x = k
        BY <4>2, <2>3, <3>2, <1>3, <2>6
      <4>3. CASE x \in Cells /\ x # i /\ x # k /\ x \in j .. u
        BY <4>3, <3>2, <1>3, <2>6
      <4> QED
        BY <4>1, <4>2, <4>3
    <3>7. c[i] <= P
      <4>1. c[i] = a[k]
        BY <2>3, <3>2
      <4> QED
        BY <4>1, <3>3
    <3>8. i <= u - 2
      BY <1>2, <2>3
    <3>9. Worked'
      BY <2>1, <2>3, <3>4, <3>5, <3>6, <3>7, <3>8 DEF Worked
    <3> QED
      BY <1>1, <1>2, <1>3, <2>1, <2>6, <3>1, <3>9, PartGoesOn
  <2> QED
    BY <1>2, <2>1, <2>4, <2>5, <2>6, SortGoesOn
<1> HIDE DEF k
<1> QED
  BY <1>6, <1>8, <1>9, <1>10, <1>11

LEMMA ReturnKeeps ==
  ASSUME TabInv, AuxsortReturns
  PROVE  TabInv'
<1>0. Active /\ (tl.pc = "return" \/ (tl.pc = "while" /\ tl.l >= tl.u))
  BY DEF AuxsortReturns, Active
<1>1. PICK l, u, a, s, n : l = tl.l /\ u = tl.u /\ a = tl.a /\ s = tl.todo /\ n = Len(tl.todo)
  OBVIOUS
<1>2. /\ Size \in Nat /\ DOMAIN tl = Fields /\ Bounds /\ 0 .. Size + 1 \subseteq Cells
      /\ Whole(a) /\ a \in [Cells -> Int] /\ (tl.call.order = "less" => InOrder)
      /\ l \in Nat /\ u \in Nat
  BY <1>0, <1>1, SortFacts DEF Whole
<1>3. /\ s \in Seq(PartEnds) /\ n \in Nat /\ Len(s) = n /\ DOMAIN s = 1 .. n
      /\ DOMAIN Parts = 1 .. n + 1 /\ Parts[n + 1] = <<l, u>>
      /\ \A m \in 1 .. n : Parts[m] = s[m] /\ s[m] \in PartEnds
  <2>1. /\ n \in Nat /\ Len(s) = n /\ s \in Seq(PartEnds)
        /\ DOMAIN Parts = 1 .. n + 1 /\ Parts[n + 1] = <<l, u>>
        /\ \A m \in 1 .. n : Parts[m] = s[m]
    BY <1>0, <1>1, PartsAre
  <2> QED
    BY <2>1, LenProperties, ElementOfSeq
\* Only the parts to do may still be out of order.
<1>4. ASSUME tl.call.order = "less", NEW x \in 1 .. Size, NEW y \in 1 .. Size, x < y, ~(a[x] <= a[y])
      PROVE  \E m \in 1 .. n : Within(x, s[m]) /\ Within(y, s[m])
  <2>1. Ranked(a) /\ Worked
    BY <1>1, <1>2, <1>4 DEF InOrder
  <2>2. PICK m \in DOMAIN Parts : Within(x, Parts[m]) /\ Within(y, Parts[m])
    BY <1>4, <2>1 DEF Ranked
  <2>3. ASSUME m = n + 1 PROVE FALSE
    <3>1. l <= x /\ x <= u /\ l <= y /\ y <= u
      BY <1>3, <2>2, <2>3 DEF Within
    <3>2. l < u
      BY <1>2, <1>4, <3>1
    <3>3. tl.pc = "return"
      BY <1>0, <1>1, <1>2, <3>2
    <3>4. x \in l .. u /\ y \in l .. u
      BY <1>2, <3>1
    <3> QED
      BY <1>1, <1>4, <2>1, <3>3, <3>4 DEF Worked
  <2>4. m \in 1 .. n
    BY <1>3, <2>3
  <2> QED
    BY <2>2, <2>4, <1>3
<1>5. CASE s = <<>>
  <2>1. tl' = [tl EXCEPT !.pc = "done"]
    BY <1>1, <1>5 DEF AuxsortReturns
  <2>2. /\ DOMAIN tl' = Fields /\ tl'.call = tl.call /\ tl'.a = a /\ tl'.l = l /\ tl'.u = u
        /\ tl'.todo = s /\ tl'.pc = "done"
    BY <1>1, <1>2, <2>1 DEF Fields
  <2>3. Size' = Size /\ PartEnds' = PartEnds
    BY <2>2 DEF Size, PartEnds
  <2>4. Bounds'
    BY <1>1, <1>2, <2>2, <2>3 DEF Bounds
  <2>5. ASSUME tl.call.order = "less" PROVE InOrder'
    <3>1. n = 0
      BY <1>3, <1>5, EmptySeq
    <3>2. Parts' = s
      BY <2>2 DEF Parts, Active
    <3>3. Ranked(tl.a)'
      BY <1>4, <2>2, <2>3, <2>5, <3>1 DEF Ranked
    <3>4. Filled(tl.a)'
      BY <1>1, <1>2, <2>2, <2>3, <2>5 DEF Filled, InOrder
    <3>5. Apart'
      BY <1>3, <3>1, <3>2 DEF Apart
    <3>6. Halving' /\ Worked'
      BY <1>3, <1>5, <2>2, <3>1 DEF Halving, Worked, Active
    <3> QED
      BY <1>5, <2>2, <3>3, <3>4, <3>5, <3>6 DEF InOrder
  <2> QED
    BY <1>0, <1>2, <2>2, <2>4, <2>5, SortGoesOn
<1>6. CASE s # <<>>
  <2>1. PICK t, e : t = Front(s) /\ e = s[n]
    OBVIOUS
  <2>2. tl' = [tl EXCEPT !.pc = "while", !.l = e[1], !.u = e[2], !.todo = t]
    <3>1. Last(tl.todo) = e /\ Front(tl.todo) = t
      BY <1>1, <2>1 DEF Last
    <3> QED
      BY <1>1, <1>2, <1>6, <3>1 DEF AuxsortReturns, Fields
  <2>3. n >= 1
    BY <1>3, <1>6, EmptySeq
  <2>4. e \in PartEnds /\ e = <<e[1], e[2]>> /\ e[1] \in 1 .. Size + 2 /\ e[2] \in 0 .. Size
    BY <1>3, <2>1, <2>3 DEF PartEnds
  <2>5. /\ t \in Seq(PartEnds) /\ Len(t) = n - 1 /\ DOMAIN t = 1 .. n - 1
        /\ \A m \in 1 .. n - 1 : t[m] = s[m]
    <3>1. t = SubSeq(s, 1, n - 1)
      BY <1>3, <2>1 DEF Front
    <3>2. \A m \in 1 .. n - 1 : s[m] \in PartEnds
      BY <1>3
    <3>3. 1 \in Int /\ n - 1 \in Int
      BY <1>3
    <3>4. /\ t \in Seq(PartEnds) /\ Len(t) = IF 1 <= n - 1 THEN n - 1 - 1 + 1 ELSE 0
          /\ \A m \in 1 .. n - 1 - 1 + 1 : t[m] = s[1 + m - 1]
      BY <3>1, <3>2, <3>3, SubSeqProperties
    <3>5. Len(t) = n - 1 /\ \A m \in 1 .. n - 1 : t[m] = s[m]
      BY <1>3, <2>3, <3>4
    <3> QED
      BY <3>4, <3>5, LenProperties
  <2>6. Append(t, e) = s
    <3>1. /\ Append(t, e) \in Seq(PartEnds) /\ Len(Append(t, e)) = n - 1 + 1
          /\ \A m \in 1 .. n - 1 : Append(t, e)[m] = t[m]
          /\ Append(t, e)[n - 1 + 1] = e
      BY <2>4, <2>5, AppendProperties
    <3>2. Len(Append(t, e)) = Len(s)
      BY <1>3, <3>1
    <3>3. ASSUME NEW m \in 1 .. Len(Append(t, e)) PROVE Append(t, e)[m] = s[m]
      <4>1. m \in 1 .. n - 1 \/ m = n
        BY <1>3, <3>2
      <4>2. CASE m \in 1 .. n - 1
        BY <4>2, <2>5, <3>1
      <4>3. CASE m = n
        BY <4>3, <1>3, <2>1, <3>1
      <4> QED
        BY <4>1, <4>2, <4>3
    <3> QED
      BY <1>3, <3>1, <3>2, <3>3, SeqEqual
  <2>7. /\ DOMAIN tl' = Fields /\ tl'.call = tl.call /\ tl'.a = a /\ tl'.l = e[1] /\ tl'.u = e[2]
        /\ tl'.todo = t /\ tl'.pc = "while"
    BY <1>1, <1>2, <2>2 DEF Fields
  <2>8. Size' = Size /\ PartEnds' = PartEnds
    BY <2>7 DEF Size, PartEnds
  <2>9. Bounds'
    BY <2>4, <2>5, <2>7, <2>8 DEF Bounds
  <2>10. ASSUME tl.call.order = "less" PROVE InOrder'
    <3>1. Parts' = s
      BY <2>4, <2>6, <2>7 DEF Parts, Active
    <3>2. Ranked(tl.a)'
      BY <1>3, <1>4, <2>7, <2>8, <2>10, <3>1 DEF Ranked
    <3>3. Filled(tl.a)'
      BY <1>1, <1>2, <2>7, <2>8, <2>10 DEF Filled, InOrder
    <3>4. Apart'
      <4>1. Apart
        BY <1>2, <2>10 DEF InOrder
      <4>2. \A m \in DOMAIN s : m \in DOMAIN Parts /\ Parts[m] = s[m]
        BY <1>3
      <4> QED
        BY <4>1, <4>2, <2>8, <3>1 DEF Apart
    <3>5. Halving'
      <4>1. Halving
        BY <1>2, <2>10 DEF InOrder
      <4>2. /\ \A m \in 1 .. n : 2 ^ (m - 1) * (s[m][2] - s[m][1] + 1) <= Size
            /\ 2 ^ n <= Size
        BY <4>1, <1>1, <1>3, <1>6 DEF Halving
      <4>3. 2 ^ (n - 1) * (e[2] - e[1] + 1) <= Size
        BY <4>2, <1>3, <2>1, <2>3
      <4>4. \A m \in DOMAIN t : 2 ^ (m - 1) * (t[m][2] - t[m][1] + 1) <= Size
        BY <4>2, <1>3, <2>5
      <4>5. 2 ^ (n - 1) <= Size
        <5>1. n - 1 \in Nat /\ n - 1 + 1 = n
          BY <1>3, <2>3
        <5>2. 2 ^ (n - 1) \in Nat /\ 2 ^ n = 2 * 2 ^ (n - 1)
          <6>1. PICK m \in Nat : m = n - 1
            BY <5>1
          <6>2. 2 ^ m \in Nat /\ 2 ^ (m + 1) = 2 * 2 ^ m
            BY PowerDoubles
          <6>3. m + 1 = n
            BY <5>1, <6>1
          <6> QED
            BY <6>1, <6>2, <6>3
        <5>3. PICK p : p = 2 ^ (n - 1)
          OBVIOUS
        <5>4. p \in Nat /\ 2 * p <= Size
          BY <4>2, <5>2, <5>3
        <5> QED
          BY <1>2, <5>3, <5>4
      <4> QED
        BY <4>3, <4>4, <4>5, <2>5, <2>7, <2>8 DEF Halving
    <3>6. Worked'
      BY <2>7 DEF Worked
    <3> QED
      BY <2>7, <3>2, <3>3, <3>4, <3>5, <3>6 DEF InOrder
  <2> QED
    BY <1>0, <1>2, <2>7, <2>9, <2>10, SortGoesOn
<1> QED
  BY <1>5, <1>6

-----------------------------------------------------------------------------
(* The calls                                                               *)

LEMMA CallKeeps ==
  ASSUME TabInv, CallTable
  PROVE  TabInv'
<1>1. PICK c \in TabCalls :
        tl' = [call |-> c, pc |-> "called", a |-> CellsOf(c.list), l |-> 0, u |-> 0, i |-> 0, j |-> 0,
               pivot |-> NONE, todo |-> <<>>, out |-> <<>>]
  BY DEF CallTable
<1>2. /\ DOMAIN tl' = Fields /\ tl'.call = c /\ tl'.pc = "called" /\ tl'.a = CellsOf(c.list)
      /\ tl'.todo = <<>>
  BY <1>1 DEF Fields
<1> QED
  BY <1>1, <1>2 DEF TabInv, Active, Sorting

\* What is called, and has not begun.
LEMMA CalledFacts ==
  ASSUME TabInv, NEW fn, Calls(fn)
  PROVE  /\ DOMAIN tl = Fields /\ tl.call \in TabCalls /\ tl.call.fn = fn
         /\ tl.call.list \in Seq(Int) /\ Size = Len(tl.call.list) /\ DOMAIN tl.call.list = 1 .. Size
         /\ Size \in Nat /\ TableCells \in Nat /\ Size < TableCells
         /\ tl.a = CellsOf(tl.call.list) /\ tl.a \in [Cells -> Int] /\ tl.todo = <<>>
         /\ \A k \in Cells : tl.a[k] = IF k \in 1 .. Size THEN tl.call.list[k] ELSE NONE
<1>1. /\ DOMAIN tl = Fields /\ tl.call \in TabCalls /\ tl.call.fn = fn
      /\ tl.a = CellsOf(tl.call.list) /\ tl.todo = <<>>
  BY DEF TabInv, Calls
<1> QED
  BY <1>1, TabConstants DEF Size

LEMMA OthersKeep ==
  ASSUME TabInv, tinsert \/ tremove \/ tconcat
  PROVE  TabInv'
<1>1. PICK fn \in {"insert", "remove", "concat"} : Calls(fn)
  BY DEF tinsert, tremove, tconcat
<1>2. DOMAIN tl = Fields /\ tl.call \in TabCalls /\ tl.call.fn # "sort"
  BY <1>1, CalledFacts
<1>3. DOMAIN tl' = Fields /\ tl'.call = tl.call /\ tl'.pc \in {"done", "failed"}
  <2>1. CASE tinsert
    BY <2>1, <1>2 DEF tinsert, Fields
  <2>2. CASE tremove
    BY <2>2, <1>2 DEF tremove, Fields
  <2>3. CASE tconcat
    BY <2>3, <1>2 DEF tconcat, Fields
  <2> QED
    BY <2>1, <2>2, <2>3
<1> QED
  BY <1>2, <1>3 DEF TabInv, Active, Sorting

LEMMA SortBegins ==
  ASSUME TabInv, sort
  PROVE  TabInv'
<1>0. Calls("sort")
  BY DEF sort
<1>1. PICK list, a : list = tl.call.list /\ a = tl.a
  OBVIOUS
<1>2. /\ DOMAIN tl = Fields /\ tl.call \in TabCalls /\ tl.call.fn = "sort"
      /\ Size = Len(list) /\ DOMAIN list = 1 .. Size
      /\ Size \in Nat /\ TableCells \in Nat /\ Size < TableCells
      /\ a = CellsOf(list) /\ a \in [Cells -> Int] /\ tl.todo = <<>>
      /\ \A k \in Cells : a[k] = IF k \in 1 .. Size THEN list[k] ELSE NONE
  BY <1>0, <1>1, CalledFacts
<1>3. /\ DOMAIN tl' = Fields /\ tl'.call = tl.call /\ tl'.a = a /\ tl'.l = 1 /\ tl'.u = Size
      /\ tl'.todo = <<>> /\ tl'.pc = "while"
  BY <1>1, <1>2 DEF sort, Fields
<1>4. Size' = Size /\ PartEnds' = PartEnds
  BY <1>3 DEF Size, PartEnds
<1>5. \A k \in Size + 2 .. TableCells : a[k] = NONE
  <2> SUFFICES ASSUME NEW k \in Size + 2 .. TableCells PROVE a[k] = NONE
    OBVIOUS
  <2>1. k \in Cells /\ k \notin 1 .. Size
    BY <1>2 DEF Cells
  <2> QED
    BY <2>1, <1>2
<1>6. Whole(tl.a)'
  BY <1>1, <1>2, <1>3, <1>4, <1>5 DEF Whole
<1>7. Bounds'
  <2>1. <<>> \in Seq(PartEnds)
    BY EmptySeq
  <2>2. 1 \in 1 .. Size + 2 /\ Size \in 0 .. Size
    BY <1>2
  <2> QED
    BY <2>1, <2>2, <1>3, <1>4 DEF Bounds
<1>8. ASSUME tl.call.order = "less" PROVE InOrder'
  <2>1. NONE \notin ToSet(list)
    BY <1>1, <1>2, <1>8, TabAssumption
  <2>2. \A k \in 1 .. Size : list[k] # NONE
    BY <2>1, <1>2 DEF ToSet
  <2>3. Filled(tl.a)'
    BY <2>2, <1>2, <1>3, <1>4 DEF Filled
  <2>4. Parts' = <<<<1, Size>>>>
    BY <1>3 DEF Parts, Active
  <2>5. DOMAIN Parts' = {1} /\ Parts'[1] = <<1, Size>>
    BY <2>4
  <2>6. Apart'
    BY <2>5 DEF Apart
  <2>7. \A x \in 1 .. Size : Within(x, Parts'[1])
    BY <2>5, <1>2 DEF Within
  <2>8. Ranked(tl.a)'
    BY <2>5, <2>7, <1>4 DEF Ranked, Within
  <2>9. Worked'
    BY <1>3 DEF Worked
  <2>10. Halving'
    <3>1. Len(<<>>) = 0 /\ DOMAIN <<>> = {}
      BY EmptySeq
    <3>2. 2 ^ 0 * (Size - 1 + 1) <= Size
      BY <1>2, PowerZero
    <3> QED
      BY <3>1, <3>2, <1>3, <1>4 DEF Halving
  <2> QED
    BY <2>3, <2>6, <2>8, <2>9, <2>10, <1>3 DEF InOrder
<1> QED
  BY <1>2, <1>3, <1>6, <1>7, <1>8 DEF TabInv, Active, Sorting

LEMMA TabBegins ==
  ASSUME TabInit
  PROVE  TabInv
<1>1. tl.pc = "idle" /\ tl.call.fn = "none"
  BY DEF TabInit
<1> QED
  BY <1>1 DEF TabInv, Sorting

LEMMA TabKeeps ==
  ASSUME TabInv, [TabNext]_tabVars
  PROVE  TabInv'
<1>1. CASE TabNext
  BY <1>1, CallKeeps, OthersKeep, SortBegins, ReturnKeeps, EndsKeep, LowKeeps, HighKeeps, UpKeeps,
     DownKeeps DEF TabNext
<1>2. CASE UNCHANGED tabVars
  <2>1. tl' = tl
    BY <1>2 DEF tabVars
  <2>2. Size' = Size /\ PartEnds' = PartEnds /\ Parts' = Parts /\ (Active' <=> Active)
    BY <2>1 DEF Size, PartEnds, Parts, Active
  <2>3. (Bounds' <=> Bounds) /\ (Whole(tl.a)' <=> Whole(tl.a)) /\ (Sorting' <=> Sorting)
    BY <2>1, <2>2 DEF Bounds, Whole, Sorting
  <2>4. InOrder' <=> InOrder
    BY <2>1, <2>2 DEF InOrder, Filled, Apart, Ranked, Worked, Halving, Middle
  <2> QED
    BY <2>1, <2>2, <2>3, <2>4 DEF TabInv
<1> QED
  BY <1>1, <1>2

-----------------------------------------------------------------------------
(* What the calls promise                                                  *)

LEMMA SortingIsRight ==
  ASSUME TabInv
  PROVE  SortIsRight
<1> SUFFICES ASSUME tl.call.fn = "sort"
             PROVE  /\ NothingLost
                    /\ tl.call.order = "less" => /\ tl.pc # "failed" /\ PivotBetween /\ Shallow
                                                 /\ tl.pc = "done" => Nondecreasing(tl.a, 1, Size)
  BY DEF SortIsRight
<1>0. tl.pc # "idle"
  BY DEF TabInv
<1>1. CASE tl.pc = "called"
  <2>1. Calls("sort")
    BY <1>1 DEF Calls
  <2>2. /\ tl.a = CellsOf(tl.call.list) /\ tl.todo = <<>> /\ Size \in Nat /\ TableCells \in Nat
        /\ \A k \in Cells : tl.a[k] = IF k \in 1 .. Size THEN tl.call.list[k] ELSE NONE
    BY <2>1, CalledFacts
  <2>3. \A k \in Size + 2 .. TableCells : k \in Cells /\ k \notin 1 .. Size
    BY <2>2 DEF Cells
  <2>4. NothingLost
    BY <2>2, <2>3 DEF NothingLost
  <2> QED
    BY <1>1, <2>2, <2>4 DEF PivotBetween, Shallow
<1>2. CASE tl.pc # "called"
  <2>1. Bounds /\ Whole(tl.a) /\ (tl.call.order = "less" => InOrder)
    BY <1>0, <1>2 DEF TabInv, Sorting
  <2>2. NothingLost
    BY <2>1 DEF NothingLost, Whole
  <2>3. Size \in Nat
    BY <1>0, TabConstants DEF TabInv, Size
  <2>4. ASSUME tl.call.order = "less"
        PROVE  /\ tl.pc # "failed" /\ PivotBetween /\ Shallow
               /\ tl.pc = "done" => Nondecreasing(tl.a, 1, Size)
    <3>1. tl.pc # "failed" /\ (tl.pc = "done" => tl.todo = <<>>) /\ Ranked(tl.a) /\ Worked /\ Halving
      BY <2>1, <2>4 DEF InOrder
    <3>2. PivotBetween
      <4>1. CASE tl.pc = "up"
        <5>1. \A k \in tl.l .. tl.i : k \in tl.l .. tl.i - 1 \/ k = tl.i
          BY <4>1, <2>1, <2>3 DEF Bounds
        <5>2. tl.i <= tl.u /\ tl.j >= tl.l
          BY <4>1, <2>1, <2>3 DEF Bounds
        <5>3. /\ \A k \in tl.l .. tl.i - 1 : tl.a[k] <= tl.pivot
              /\ \A k \in tl.j .. tl.u : tl.pivot <= tl.a[k]
              /\ tl.a[tl.i] <= tl.pivot
          BY <4>1, <3>1 DEF Worked
        <5>4. \A k \in tl.l .. tl.i : tl.a[k] <= tl.pivot
          BY <5>1, <5>3
        <5>5. tl.i - 0 = tl.i
          BY <4>1, <2>1, <2>3 DEF Bounds
        <5> QED
          BY <4>1, <5>2, <5>3, <5>4, <5>5 DEF PivotBetween
      <4>2. CASE tl.pc = "down"
        <5>1. /\ \A k \in tl.l .. tl.i - 1 : tl.a[k] <= tl.pivot
              /\ \A k \in tl.j .. tl.u : tl.pivot <= tl.a[k]
              /\ tl.i <= tl.u - 1
          BY <4>2, <3>1 DEF Worked
        <5>2. tl.i <= tl.u /\ tl.j >= tl.l
          BY <4>2, <5>1, <2>1, <2>3 DEF Bounds
        <5> QED
          BY <4>2, <5>1, <5>2 DEF PivotBetween
      <4> QED
        BY <4>1, <4>2 DEF PivotBetween
    <3>3. Shallow
      BY <3>1 DEF Shallow, Halving
    <3>4. ASSUME tl.pc = "done" PROVE Nondecreasing(tl.a, 1, Size)
      <4>1. DOMAIN Parts = {}
        BY <3>1, <3>4, EmptySeq DEF Parts, Active
      <4>2. \A x, y \in 1 .. Size : x < y => tl.a[x] <= tl.a[y]
        BY <3>1, <4>1 DEF Ranked
      <4>3. ASSUME NEW k \in 1 .. Size - 1 PROVE tl.a[k] <= tl.a[k + 1]
        <5>1. k \in 1 .. Size /\ k + 1 \in 1 .. Size /\ k < k + 1
          BY <2>3
        <5> QED
          BY <4>2, <5>1
      <4> QED
        BY <4>3 DEF Nondecreasing
    <3> QED
      BY <3>1, <3>2, <3>3, <3>4
  <2> QED
    BY <2>2, <2>4
<1> QED
  BY <1>1, <1>2

\* A step of sort answers no other call.
LEMMA SortStays ==
  ASSUME TabInv,
         \/ AuxsortReturns \/ EndsCompared \/ LowCompared \/ HighCompared \/ ScanUp \/ ScanDown
  PROVE  tl'.call = tl.call /\ tl.call.fn = "sort"
<1>1. Active
  BY DEF Active, AuxsortReturns, EndsCompared, LowCompared, HighCompared, ScanUp, ScanDown
<1>2. DOMAIN tl = Fields /\ tl.call.fn = "sort"
  BY <1>1, SortFacts
<1>3. ASSUME NEW x, NEW y, NEW yes, NEW no, Asked(x, y, yes, no),
             yes.call = tl.call, no.call = tl.call
      PROVE  tl'.call = tl.call
  <2>1. tl' = yes \/ tl' = no \/ tl' = [tl EXCEPT !.pc = "failed"]
    BY <1>3, AnswerIs
  <2> QED
    BY <2>1, <1>2, <1>3 DEF Fields
<1>4. \A a : Partitioned(a).call = tl.call
  BY <1>2 DEF Partitioned, Fields
<1>5. CASE AuxsortReturns
  BY <1>5, <1>2 DEF AuxsortReturns, Fields
<1>6. CASE EndsCompared
  <2> DEFINE to == [tl EXCEPT !.pc = IF tl.u - tl.l = 1 THEN "return" ELSE "low"]
             yes == [to EXCEPT !.a = set2(@, tl.l, tl.u)]
  <2>1. Asked(tl.a[tl.u], tl.a[tl.l], yes, to)
    BY <1>6 DEF EndsCompared
  <2>2. to.call = tl.call /\ yes.call = tl.call
    BY <1>2 DEF Fields
  <2> HIDE DEF to, yes
  <2> QED
    BY <2>1, <2>2, <1>3, <1>2
<1>7. CASE LowCompared
  <2> DEFINE yes == Partitioned(set2(tl.a, Middle, tl.l))
             no  == [tl EXCEPT !.pc = "high"]
  <2>1. Asked(tl.a[Middle], tl.a[tl.l], yes, no)
    BY <1>7 DEF LowCompared
  <2>2. yes.call = tl.call /\ no.call = tl.call
    BY <1>2, <1>4 DEF Fields
  <2> HIDE DEF yes, no
  <2> QED
    BY <2>1, <2>2, <1>3, <1>2
<1>8. CASE HighCompared
  <2> DEFINE yes == Partitioned(set2(tl.a, Middle, tl.u))
             no  == Partitioned(tl.a)
  <2>1. Asked(tl.a[tl.u], tl.a[Middle], yes, no)
    BY <1>8 DEF HighCompared
  <2>2. yes.call = tl.call /\ no.call = tl.call
    BY <1>4
  <2> HIDE DEF yes, no
  <2> QED
    BY <2>1, <2>2, <1>3, <1>2
<1>9. CASE ScanUp
  <2> DEFINE i   == tl.i + 1
             yes == [tl EXCEPT !.pc = IF i > tl.u THEN "failed" ELSE "up", !.i = i]
             no  == [tl EXCEPT !.pc = "down", !.i = i]
  <2>1. Asked(tl.a[i], tl.pivot, yes, no)
    BY <1>9 DEF ScanUp
  <2>2. yes.call = tl.call /\ no.call = tl.call
    BY <1>2 DEF Fields
  <2> HIDE DEF yes, no
  <2> QED
    BY <2>1, <2>2, <1>3, <1>2
<1>10. CASE ScanDown
  <2> DEFINE j == tl.j - 1
             halves == Halves(tl, tl.i)
             parted == [tl EXCEPT !.pc = "while", !.j = j, !.a = set2(@, tl.u - 1, tl.i),
                          !.l = halves.next[1], !.u = halves.next[2], !.todo = Append(@, halves.todo)]
             yes == [tl EXCEPT !.pc = IF j < tl.l THEN "failed" ELSE "down", !.j = j]
             no  == IF j < tl.i THEN parted ELSE [tl EXCEPT !.pc = "up", !.j = j, !.a = set2(@, tl.i, j)]
  <2>1. Asked(tl.pivot, tl.a[j], yes, no)
    BY <1>10 DEF ScanDown
  <2>2. yes.call = tl.call /\ no.call = tl.call
    <3> HIDE DEF j, halves
    <3> QED
      BY <1>2 DEF Fields
  <2> HIDE DEF yes, no
  <2> QED
    BY <2>1, <2>2, <1>3, <1>2
<1> QED
  BY <1>2, <1>5, <1>6, <1>7, <1>8, <1>9, <1>10

LEMMA CellsAre ==
  ASSUME NEW S, NEW s \in Seq(S), NEW a, a = [k \in Cells |-> a[k]],
         \A k \in Cells : a[k] = IF k \in 1 .. Len(s) THEN s[k] ELSE NONE
  PROVE  a = CellsOf(s)
<1>1. DOMAIN s = 1 .. Len(s)
  BY LenProperties
<1>2. CellsOf(s) = [k \in Cells |-> IF k \in 1 .. Len(s) THEN s[k] ELSE NONE]
  BY <1>1 DEF CellsOf, Cells
<1> HIDE DEF Cells
<1> QED
  BY <1>2

LEMMA InsertIs ==
  ASSUME NEW S, NEW s \in Seq(S), NEW v \in S, NEW pos \in 1 .. Len(s) + 1
  PROVE  /\ InsertAt(s, pos, v) \in Seq(S) /\ Len(InsertAt(s, pos, v)) = Len(s) + 1
         /\ \A k \in 1 .. Len(s) + 1 :
              InsertAt(s, pos, v)[k] = IF k < pos THEN s[k] ELSE IF k = pos THEN v ELSE s[k - 1]
<1> DEFINE n == Len(s)
           b == SubSeq(s, 1, pos - 1)
           c == SubSeq(s, pos, n)
           d == b \o <<v>>
<1>1. n \in Nat /\ pos \in Int /\ \A k \in 1 .. n : s[k] \in S
  BY LenProperties, ElementOfSeq
<1>2. /\ b \in Seq(S) /\ Len(b) = pos - 1 /\ \A k \in 1 .. pos - 1 : b[k] = s[k]
  <2>1. \A k \in 1 .. pos - 1 : s[k] \in S
    BY <1>1
  <2>2. 1 \in Int /\ pos - 1 \in Int
    BY <1>1
  <2>3. /\ b \in Seq(S) /\ Len(b) = IF 1 <= pos - 1 THEN pos - 1 - 1 + 1 ELSE 0
        /\ \A k \in 1 .. pos - 1 - 1 + 1 : b[k] = s[1 + k - 1]
    BY <2>1, <2>2, SubSeqProperties
  <2> HIDE DEF b
  <2> QED
    BY <2>3, <1>1
<1>3. /\ c \in Seq(S) /\ Len(c) = n - pos + 1 /\ \A k \in 1 .. n - pos + 1 : c[k] = s[pos + k - 1]
  <2>1. \A k \in pos .. n : s[k] \in S
    BY <1>1
  <2>2. pos \in Int /\ n \in Int
    BY <1>1
  <2>3. /\ c \in Seq(S) /\ Len(c) = IF pos <= n THEN n - pos + 1 ELSE 0
        /\ \A k \in 1 .. n - pos + 1 : c[k] = s[pos + k - 1]
    BY <2>1, <2>2, SubSeqProperties
  <2> HIDE DEF c
  <2> QED
    BY <2>3, <1>1
<1>4. <<v>> \in Seq(S) /\ Len(<<v>>) = 1 /\ <<v>>[1] = v
  OBVIOUS
<1> HIDE DEF b, c, d
<1>5. /\ d \in Seq(S) /\ Len(d) = pos
      /\ \A k \in 1 .. pos : d[k] = IF k < pos THEN s[k] ELSE v
  <2>1. /\ d \in Seq(S) /\ Len(d) = Len(b) + Len(<<v>>)
        /\ \A k \in 1 .. Len(b) + Len(<<v>>) : d[k] = IF k <= Len(b) THEN b[k] ELSE <<v>>[k - Len(b)]
    BY <1>2, <1>4, ConcatProperties DEF d
  <2>2. Len(d) = pos
    BY <2>1, <1>1, <1>2, <1>4
  <2>3. ASSUME NEW k \in 1 .. pos PROVE d[k] = IF k < pos THEN s[k] ELSE v
    <3>1. d[k] = IF k <= pos - 1 THEN b[k] ELSE <<v>>[k - (pos - 1)]
      BY <2>1, <1>1, <1>2, <1>4
    <3>2. k < pos => k \in 1 .. pos - 1
      BY <1>1
    <3>3. ~(k < pos) => k - (pos - 1) = 1 /\ ~(k <= pos - 1)
      BY <1>1
    <3>4. k < pos => d[k] = s[k]
      BY <3>1, <3>2, <1>2
    <3>5. ~(k < pos) => d[k] = v
      BY <3>1, <3>3, <1>4
    <3> QED
      BY <3>4, <3>5
  <2> QED
    BY <2>1, <2>2, <2>3
<1>6. InsertAt(s, pos, v) = d \o c
  BY DEF InsertAt, b, c, d
<1>7. /\ d \o c \in Seq(S) /\ Len(d \o c) = Len(d) + Len(c)
      /\ \A k \in 1 .. Len(d) + Len(c) : (d \o c)[k] = IF k <= Len(d) THEN d[k] ELSE c[k - Len(d)]
  BY <1>3, <1>5, ConcatProperties
<1>8. Len(d) + Len(c) = n + 1
  BY <1>1, <1>3, <1>5
<1>9. ASSUME NEW k \in 1 .. n + 1
      PROVE  (d \o c)[k] = IF k < pos THEN s[k] ELSE IF k = pos THEN v ELSE s[k - 1]
  <2>1. (d \o c)[k] = IF k <= pos THEN d[k] ELSE c[k - pos]
    BY <1>5, <1>7, <1>8
  <2>2. CASE k <= pos
    <3>1. k \in 1 .. pos
      BY <1>1, <2>2
    <3> QED
      BY <2>1, <2>2, <3>1, <1>5
  <2>3. CASE ~(k <= pos)
    <3>1. k - pos \in 1 .. n - pos + 1 /\ pos + (k - pos) - 1 = k - 1 /\ ~(k < pos) /\ k # pos
      BY <1>1, <2>3
    <3> QED
      BY <2>1, <2>3, <3>1, <1>3
  <2> QED
    BY <2>2, <2>3
<1> QED
  BY <1>6, <1>7, <1>8, <1>9

(* What stands at place k of the list with v inserted at pos. *)
InsertedAt(s, pos, v, k) == IF k < pos THEN s[k] ELSE IF k = pos THEN v ELSE s[k - 1]

LEMMA InsertPlaces ==
  ASSUME NEW S, NEW s \in Seq(S), NEW v \in S, NEW pos \in 1 .. Len(s) + 1, NEW k \in 1 .. Len(s) + 1
  PROVE  InsertAt(s, pos, v)[k] = InsertedAt(s, pos, v, k)
<1>1. \A i \in 1 .. Len(s) + 1 : InsertAt(s, pos, v)[i] = IF i < pos THEN s[i] ELSE IF i = pos THEN v ELSE s[i - 1]
  BY InsertIs
<1> QED
  BY <1>1 DEF InsertedAt

LEMMA RemoveIs ==
  ASSUME NEW S, NEW s \in Seq(S), NEW pos \in 1 .. Len(s)
  PROVE  /\ RemoveAt(s, pos) \in Seq(S) /\ Len(RemoveAt(s, pos)) = Len(s) - 1
         /\ \A k \in 1 .. Len(s) - 1 : RemoveAt(s, pos)[k] = IF k < pos THEN s[k] ELSE s[k + 1]
<1> DEFINE n == Len(s)
           b == SubSeq(s, 1, pos - 1)
           c == SubSeq(s, pos + 1, n)
<1>1. n \in Nat /\ pos \in Int /\ \A k \in 1 .. n : s[k] \in S
  BY LenProperties, ElementOfSeq
<1>2. /\ b \in Seq(S) /\ Len(b) = pos - 1 /\ \A k \in 1 .. pos - 1 : b[k] = s[k]
  <2>1. \A k \in 1 .. pos - 1 : s[k] \in S
    BY <1>1
  <2>2. 1 \in Int /\ pos - 1 \in Int
    BY <1>1
  <2>3. /\ b \in Seq(S) /\ Len(b) = IF 1 <= pos - 1 THEN pos - 1 - 1 + 1 ELSE 0
        /\ \A k \in 1 .. pos - 1 - 1 + 1 : b[k] = s[1 + k - 1]
    BY <2>1, <2>2, SubSeqProperties
  <2> HIDE DEF b
  <2> QED
    BY <2>3, <1>1
<1>3. /\ c \in Seq(S) /\ Len(c) = n - pos /\ \A k \in 1 .. n - pos : c[k] = s[pos + k]
  <2>1. \A k \in pos + 1 .. n : s[k] \in S
    BY <1>1
  <2>2. pos + 1 \in Int /\ n \in Int
    BY <1>1
  <2>3. /\ c \in Seq(S) /\ Len(c) = IF pos + 1 <= n THEN n - (pos + 1) + 1 ELSE 0
        /\ \A k \in 1 .. n - (pos + 1) + 1 : c[k] = s[pos + 1 + k - 1]
    BY <2>1, <2>2, SubSeqProperties
  <2> HIDE DEF c
  <2> QED
    BY <2>3, <1>1
<1> HIDE DEF b, c
<1>4. RemoveAt(s, pos) = b \o c
  BY DEF RemoveAt, b, c
<1>5. /\ b \o c \in Seq(S) /\ Len(b \o c) = Len(b) + Len(c)
      /\ \A k \in 1 .. Len(b) + Len(c) : (b \o c)[k] = IF k <= Len(b) THEN b[k] ELSE c[k - Len(b)]
  BY <1>2, <1>3, ConcatProperties
<1>6. Len(b) + Len(c) = n - 1
  BY <1>1, <1>2, <1>3
<1>7. ASSUME NEW k \in 1 .. n - 1
      PROVE  (b \o c)[k] = IF k < pos THEN s[k] ELSE s[k + 1]
  <2>1. (b \o c)[k] = IF k <= pos - 1 THEN b[k] ELSE c[k - (pos - 1)]
    BY <1>2, <1>5, <1>6
  <2>2. CASE k < pos
    <3>1. k \in 1 .. pos - 1 /\ k <= pos - 1
      BY <1>1, <2>2
    <3> QED
      BY <2>1, <2>2, <3>1, <1>2
  <2>3. CASE ~(k < pos)
    <3>1. k - (pos - 1) \in 1 .. n - pos /\ pos + (k - (pos - 1)) = k + 1 /\ ~(k <= pos - 1)
      BY <1>1, <2>3
    <3> QED
      BY <2>1, <2>3, <3>1, <1>3
  <2> QED
    BY <2>2, <2>3
<1> QED
  BY <1>4, <1>5, <1>6, <1>7

LEMMA InsertKept ==
  ASSUME TabInv, tinsert, tl.call.pos \in 1 .. Size + 1
  PROVE  tl'.a = CellsOf(InsertAt(tl.call.list, tl.call.pos, tl.call.v))
<1>1. PICK list, a, pos, v : list = tl.call.list /\ a = tl.a /\ pos = tl.call.pos /\ v = tl.call.v
  OBVIOUS
<1>2. PICK n : n = Size
  OBVIOUS
<1>3. /\ DOMAIN tl = Fields /\ list \in Seq(Int) /\ n = Len(list) /\ n \in Nat
      /\ TableCells \in Nat /\ n < TableCells /\ pos \in 1 .. n + 1 /\ a \in [Cells -> Int]
      /\ \A k \in Cells : a[k] = IF k \in 1 .. n THEN list[k] ELSE NONE
  <2>1. Calls("insert")
    BY DEF tinsert
  <2> QED
    BY <2>1, <1>1, <1>2, CalledFacts
<1>4. PICK b : b = [k \in Cells |-> IF k = pos THEN v
                                   ELSE IF pos < k /\ k <= n + 1 THEN a[k - 1] ELSE a[k]]
  OBVIOUS
<1>5. tl'.a = b
  <2>1. Max({n + 1, pos}) = n + 1
    <3> SUFFICES ASSUME NEW e, e = Max({n + 1, pos}) PROVE e = n + 1
      OBVIOUS
    <3>1. \E x \in {n + 1, pos} : \A y \in {n + 1, pos} : x >= y
      <4>1. n + 1 >= n + 1 /\ n + 1 >= pos
        BY <1>3
      <4> QED
        BY <4>1
    <3>2. e \in {n + 1, pos} /\ \A y \in {n + 1, pos} : e >= y
      BY <3>1 DEF Max
    <3> QED
      BY <3>2, <1>3
  <2>2. DOMAIN tl.a = Cells
    BY <1>1, <1>3
  <2>3. tl'.a = [k \in DOMAIN tl.a |-> IF k = pos THEN v
                                      ELSE IF pos < k /\ k <= n + 1 THEN tl.a[k - 1] ELSE tl.a[k]]
    BY <1>1, <1>2, <1>3, <2>1 DEF tinsert, Fields
  <2> QED
    BY <2>2, <2>3, <1>1, <1>4
<1>6. PICK s : s = InsertAt(list, pos, v)
  OBVIOUS
<1>7. /\ s \in Seq(Int \cup {v}) /\ Len(s) = n + 1
      /\ \A k \in 1 .. n + 1 : s[k] = IF k < pos THEN list[k] ELSE IF k = pos THEN v ELSE list[k - 1]
  <2>1. PICK S : S = Int \cup {v}
    OBVIOUS
  <2>2. list \in Seq(S) /\ v \in S /\ pos \in 1 .. Len(list) + 1
    BY <2>1, <1>3, SeqMonotonic
  <2>3. list \in Seq(S)
    BY ONLY <2>2
  <2>4. v \in S
    BY ONLY <2>2
  <2>5. pos \in 1 .. Len(list) + 1
    BY ONLY <2>2
  <2>6. InsertAt(list, pos, v) \in Seq(S)
    BY ONLY <2>3, <2>4, <2>5, InsertIs
  <2>7. Len(InsertAt(list, pos, v)) = Len(list) + 1
    BY ONLY <2>3, <2>4, <2>5, InsertIs
  <2>8. \A k \in 1 .. Len(list) + 1 :
           InsertAt(list, pos, v)[k] = IF k < pos THEN list[k] ELSE IF k = pos THEN v ELSE list[k - 1]
    <3>1. \A k \in 1 .. Len(list) + 1 : InsertAt(list, pos, v)[k] = InsertedAt(list, pos, v, k)
      BY ONLY <2>3, <2>4, <2>5, InsertPlaces
    <3> QED
      BY <3>1 DEF InsertedAt
  <2> QED
    BY <2>1, <2>6, <2>7, <2>8, <1>3, <1>6
<1>8. ASSUME NEW k \in Cells PROVE b[k] = IF k \in 1 .. Len(s) THEN s[k] ELSE NONE
  <2>1. b[k] = IF k = pos THEN v ELSE IF pos < k /\ k <= n + 1 THEN a[k - 1] ELSE a[k]
    BY <1>4
  <2>2. k \in Int /\ k >= 0
    BY <1>3 DEF Cells
  <2>3. CASE k = pos
    <3>1. k \in 1 .. Len(s) /\ s[k] = v
      BY <2>3, <1>3, <1>7
    <3> QED
      BY <2>1, <2>3, <3>1
  <2>4. CASE pos < k /\ k <= n + 1
    <3>1. k \in 1 .. n + 1 /\ k - 1 \in 1 .. n /\ k - 1 \in Cells /\ ~(k < pos) /\ k # pos
      BY <2>2, <2>4, <1>3 DEF Cells
    <3>2. s[k] = list[k - 1] /\ a[k - 1] = list[k - 1]
      BY <3>1, <1>3, <1>7
    <3> QED
      BY <2>1, <2>4, <3>1, <3>2, <1>7
  <2>5. CASE k # pos /\ ~(pos < k /\ k <= n + 1) /\ k \in 1 .. n
    <3>1. k \in 1 .. n + 1 /\ k < pos
      BY <2>5, <1>3
    <3>2. s[k] = list[k] /\ a[k] = list[k]
      BY <2>5, <3>1, <1>3, <1>7
    <3> QED
      BY <2>1, <2>5, <3>1, <3>2, <1>7
  <2>6. CASE k # pos /\ ~(pos < k /\ k <= n + 1) /\ k \notin 1 .. n
    <3>1. k \notin 1 .. n + 1
      BY <2>2, <2>6, <1>3
    <3> QED
      BY <2>1, <2>6, <3>1, <1>3, <1>7
  <2> QED
    BY <2>3, <2>4, <2>5, <2>6
<1>9. b = CellsOf(s)
  <2>1. b = [k \in Cells |-> b[k]]
    BY <1>4
  <2> QED
    BY <2>1, <1>7, <1>8, CellsAre
<1> QED
  BY <1>1, <1>5, <1>6, <1>9

LEMMA RemoveKept ==
  ASSUME TabInv, tremove, tl.call.pos \in 1 .. Size
  PROVE  /\ tl'.out = <<tl.call.list[tl.call.pos]>>
         /\ tl'.a = CellsOf(RemoveAt(tl.call.list, tl.call.pos))
<1>1. PICK list, a, pos : list = tl.call.list /\ a = tl.a /\ pos = tl.call.pos
  OBVIOUS
<1>2. PICK n : n = Size
  OBVIOUS
<1>3. /\ DOMAIN tl = Fields /\ list \in Seq(Int) /\ n = Len(list) /\ n \in Nat
      /\ TableCells \in Nat /\ n < TableCells /\ pos \in 1 .. n /\ a \in [Cells -> Int]
      /\ \A k \in Cells : a[k] = IF k \in 1 .. n THEN list[k] ELSE NONE
  <2>1. Calls("remove")
    BY DEF tremove
  <2> QED
    BY <2>1, <1>1, <1>2, CalledFacts
<1>4. PICK b : b = [k \in Cells |-> IF k = n THEN NONE
                                   ELSE IF pos <= k /\ k < n THEN a[k + 1] ELSE a[k]]
  OBVIOUS
<1>5. tl'.a = b /\ tl'.out = <<a[pos]>>
  <2>1. DOMAIN tl.a = Cells /\ n # 0
    BY <1>1, <1>3
  <2>2. /\ tl'.a = [k \in DOMAIN tl.a |-> IF k = n THEN NONE
                                         ELSE IF pos <= k /\ k < n THEN tl.a[k + 1] ELSE tl.a[k]]
        /\ tl'.out = <<tl.a[pos]>>
    BY <1>1, <1>2, <1>3, <2>1 DEF tremove, Fields
  <2> QED
    BY <2>1, <2>2, <1>1, <1>4
<1>6. a[pos] = list[pos]
  <2>1. pos \in Cells
    BY <1>3 DEF Cells
  <2> QED
    BY <2>1, <1>3
<1>7. PICK s : s = RemoveAt(list, pos)
  OBVIOUS
<1>8. /\ s \in Seq(Int) /\ Len(s) = n - 1
      /\ \A k \in 1 .. n - 1 : s[k] = IF k < pos THEN list[k] ELSE list[k + 1]
  BY <1>3, <1>7, RemoveIs
<1>9. ASSUME NEW k \in Cells PROVE b[k] = IF k \in 1 .. Len(s) THEN s[k] ELSE NONE
  <2>1. b[k] = IF k = n THEN NONE ELSE IF pos <= k /\ k < n THEN a[k + 1] ELSE a[k]
    BY <1>4
  <2>2. k \in Int /\ k >= 0
    BY <1>3 DEF Cells
  <2>3. CASE k = n
    <3>1. k \notin 1 .. n - 1
      BY <2>3, <1>3
    <3> QED
      BY <2>1, <2>3, <3>1, <1>8
  <2>4. CASE pos <= k /\ k < n
    <3>1. k \in 1 .. n - 1 /\ k + 1 \in 1 .. n /\ k + 1 \in Cells /\ ~(k < pos) /\ k # n
      BY <2>2, <2>4, <1>3 DEF Cells
    <3>2. s[k] = list[k + 1] /\ a[k + 1] = list[k + 1]
      BY <3>1, <1>3, <1>8
    <3> QED
      BY <2>1, <2>4, <3>1, <3>2, <1>8
  <2>5. CASE k # n /\ ~(pos <= k /\ k < n) /\ k \in 1 .. n
    <3>1. k \in 1 .. n - 1 /\ k < pos
      BY <2>5, <1>3
    <3>2. s[k] = list[k] /\ a[k] = list[k]
      BY <2>5, <3>1, <1>3, <1>8
    <3> QED
      BY <2>1, <2>5, <3>1, <3>2, <1>8
  <2>6. CASE k # n /\ ~(pos <= k /\ k < n) /\ k \notin 1 .. n
    <3>1. k \notin 1 .. n - 1
      BY <2>2, <2>6, <1>3
    <3> QED
      BY <2>1, <2>6, <3>1, <1>3, <1>8
  <2> QED
    BY <2>3, <2>4, <2>5, <2>6
<1>10. b = CellsOf(s)
  <2>1. b = [k \in Cells |-> b[k]]
    BY <1>4
  <2> QED
    BY <2>1, <1>8, <1>9, CellsAre
<1> QED
  BY <1>1, <1>5, <1>6, <1>7, <1>10

LEMMA ConcatKept ==
  ASSUME TabInv, tconcat, tl'.pc = "done"
  PROVE  /\ [k \in 1 .. (Len(tl'.out) + 1) \div 2 |-> tl'.out[2 * k - 1]]
              = SubSeq(tl.call.list, tl.call.pos, tl.call.v)
         /\ \A k \in 1 .. Len(tl'.out) \div 2 : tl'.out[2 * k] = SEP
<1>1. PICK list, a, from, v : list = tl.call.list /\ a = tl.a /\ from = tl.call.pos /\ v = tl.call.v
  OBVIOUS
<1>2. PICK n : n = Size
  OBVIOUS
<1>3. /\ DOMAIN tl = Fields /\ list \in Seq(Int) /\ n = Len(list) /\ n \in Nat
      /\ TableCells \in Nat /\ from \in 0 .. TableCells /\ v \in 0 .. TableCells
      /\ \A k \in Cells : a[k] = IF k \in 1 .. n THEN list[k] ELSE NONE
  <2>1. Calls("concat")
    BY DEF tconcat
  <2>2. {from, v} \subseteq 0 .. TableCells
    BY <2>1, <1>1, CalledFacts, TabAssumption
  <2> QED
    BY <2>1, <2>2, <1>1, <1>2, CalledFacts
<1>4. PICK parts : parts = [k \in 1 .. v - from + 1 |-> a[from + k - 1]]
  OBVIOUS
<1>5. PICK out : out = Separated(parts)
  OBVIOUS
<1>6. NONE \notin ToSet(parts) /\ tl'.out = out
  <2>1. tl' = IF NONE \in ToSet(parts) THEN [tl EXCEPT !.pc = "failed"]
              ELSE [tl EXCEPT !.pc = "done", !.out = out]
    BY <1>1, <1>4, <1>5 DEF tconcat
  <2>2. NONE \notin ToSet(parts)
    BY <2>1, <1>3 DEF Fields
  <2> QED
    BY <2>1, <2>2, <1>3 DEF Fields
<1>7. PICK m : m = IF from <= v THEN v - from + 1 ELSE 0
  OBVIOUS
<1>8. m \in Nat /\ 1 .. v - from + 1 = 1 .. m
  BY <1>3, <1>7
<1>9. ASSUME NEW k \in 1 .. m PROVE a[from + k - 1] = list[from + k - 1] /\ list[from + k - 1] \in Int
  <2>1. a[from + k - 1] # NONE
    BY <1>4, <1>6, <1>8 DEF ToSet
  <2>2. from + k - 1 \in Cells
    BY <1>3, <1>7, <1>8 DEF Cells
  <2>3. from + k - 1 \in 1 .. n
    BY <2>1, <2>2, <1>3
  <2> QED
    BY <2>2, <2>3, <1>3, ElementOfSeq
<1>10. /\ parts \in Seq(Int) /\ Len(parts) = m
       /\ \A k \in 1 .. m : parts[k] = list[from + k - 1] /\ parts[k] \in Int
  <2>1. parts = [k \in 1 .. m |-> a[from + k - 1]]
    BY <1>4, <1>8
  <2>2. \A k \in 1 .. m : parts[k] = list[from + k - 1] /\ parts[k] \in Int
    BY <2>1, <1>9
  <2>3. parts \in [1 .. m -> Int]
    BY <2>1, <2>2
  <2>4. parts \in Seq(Int)
    BY <2>3, <1>8, SeqDef
  <2>5. Len(parts) = m
    BY <2>3, <2>4, <1>8, LenProperties
  <2> QED
    BY <2>2, <2>4, <2>5
<1>11. PICK s : s = SubSeq(list, from, v)
  OBVIOUS
<1>12. s = parts
  <2>1. \A k \in from .. v : list[k] \in Int
    <3> SUFFICES ASSUME NEW k \in from .. v PROVE list[k] \in Int
      OBVIOUS
    <3>1. k - from + 1 \in 1 .. m /\ from + (k - from + 1) - 1 = k
      BY <1>3, <1>7
    <3> QED
      BY <3>1, <1>9
  <2>2. from \in Int /\ v \in Int
    BY <1>3
  <2>3. /\ s \in Seq(Int) /\ Len(s) = m
        /\ \A k \in 1 .. m : s[k] = list[from + k - 1]
    BY <2>1, <2>2, <1>7, <1>8, <1>11, SubSeqProperties
  <2> QED
    BY <2>3, <1>10, SeqEqual
<1>13. /\ out = [k \in 1 .. 2 * m - 1 |-> IF k % 2 = 1 THEN parts[(k + 1) \div 2] ELSE SEP]
       /\ Len(out) = IF m = 0 THEN 0 ELSE 2 * m - 1
  <2>1. out = [k \in 1 .. 2 * m - 1 |-> IF k % 2 = 1 THEN parts[(k + 1) \div 2] ELSE SEP]
    BY <1>5, <1>10 DEF Separated
  <2>2. PICK e : e = IF m = 0 THEN 0 ELSE 2 * m - 1
    OBVIOUS
  <2>3. e \in Nat /\ 1 .. 2 * m - 1 = 1 .. e
    BY <2>2, <1>8
  <2>4. ASSUME NEW k \in 1 .. e PROVE out[k] \in Int
    <3>1. out[k] = IF k % 2 = 1 THEN parts[(k + 1) \div 2] ELSE SEP
      BY <2>1, <2>3
    <3>2. k \in Nat /\ k >= 1 /\ k <= 2 * m - 1
      BY <2>3, <1>8
    <3>3. k % 2 = 1 => (k + 1) \div 2 \in 1 .. m
      BY <3>2, <1>8
    <3> QED
      BY <3>1, <3>3, <1>10 DEF SEP
  <2>5. out \in [1 .. e -> Int]
    BY <2>1, <2>3, <2>4
  <2>6. out \in Seq(Int)
    BY <2>3, <2>5, SeqDef
  <2>7. Len(out) = e
    BY <2>3, <2>5, <2>6, LenProperties
  <2> QED
    BY <2>1, <2>2, <2>7
<1>14. (Len(out) + 1) \div 2 = m /\ Len(out) \div 2 = IF m = 0 THEN 0 ELSE m - 1
  <2>1. CASE m = 0
    <3>1. Len(out) = 0
      BY <2>1, <1>13
    <3> QED
      BY <2>1, <3>1
  <2>2. CASE m # 0
    <3>1. Len(out) = 2 * m - 1
      BY <2>2, <1>13
    <3>2. (2 * m - 1 + 1) \div 2 = m /\ (2 * m - 1) \div 2 = m - 1
      BY <2>2, <1>8
    <3> QED
      BY <2>2, <3>1, <3>2
  <2> QED
    BY <2>1, <2>2
<1>15. [k \in 1 .. (Len(out) + 1) \div 2 |-> out[2 * k - 1]] = s
  <2>1. ASSUME NEW k \in 1 .. m PROVE out[2 * k - 1] = parts[k]
    <3>1. 2 * k - 1 \in 1 .. 2 * m - 1 /\ (2 * k - 1) % 2 = 1 /\ (2 * k - 1 + 1) \div 2 = k
      BY <1>8
    <3> QED
      BY <3>1, <1>13
  <2>2. parts = [k \in 1 .. m |-> parts[k]]
    BY <1>10, LenProperties
  <2> QED
    BY <2>1, <2>2, <1>12, <1>14
<1>16. \A k \in 1 .. Len(out) \div 2 : out[2 * k] = SEP
  <2> SUFFICES ASSUME NEW k \in 1 .. Len(out) \div 2 PROVE out[2 * k] = SEP
    OBVIOUS
  <2>1. 2 * k \in 1 .. 2 * m - 1 /\ (2 * k) % 2 = 0
    BY <1>8, <1>14
  <2> QED
    BY <2>1, <1>13
<1> QED
  BY <1>1, <1>6, <1>11, <1>15, <1>16

LEMMA PositionsStay ==
  ASSUME TabInv, PositionsKept, [TabNext]_tabVars
  PROVE  PositionsKept'
<1>1. CASE CallTable \/ sort
  <2>1. tl'.pc \in {"called", "while"}
    <3>1. CASE CallTable
      BY <3>1 DEF CallTable
    <3>2. CASE sort
      BY <3>2, CalledFacts DEF sort, Fields
    <3> QED
      BY <1>1, <3>1, <3>2
  <2> QED
    BY <2>1 DEF PositionsKept
<1>2. CASE tinsert
  <2>1. DOMAIN tl = Fields /\ tl.call.fn = "insert"
    BY <1>2, CalledFacts DEF tinsert
  <2>2. tl'.call = tl.call
    BY <1>2, <2>1 DEF tinsert, Fields
  <2>3. tl.call.pos \in 1 .. Size + 1
          => tl'.a = CellsOf(InsertAt(tl.call.list, tl.call.pos, tl.call.v))
    BY <1>2, InsertKept
  <2>4. Size' = Size
    BY <2>2 DEF Size
  <2> QED
    BY <2>1, <2>2, <2>3, <2>4 DEF PositionsKept
<1>3. CASE tremove
  <2>1. DOMAIN tl = Fields /\ tl.call.fn = "remove"
    BY <1>3, CalledFacts DEF tremove
  <2>2. tl'.call = tl.call
    BY <1>3, <2>1 DEF tremove, Fields
  <2>3. tl.call.pos \in 1 .. Size
          => /\ tl'.out = <<tl.call.list[tl.call.pos]>>
             /\ tl'.a = CellsOf(RemoveAt(tl.call.list, tl.call.pos))
    BY <1>3, RemoveKept
  <2>4. Size' = Size
    BY <2>2 DEF Size
  <2> QED
    BY <2>1, <2>2, <2>3, <2>4 DEF PositionsKept
<1>4. CASE tconcat
  <2>1. DOMAIN tl = Fields /\ tl.call.fn = "concat"
    BY <1>4, CalledFacts DEF tconcat
  <2>2. tl'.call = tl.call
    BY <1>4, <2>1 DEF tconcat, Fields
  <2>3. tl'.pc = "done"
          => /\ [k \in 1 .. (Len(tl'.out) + 1) \div 2 |-> tl'.out[2 * k - 1]]
                  = SubSeq(tl.call.list, tl.call.pos, tl.call.v)
             /\ \A k \in 1 .. Len(tl'.out) \div 2 : tl'.out[2 * k] = SEP
    BY <1>4, ConcatKept
  <2> QED
    BY <2>1, <2>2, <2>3 DEF PositionsKept
<1>5. CASE AuxsortReturns \/ EndsCompared \/ LowCompared \/ HighCompared \/ ScanUp \/ ScanDown
  <2>1. tl'.call = tl.call /\ tl.call.fn = "sort"
    BY <1>5, SortStays
  <2> QED
    BY <2>1 DEF PositionsKept
<1>6. CASE UNCHANGED tabVars
  <2>1. tl' = tl
    BY <1>6 DEF tabVars
  <2>2. Size' = Size
    BY <2>1 DEF Size
  <2> QED
    BY <2>1, <2>2 DEF PositionsKept
<1> QED
  BY <1>1, <1>2, <1>3, <1>4, <1>5, <1>6 DEF TabNext

(* sort sorts with an order, and with a function that is none it only       *)
(* rearranges the list or fails; its calls nest no deeper than the          *)
(* logarithm of the size; and insert, remove and concat keep the rest of    *)
(* the list in its order: whatever the lists, the positions and the answers *)
(* (auxsort, sort, tinsert, tremove and tconcat of ltablib.c).              *)
THEOREM SortIsSorted == TabSpec => []TableLibraryRight
<1>1. TabInit => TabInv /\ PositionsKept
  <2>1. TabInit => TabInv
    BY TabBegins
  <2>2. TabInit => PositionsKept
    BY DEF TabInit, PositionsKept
  <2> QED
    BY <2>1, <2>2
<1>2. TabInv /\ PositionsKept /\ [TabNext]_tabVars => (TabInv /\ PositionsKept)'
  BY TabKeeps, PositionsStay
<1>3. TabInv /\ PositionsKept => TableLibraryRight
  BY SortingIsRight DEF TableLibraryRight
<1> QED
  BY <1>1, <1>2, <1>3, PTL DEF TabSpec

-----------------------------------------------------------------------------
(* Chains                                                                  *)

\* The nodes 1 .. N and the node that follows each, 0 for none.
LinksOf(N) == [1 .. N -> 0 .. N]
Closed(nx, S) == \A i \in S : nx[i] # 0 => nx[i] \in S
Reach(nx, i, j) == \A S \in SUBSET DOMAIN nx : i \in S /\ Closed(nx, S) => j \in S
OneToOne(nx) == \A i, j \in DOMAIN nx : nx[i] = nx[j] /\ nx[i] # 0 => i = j
Acyclic(nx) == \A S \in SUBSET DOMAIN nx : S # {} => \E i \in S : nx[i] \notin S
\* The nodes U are in use, each in the chain of its main position h[i], which
\* is in use by a key that belongs there.
Woven(U, h, nx) ==
  /\ \A i \in DOMAIN nx \ U : nx[i] = 0 /\ \A j \in DOMAIN nx : nx[j] # i
  /\ OneToOne(nx) /\ Acyclic(nx)
  /\ \A i \in U : h[i] \in U /\ h[h[i]] = h[i] /\ Reach(nx, h[i], i)

LEMMA ReachSelf ==
  ASSUME NEW nx, NEW i \in DOMAIN nx
  PROVE  Reach(nx, i, i)
BY DEF Reach

LEMMA ReachTrans ==
  ASSUME NEW nx, NEW i, NEW j, NEW k, Reach(nx, i, j), Reach(nx, j, k)
  PROVE  Reach(nx, i, k)
BY DEF Reach

LEMMA ReachStep ==
  ASSUME NEW nx, NEW i, NEW j, Reach(nx, i, j), nx[j] # 0
  PROVE  Reach(nx, i, nx[j])
BY DEF Reach, Closed

LEMMA ReachPast ==
  ASSUME NEW N \in Nat, NEW nx \in LinksOf(N), NEW i \in 1 .. N, NEW j, Reach(nx, i, j), i # j
  PROVE  nx[i] # 0 /\ Reach(nx, nx[i], j)
<1>1. nx[i] # 0
  <2> SUFFICES ASSUME nx[i] = 0 PROVE FALSE
    OBVIOUS
  <2>1. {i} \in SUBSET DOMAIN nx /\ Closed(nx, {i})
    BY DEF LinksOf, Closed
  <2> QED
    BY <2>1 DEF Reach
<1>2. ASSUME NEW S \in SUBSET DOMAIN nx, nx[i] \in S, Closed(nx, S) PROVE j \in S
  <2>1. S \cup {i} \in SUBSET DOMAIN nx /\ Closed(nx, S \cup {i})
    BY <1>2 DEF LinksOf, Closed
  <2> QED
    BY <2>1 DEF Reach
<1> QED
  BY <1>1, <1>2 DEF Reach

LEMMA ReachIn ==
  ASSUME NEW nx, NEW i \in DOMAIN nx, NEW j, NEW N \in Nat, nx \in LinksOf(N), Reach(nx, i, j)
  PROVE  j \in DOMAIN nx
<1>1. Closed(nx, DOMAIN nx)
  BY DEF Closed, LinksOf
<1> QED
  BY <1>1 DEF Reach

LEMMA NoCycle ==
  ASSUME NEW N \in Nat, NEW nx \in LinksOf(N), Acyclic(nx),
         NEW i \in 1 .. N, NEW j \in 1 .. N, Reach(nx, i, j), Reach(nx, j, i)
  PROVE  i = j
<1> SUFFICES ASSUME i # j PROVE FALSE
  OBVIOUS
<1>1. PICK S : S = {x \in 1 .. N : Reach(nx, i, x) /\ Reach(nx, x, i)}
  OBVIOUS
<1>2. DOMAIN nx = 1 .. N
  BY DEF LinksOf
<1>3. i \in S
  BY <1>1, <1>2, ReachSelf
<1>4. ASSUME NEW x \in S PROVE nx[x] \in S
  <2>1. x \in 1 .. N /\ Reach(nx, i, x) /\ Reach(nx, x, i)
    BY <1>1
  <2>2. nx[x] # 0 /\ Reach(nx, nx[x], i)
    <3>1. CASE x = i
      <4>1. nx[i] # 0 /\ Reach(nx, nx[i], j)
        BY ReachPast
      <4> QED
        BY <4>1, <3>1, ReachTrans
    <3>2. CASE x # i
      BY <3>2, <2>1, ReachPast
    <3> QED
      BY <3>1, <3>2
  <2>3. Reach(nx, i, nx[x])
    BY <2>1, <2>2, ReachStep
  <2>4. nx[x] \in 1 .. N
    BY <2>1, <2>2 DEF LinksOf
  <2> QED
    BY <1>1, <2>2, <2>3, <2>4
<1>5. S \in SUBSET DOMAIN nx /\ S # {}
  BY <1>1, <1>2, <1>3
<1> QED
  BY <1>4, <1>5 DEF Acyclic

-----------------------------------------------------------------------------
(* Numbers and repetitions                                                  *)

\* A set of natural numbers has a smallest element.
LEMMA LeastOf ==
  ASSUME NEW T, T \subseteq Nat, T # {}
  PROVE  Min(T) \in T /\ \A n \in T : Min(T) <= n
<1> DEFINE R == OpToRel(<, Nat)
<1>1. R = {ss \in Nat \X Nat : ss[1] < ss[2]}
  BY DEF OpToRel
<1>2. IsWellFoundedOn(R, Nat)
  BY NatLessThanWellFounded
<1> HIDE DEF R
<1>3. PICK m \in T : \A n \in T : ~(<<n, m>> \in R)
  BY <1>2, WFMin
<1>4. \A n \in T : m <= n
  <2> SUFFICES ASSUME NEW n \in T PROVE m <= n
    OBVIOUS
  <2>1. m \in Nat /\ n \in Nat /\ ~(<<n, m>> \in R)
    BY <1>3
  <2>2. ~(n < m)
    BY <2>1, <1>1
  <2> QED
    BY <2>1, <2>2
<1> QED
  BY <1>3, <1>4 DEF Min

\* What the first member of a family has, and each passes on, the last has.
LEMMA PassedOn ==
  ASSUME NEW k \in Nat, NEW m, NEW T,
         m[0] \in T[0], \A i \in 1 .. k : m[i - 1] \in T[i - 1] => m[i] \in T[i]
  PROVE  \A i \in 0 .. k : m[i] \in T[i]
<1> DEFINE Bad == {i \in 0 .. k : m[i] \notin T[i]}
<1> SUFFICES ASSUME Bad # {} PROVE FALSE
  OBVIOUS
<1>1. Bad \subseteq Nat
  OBVIOUS
<1>2. Min(Bad) \in Bad /\ \A i \in Bad : Min(Bad) <= i
  <2> HIDE DEF Bad
  <2> QED
    BY <1>1, LeastOf
<1>3. PICK i : i = Min(Bad)
  OBVIOUS
<1>4. i \in 0 .. k /\ m[i] \notin T[i] /\ \A j \in Bad : i <= j
  BY <1>2, <1>3
<1> HIDE DEF Bad
<1>5. i # 0
  BY <1>4
<1>6. i \in 1 .. k /\ i - 1 \in 0 .. k /\ ~(i <= i - 1)
  BY <1>4, <1>5
<1>7. m[i - 1] \in T[i - 1]
  BY <1>4, <1>6 DEF Bad
<1> QED
  BY <1>4, <1>6, <1>7

\* A repetition whose steps stay within a family of sets exists: Step[i] is
\* the i-th step.
StepsWithin(k, T, Step) == \A i \in 1 .. k : \A x \in T[i - 1] : Step[i][x] \in T[i]
Repeats(k, T, Step, s, m) ==
  /\ m = [i \in 0 .. k |-> IF i = 0 THEN s ELSE Step[i][m[i - 1]]]
  /\ \A i \in 0 .. k : m[i] \in T[i]
LEMMA Repeated ==
  ASSUME NEW k \in Nat, NEW T, NEW Step, NEW s, s \in T[0], StepsWithin(k, T, Step)
  PROVE  \E m : Repeats(k, T, Step, s, m)
<1> DEFINE Upto(m, j) == m = [i \in 0 .. j |-> IF i = 0 THEN s ELSE Step[i][m[i - 1]]]
           Bad == {j \in 0 .. k : ~\E m : Upto(m, j)}
<1>1. \A j \in 0 .. k : \E m : Upto(m, j)
  <2> SUFFICES ASSUME Bad # {} PROVE FALSE
    OBVIOUS
  <2>1. Bad \subseteq Nat
    OBVIOUS
  <2>2. Min(Bad) \in Bad /\ \A i \in Bad : Min(Bad) <= i
    <3> HIDE DEF Bad
    <3> QED
      BY <2>1, LeastOf
  <2>3. PICK j : j = Min(Bad)
    OBVIOUS
  <2>4. j \in 0 .. k /\ (~\E m : Upto(m, j)) /\ \A i \in Bad : j <= i
    BY <2>2, <2>3
  <2>5. j # 0
    <3>1. Upto([i \in {0} |-> s], 0)
      BY SMT
    <3> QED
      BY <3>1, <2>4
  <2>6. j \in 1 .. k /\ j - 1 \in 0 .. k /\ ~(j <= j - 1)
    BY <2>4, <2>5
  <2>7. PICK m : Upto(m, j - 1)
    BY <2>4, <2>6
  <2> DEFINE w == [i \in 0 .. j |-> IF i = j THEN Step[j][m[j - 1]] ELSE m[i]]
  <2>8. \A i \in 0 .. j : w[i] = IF i = 0 THEN s ELSE Step[i][w[i - 1]]
    <3> SUFFICES ASSUME NEW i \in 0 .. j PROVE w[i] = IF i = 0 THEN s ELSE Step[i][w[i - 1]]
      OBVIOUS
    <3>1. CASE i = 0
      BY <3>1, <2>6, <2>7
    <3>2. CASE i # 0 /\ i # j
      <4>1. i \in 0 .. j - 1 /\ i - 1 \in 0 .. j /\ i - 1 # j /\ i # j
        BY <3>2, <2>6
      <4>2. w[i] = m[i] /\ w[i - 1] = m[i - 1]
        BY <4>1
      <4>3. m[i] = Step[i][m[i - 1]]
        BY <2>7, <4>1, <3>2
      <4> QED
        BY <4>2, <4>3, <3>2
    <3>3. CASE i = j
      <4>1. j - 1 \in 0 .. j /\ j - 1 # j /\ j \in 0 .. j
        BY <2>6
      <4>2. w[j - 1] = m[j - 1] /\ w[j] = Step[j][m[j - 1]]
        BY <4>1
      <4> QED
        BY <3>3, <4>2, <2>5
    <3> QED
      BY <3>1, <3>2, <3>3
  <2>9. Upto(w, j)
    BY <2>8
  <2> QED
    BY <2>9, <2>4
<1>2. PICK m : Upto(m, k)
  <2>1. k \in 0 .. k
    OBVIOUS
  <2> HIDE DEF Upto
  <2> QED
    BY <1>1, <2>1
<1>3. m[0] = s /\ \A i \in 1 .. k : m[i] = Step[i][m[i - 1]]
  BY <1>2
<1>4. \A i \in 1 .. k : m[i - 1] \in T[i - 1] => m[i] \in T[i]
  BY <1>3 DEF StepsWithin
<1>5. \A i \in 0 .. k : m[i] \in T[i]
  <2> HIDE DEF Upto
  <2> QED
    BY <1>3, <1>4, PassedOn
<1> QED
  BY <1>2, <1>5 DEF Repeats

-----------------------------------------------------------------------------
(* Walking a chain                                                         *)

\* c is the chain of links nx from node s on.
Walk(N, nx, s, c) ==
  /\ c = [k \in 0 .. N - 1 |-> IF k = 0 THEN s ELSE IF c[k - 1] \in 1 .. N THEN nx[c[k - 1]] ELSE 0]
  /\ \A k \in 0 .. N - 1 : c[k] \in 0 .. N

LEMMA WalkExists ==
  ASSUME NEW N \in Nat, N # 0, NEW nx \in LinksOf(N), NEW s \in 1 .. N
  PROVE  \E c : Walk(N, nx, s, c)
<1> DEFINE T == [k \in 0 .. N - 1 |-> 0 .. N]
           After == [x \in 0 .. N |-> IF x \in 1 .. N THEN nx[x] ELSE 0]
           Step == [k \in 1 .. N - 1 |-> After]
<1>1. N - 1 \in Nat /\ 0 \in 0 .. N - 1
  OBVIOUS
<1>2. s \in T[0]
  BY <1>1
<1>3. StepsWithin(N - 1, T, Step)
  <2>1. \A x \in 0 .. N : After[x] \in 0 .. N
    BY DEF LinksOf
  <2>2. \A k \in 1 .. N - 1 : k - 1 \in 0 .. N - 1 /\ k \in 0 .. N - 1
    OBVIOUS
  <2> HIDE DEF After
  <2> QED
    BY <2>1, <2>2 DEF StepsWithin
<1>4. PICK m : Repeats(N - 1, T, Step, s, m)
  <2> HIDE DEF T, Step
  <2> QED
    BY <1>1, <1>2, <1>3, Repeated
<1>5. \A k \in 0 .. N - 1 : m[k] \in 0 .. N
  BY <1>4 DEF Repeats
<1>6. \A k \in 0 .. N - 1 : k # 0 => k \in 1 .. N - 1 /\ k - 1 \in 0 .. N - 1
  OBVIOUS
<1>7. \A k \in 1 .. N - 1 : Step[k][m[k - 1]] = IF m[k - 1] \in 1 .. N THEN nx[m[k - 1]] ELSE 0
  BY <1>5, <1>6
<1>8. m = [k \in 0 .. N - 1 |-> IF k = 0 THEN s ELSE Step[k][m[k - 1]]]
  BY <1>4 DEF Repeats
<1> HIDE DEF Step, T
<1> QED
  BY <1>5, <1>6, <1>7, <1>8 DEF Walk

LEMMA WalkGoesOn ==
  ASSUME NEW N \in Nat, N # 0, NEW nx \in LinksOf(N), NEW s \in 1 .. N, NEW c, Walk(N, nx, s, c)
  PROVE  /\ c[0] = s
         /\ \A k \in 1 .. N - 1 : c[k] = IF c[k - 1] = 0 THEN 0 ELSE nx[c[k - 1]]
<1>1. 0 \in 0 .. N - 1
  OBVIOUS
<1>2. \A k \in 1 .. N - 1 : k \in 0 .. N - 1 /\ k # 0 /\ k - 1 \in 0 .. N - 1
  OBVIOUS
<1>3. \A k \in 0 .. N - 1 : c[k] = IF k = 0 THEN s ELSE IF c[k - 1] \in 1 .. N THEN nx[c[k - 1]] ELSE 0
  BY DEF Walk
<1>4. \A k \in 1 .. N - 1 : c[k - 1] \in 1 .. N <=> c[k - 1] # 0
  <2>1. \A k \in 0 .. N - 1 : c[k] \in 0 .. N
    BY DEF Walk
  <2>2. \A x \in 0 .. N : x \in 1 .. N <=> x # 0
    OBVIOUS
  <2> QED
    BY <1>2, <2>1, <2>2
<1>5. \A k \in 1 .. N - 1 : c[k] = IF c[k - 1] \in 1 .. N THEN nx[c[k - 1]] ELSE 0
  BY <1>2, <1>3
<1> QED
  BY <1>1, <1>3, <1>4, <1>5

LEMMA WalkReaches ==
  ASSUME NEW N \in Nat, N # 0, NEW nx \in LinksOf(N), NEW s \in 1 .. N, NEW c, Walk(N, nx, s, c),
         NEW a \in 0 .. N - 1, NEW b \in 0 .. N - 1, a <= b, c[b] # 0
  PROVE  c[a] # 0 /\ Reach(nx, c[a], c[b])
<1>1. c[b] \in 1 .. N /\ DOMAIN nx = 1 .. N
  BY DEF Walk, LinksOf
\* Backwards from b.
<1> DEFINE ok == {k \in 0 .. N - 1 : c[k] # 0 /\ Reach(nx, c[k], c[b])}
           T == [i \in 0 .. b - a |-> ok]
           m == [i \in 0 .. b - a |-> b - i]
<1>2. b - a \in Nat /\ 0 \in 0 .. b - a /\ b \in ok
  BY <1>1, ReachSelf
<1>3. ASSUME NEW k \in 1 .. N - 1, k \in ok PROVE k - 1 \in ok
  <2>1. k - 1 \in 0 .. N - 1
    OBVIOUS
  <2>2. c[k] = IF c[k - 1] = 0 THEN 0 ELSE nx[c[k - 1]]
    BY WalkGoesOn
  <2>3. c[k - 1] # 0 /\ c[k] = nx[c[k - 1]] /\ c[k] # 0 /\ Reach(nx, c[k], c[b])
    BY <1>3, <2>2
  <2>4. c[k - 1] \in DOMAIN nx
    BY <2>1, <2>3, <1>1 DEF Walk
  <2>5. Reach(nx, c[k - 1], c[k])
    BY <2>3, <2>4, ReachSelf, ReachStep
  <2> QED
    BY <2>1, <2>3, <2>5, ReachTrans
<1>4. m[0] \in T[0]
  BY <1>2
<1>5. ASSUME NEW i \in 1 .. b - a, m[i - 1] \in T[i - 1] PROVE m[i] \in T[i]
  <2>1. i - 1 \in 0 .. b - a /\ i \in 0 .. b - a /\ b - (i - 1) \in 1 .. N - 1 /\ b - (i - 1) - 1 = b - i
    BY <1>2
  <2>2. b - (i - 1) \in ok
    BY <1>5, <2>1
  <2>3. b - i \in ok
    <3> HIDE DEF ok
    <3> QED
      BY <1>3, <2>1, <2>2
  <2> QED
    BY <2>1, <2>3
<1>6. \A i \in 0 .. b - a : m[i] \in T[i]
  <2> HIDE DEF m, T
  <2> QED
    BY <1>2, <1>4, <1>5, PassedOn
<1>7. b - a \in 0 .. b - a /\ b - (b - a) = a
  BY <1>2
<1>8. a \in ok
  BY <1>6, <1>7
<1> QED
  BY <1>8

LEMMA WalkOnce ==
  ASSUME NEW N \in Nat, N # 0, NEW nx \in LinksOf(N), Acyclic(nx), NEW s \in 1 .. N, NEW c, Walk(N, nx, s, c),
         NEW a \in 0 .. N - 1, NEW b \in 0 .. N - 1, c[b] # 0, c[a] = c[b]
  PROVE  a = b
<1>1. ASSUME NEW d \in 0 .. N - 1, NEW e \in 0 .. N - 1, d < e, c[e] # 0, c[d] = c[e] PROVE FALSE
  <2>1. d + 1 \in 1 .. N - 1 /\ d + 1 \in 0 .. N - 1 /\ d + 1 <= e /\ (d + 1) - 1 = d
    BY <1>1
  <2>2. c[d] \in 1 .. N /\ DOMAIN nx = 1 .. N
    BY <1>1 DEF Walk, LinksOf
  <2>3. c[d + 1] # 0 /\ Reach(nx, c[d + 1], c[e])
    BY <1>1, <2>1, WalkReaches
  <2>4. c[d + 1] = IF c[(d + 1) - 1] = 0 THEN 0 ELSE nx[c[(d + 1) - 1]]
    BY <2>1, WalkGoesOn
  <2>5. c[d + 1] = nx[c[d]]
    BY <2>1, <2>2, <2>4
  <2>6. nx[c[d]] \in 1 .. N /\ Reach(nx, c[d], nx[c[d]]) /\ Reach(nx, nx[c[d]], c[d])
    <3>1. nx[c[d]] # 0 /\ Reach(nx, nx[c[d]], c[d])
      BY <1>1, <2>3, <2>5
    <3>2. nx[c[d]] \in 1 .. N
      BY <2>2, <3>1 DEF LinksOf
    <3>3. Reach(nx, c[d], c[d])
      BY <2>2, ReachSelf
    <3> QED
      BY <3>1, <3>2, <3>3, ReachStep
  <2>7. nx[c[d]] = c[d]
    BY <2>2, <2>6, NoCycle
  <2>8. {c[d]} \in SUBSET DOMAIN nx /\ {c[d]} # {}
    BY <2>2
  <2> QED
    BY <2>7, <2>8 DEF Acyclic
<1>2. a < b \/ b < a \/ a = b
  OBVIOUS
<1> QED
  BY <1>1, <1>2

\* A chain has all that its first node reaches.
LEMMA WalkCovers ==
  ASSUME NEW N \in Nat, N # 0, NEW nx \in LinksOf(N), Acyclic(nx), NEW s \in 1 .. N, NEW c, Walk(N, nx, s, c),
         NEW j \in 1 .. N, Reach(nx, s, j)
  PROVE  \E k \in 0 .. N - 1 : c[k] = j
<1>1. PICK V : V = {x \in 1 .. N : \E k \in 0 .. N - 1 : c[k] = x}
  OBVIOUS
<1>2. N - 1 \in 0 .. N - 1 /\ 0 \in 0 .. N - 1 /\ DOMAIN nx = 1 .. N
  BY DEF LinksOf
<1>3. CASE c[N - 1] = 0
  <2>1. Closed(nx, V)
    <3> SUFFICES ASSUME NEW x \in V, nx[x] # 0 PROVE nx[x] \in V
      BY DEF Closed
    <3>1. PICK k \in 0 .. N - 1 : c[k] = x
      BY <1>1
    <3>2. x \in 1 .. N /\ nx[x] \in 1 .. N
      BY <1>1 DEF LinksOf
    <3>3. k # N - 1
      BY <1>3, <3>1, <3>2
    <3>4. k + 1 \in 1 .. N - 1 /\ (k + 1) - 1 = k /\ k + 1 \in 0 .. N - 1
      BY <3>3
    <3>5. c[k + 1] = nx[x]
      BY <3>1, <3>2, <3>4, WalkGoesOn
    <3> QED
      BY <1>1, <3>2, <3>4, <3>5
  <2>2. s \in V /\ V \in SUBSET DOMAIN nx
    BY <1>1, <1>2, WalkGoesOn
  <2> QED
    BY <1>1, <2>1, <2>2 DEF Reach
<1>4. CASE c[N - 1] # 0
  <2>1. \A k \in 0 .. N - 1 : c[k] # 0
    <3> SUFFICES ASSUME NEW k \in 0 .. N - 1 PROVE c[k] # 0
      OBVIOUS
    <3>1. k <= N - 1
      OBVIOUS
    <3> QED
      BY <1>2, <1>4, <3>1, WalkReaches
  <2>2. c \in Injection(0 .. N - 1, 1 .. N)
    <3>1. c \in [0 .. N - 1 -> 1 .. N]
      BY <2>1 DEF Walk
    <3>2. \A a, b \in 0 .. N - 1 : c[a] = c[b] => a = b
      BY <2>1, WalkOnce
    <3> QED
      BY <3>1, <3>2 DEF Injection, IsInjective
  <2>3. IsFiniteSet(1 .. N) /\ Cardinality(0 .. N - 1) = N /\ Cardinality(1 .. N) = N
    BY FS_Interval
  <2>4. c \in Surjection(0 .. N - 1, 1 .. N)
    BY <2>2, <2>3, FS_Injection
  <2> QED
    BY <2>4 DEF Surjection
<1> QED
  BY <1>3, <1>4

\* What a node of the chain reaches comes after it.
LEMMA WalkInOrder ==
  ASSUME NEW N \in Nat, N # 0, NEW nx \in LinksOf(N), Acyclic(nx), NEW s \in 1 .. N, NEW c, Walk(N, nx, s, c),
         NEW a \in 0 .. N - 1, NEW b \in 0 .. N - 1, c[a] # 0, c[b] # 0, Reach(nx, c[a], c[b])
  PROVE  a <= b
<1> SUFFICES ASSUME ~(a <= b) PROVE FALSE
  OBVIOUS
<1>1. b <= a /\ a # b
  OBVIOUS
<1>2. Reach(nx, c[b], c[a])
  BY <1>1, WalkReaches
<1>3. c[a] \in 1 .. N /\ c[b] \in 1 .. N
  BY DEF Walk
<1>4. c[a] = c[b]
  BY <1>2, <1>3, NoCycle
<1> QED
  BY <1>1, <1>4, WalkOnce

-----------------------------------------------------------------------------
(* What an insertion does to the chains                                    *)

\* A main position without a value takes the key.
LEMMA WovenDirect ==
  ASSUME NEW N \in Nat, NEW nx \in LinksOf(N), NEW U \in SUBSET (1 .. N), NEW h, Woven(U, h, nx),
         NEW mp \in 1 .. N, NEW g, g[mp] = mp, \A i \in U \ {mp} : g[i] = h[i]
  PROVE  Woven(U \cup {mp}, g, nx)
<1>1. DOMAIN nx = 1 .. N
  BY DEF LinksOf
<1>2. ASSUME NEW i \in U \cup {mp}
      PROVE  g[i] \in U \cup {mp} /\ g[g[i]] = g[i] /\ Reach(nx, g[i], i)
  <2>1. CASE i = mp
    BY <2>1, <1>1, ReachSelf
  <2>2. CASE i # mp
    <3>1. i \in U /\ g[i] = h[i] /\ h[i] \in U /\ h[h[i]] = h[i] /\ Reach(nx, h[i], i)
      BY <2>2 DEF Woven
    <3>2. g[h[i]] = h[i]
      <4>1. CASE h[i] = mp
        BY <4>1
      <4>2. CASE h[i] # mp
        BY <4>2, <3>1
      <4> QED
        BY <4>1, <4>2
    <3> QED
      BY <3>1, <3>2
  <2> QED
    BY <2>1, <2>2
<1> QED
  BY <1>2 DEF Woven

\* The new key goes to the free node n behind the node mp of its main position.
Behind(N, nx, ny, mp, n) ==
  /\ ny \in LinksOf(N) /\ ny[mp] = n /\ ny[n] = nx[mp]
  /\ \A i \in 1 .. N : i # mp /\ i # n => ny[i] = nx[i]

LEMMA BehindReach ==
  ASSUME NEW N \in Nat, NEW nx \in LinksOf(N), NEW ny, NEW mp \in 1 .. N, NEW n \in 1 .. N, mp # n,
         Behind(N, nx, ny, mp, n), \A i \in 1 .. N : nx[i] # n,
         NEW i \in 1 .. N, NEW j \in 1 .. N, i # n, Reach(nx, i, j)
  PROVE  Reach(ny, i, j)
<1>1. DOMAIN nx = 1 .. N /\ DOMAIN ny = 1 .. N
  BY DEF LinksOf, Behind
<1> SUFFICES ASSUME NEW S \in SUBSET (1 .. N), i \in S, Closed(ny, S) PROVE j \in S
  BY <1>1 DEF Reach
<1>2. S \ {n} \in SUBSET (1 .. N) /\ i \in S \ {n}
  OBVIOUS
<1>3. Closed(nx, S \ {n})
  <2> SUFFICES ASSUME NEW x \in S \ {n}, nx[x] # 0 PROVE nx[x] \in S \ {n}
    BY DEF Closed
  <2>1. nx[x] # n
    OBVIOUS
  <2>2. CASE x = mp
    <3>1. ny[x] = n /\ n # 0
      BY <2>2 DEF Behind
    <3>2. n \in S
      BY <3>1 DEF Closed
    <3>3. ny[n] = nx[x]
      BY <2>2 DEF Behind
    <3> QED
      BY <2>1, <3>2, <3>3 DEF Closed
  <2>3. CASE x # mp
    <3>1. ny[x] = nx[x]
      BY <2>3 DEF Behind
    <3> QED
      BY <2>1, <3>1 DEF Closed
  <2> QED
    BY <2>2, <2>3
<1>4. j \in S \ {n}
  BY <1>1, <1>2, <1>3 DEF Reach
<1> QED
  BY <1>4

LEMMA BehindNext ==
  ASSUME NEW N \in Nat, NEW nx \in LinksOf(N), NEW ny, NEW mp \in 1 .. N, NEW n \in 1 .. N, mp # n,
         Behind(N, nx, ny, mp, n), \A i \in 1 .. N : nx[i] # n,
         NEW j \in 1 .. N, j # mp, Reach(nx, mp, j)
  PROVE  Reach(ny, n, j)
<1>1. Reach(ny, mp, j)
  BY BehindReach
<1>2. Reach(ny, ny[mp], j)
  BY <1>1, ReachPast DEF Behind
<1> QED
  BY <1>2 DEF Behind

LEMMA WovenBehind ==
  ASSUME NEW N \in Nat, NEW nx \in LinksOf(N), NEW U \in SUBSET (1 .. N), NEW h, Woven(U, h, nx),
         NEW mp \in U, NEW n \in (1 .. N) \ U, h[mp] = mp, NEW ny, Behind(N, nx, ny, mp, n),
         NEW g, g[n] = mp, \A i \in U : g[i] = h[i]
  PROVE  Woven(U \cup {n}, g, ny)
<1>1. DOMAIN nx = 1 .. N /\ DOMAIN ny = 1 .. N /\ mp # n /\ mp \in 1 .. N /\ n \in 1 .. N
  BY DEF LinksOf, Behind
<1>2. nx[n] = 0 /\ \A i \in 1 .. N : nx[i] # n
  BY <1>1 DEF Woven
<1>3. \A i \in 1 .. N : ny[i] = IF i = mp THEN n ELSE IF i = n THEN nx[mp] ELSE nx[i]
  BY <1>1 DEF Behind
<1>4. ASSUME NEW i \in (1 .. N) \ (U \cup {n}) PROVE ny[i] = 0 /\ \A j \in 1 .. N : ny[j] # i
  <2>1. nx[i] = 0 /\ \A j \in 1 .. N : nx[j] # i
    BY <1>1 DEF Woven
  <2> QED
    BY <2>1, <1>1, <1>3
<1>5. OneToOne(ny)
  <2> SUFFICES ASSUME NEW i \in 1 .. N, NEW j \in 1 .. N, ny[i] = ny[j], ny[i] # 0 PROVE i = j
    BY <1>1 DEF OneToOne
  <2>1. \A x, y \in 1 .. N : nx[x] = nx[y] /\ nx[x] # 0 => x = y
    BY <1>1 DEF Woven, OneToOne
  <2> QED
    BY <1>1, <1>2, <1>3, <2>1
<1>6. Acyclic(ny)
  <2> SUFFICES ASSUME NEW S \in SUBSET (1 .. N), S # {} PROVE \E i \in S : ny[i] \notin S
    BY <1>1 DEF Acyclic
  <2>1. CASE S = {n}
    <3>1. ny[n] = nx[mp] /\ nx[mp] # n
      BY <1>1, <1>2, <1>3
    <3> QED
      BY <2>1, <3>1
  <2>2. CASE S # {n}
    <3>1. S \ {n} \in SUBSET (1 .. N) /\ S \ {n} # {}
      BY <2>2
    <3>2. PICK i \in S \ {n} : nx[i] \notin S \ {n}
      BY <3>1, <1>1 DEF Woven, Acyclic
    <3>3. nx[i] \notin S
      BY <1>2, <3>2
    <3>4. CASE i # mp
      BY <1>3, <3>2, <3>3, <3>4
    <3>5. CASE i = mp /\ n \notin S
      BY <1>3, <3>2, <3>5
    <3>6. CASE i = mp /\ n \in S
      <4>1. ny[n] = nx[i]
        BY <1>1, <1>3, <3>6
      <4> QED
        BY <3>3, <3>6, <4>1
    <3> QED
      BY <3>4, <3>5, <3>6
  <2> QED
    BY <2>1, <2>2
<1>7. ASSUME NEW i \in U \cup {n}
      PROVE  g[i] \in U \cup {n} /\ g[g[i]] = g[i] /\ Reach(ny, g[i], i)
  <2>1. CASE i = n
    <3>1. g[i] = mp /\ g[mp] = mp
      BY <2>1
    <3>2. ny[mp] = n /\ n # 0 /\ Reach(ny, mp, mp)
      BY <1>1, <1>3, ReachSelf
    <3> QED
      BY <2>1, <3>1, <3>2, ReachStep
  <2>2. CASE i # n
    <3>1. i \in U /\ g[i] = h[i] /\ h[i] \in U /\ h[h[i]] = h[i] /\ Reach(nx, h[i], i)
      BY <2>2 DEF Woven
    <3>2. g[h[i]] = h[i] /\ h[i] # n
      BY <3>1
    <3>3. Reach(ny, h[i], i)
      <4>1. i \in 1 .. N /\ h[i] \in 1 .. N
        BY <3>1
      <4> QED
        BY <1>1, <1>2, <3>1, <3>2, <4>1, BehindReach
    <3> QED
      BY <3>1, <3>2, <3>3
  <2> QED
    BY <2>1, <2>2
<1> QED
  BY <1>1, <1>4, <1>5, <1>6, <1>7 DEF Woven

\* The node at mp moves to the free node n; p is the one before it.
MovedTo(mp, n, x) == IF x = mp THEN n ELSE x
Away(N, nx, ny, p, mp, n) ==
  /\ ny \in LinksOf(N) /\ ny[p] = n /\ ny[n] = nx[mp] /\ ny[mp] = 0
  /\ \A i \in 1 .. N : i # p /\ i # mp /\ i # n => ny[i] = nx[i]

LEMMA AwayLinks ==
  ASSUME NEW N \in Nat, NEW nx \in LinksOf(N), NEW ny, NEW p \in 1 .. N, NEW mp \in 1 .. N, NEW n \in 1 .. N,
         p # mp, p # n, mp # n, nx[p] = mp, Away(N, nx, ny, p, mp, n), OneToOne(nx), Acyclic(nx),
         NEW i \in 1 .. N, i # n
  PROVE  ny[MovedTo(mp, n, i)] = MovedTo(mp, n, nx[i])
<1>1. \A j \in 1 .. N : nx[j] = mp => j = p
  BY DEF OneToOne, LinksOf
<1>2. nx[mp] # mp
  BY <1>1
<1>3. CASE i = mp
  BY <1>3, <1>2 DEF MovedTo, Away
<1>4. CASE i = p
  BY <1>4 DEF MovedTo, Away
<1>5. CASE i # mp /\ i # p
  <2>1. nx[i] # mp /\ ny[i] = nx[i]
    BY <1>5, <1>1 DEF Away
  <2> QED
    BY <1>5, <2>1 DEF MovedTo
<1> QED
  BY <1>3, <1>4, <1>5

LEMMA AwayReach ==
  ASSUME NEW N \in Nat, NEW nx \in LinksOf(N), NEW ny, NEW mp \in 1 .. N, NEW n \in 1 .. N, mp # n,
         DOMAIN ny = 1 .. N, \A i \in 1 .. N : i # n => ny[MovedTo(mp, n, i)] = MovedTo(mp, n, nx[i]),
         \A i \in 1 .. N : nx[i] # n,
         NEW i \in 1 .. N, NEW j \in 1 .. N, i # n, Reach(nx, i, j)
  PROVE  Reach(ny, MovedTo(mp, n, i), MovedTo(mp, n, j))
<1> SUFFICES ASSUME NEW S \in SUBSET (1 .. N), MovedTo(mp, n, i) \in S, Closed(ny, S)
             PROVE  MovedTo(mp, n, j) \in S
  BY DEF Reach
<1>1. PICK R : R = {x \in 1 .. N : x # n /\ MovedTo(mp, n, x) \in S}
  OBVIOUS
<1>2. R \in SUBSET (1 .. N) /\ i \in R
  BY <1>1
<1>3. Closed(nx, R)
  <2> SUFFICES ASSUME NEW x \in R, nx[x] # 0 PROVE nx[x] \in R
    BY DEF Closed
  <2>1. x \in 1 .. N /\ x # n /\ MovedTo(mp, n, x) \in S /\ nx[x] \in 1 .. N /\ nx[x] # n
    BY <1>1 DEF LinksOf
  <2>2. ny[MovedTo(mp, n, x)] = MovedTo(mp, n, nx[x])
    BY <2>1
  <2>3. MovedTo(mp, n, nx[x]) # 0
    BY <2>1 DEF MovedTo
  <2>4. MovedTo(mp, n, nx[x]) \in S
    BY <2>1, <2>2, <2>3 DEF Closed
  <2> QED
    BY <1>1, <2>1, <2>4
<1>4. DOMAIN nx = 1 .. N
  BY DEF LinksOf
<1>5. j \in R
  BY <1>2, <1>3, <1>4 DEF Reach
<1> QED
  BY <1>1, <1>5

LEMMA AwayKept ==
  ASSUME NEW N \in Nat, NEW nx \in LinksOf(N), NEW U \in SUBSET (1 .. N), NEW h, Woven(U, h, nx),
         NEW mp \in U, NEW n \in (1 .. N) \ U, NEW p \in 1 .. N, nx[p] = mp,
         NEW ny, Away(N, nx, ny, p, mp, n),
         NEW i \in U, NEW j \in U, Reach(nx, i, j)
  PROVE  Reach(ny, MovedTo(mp, n, i), MovedTo(mp, n, j))
<1>1. DOMAIN nx = 1 .. N /\ DOMAIN ny = 1 .. N /\ mp # n /\ mp \in 1 .. N /\ n \in 1 .. N
  BY DEF LinksOf, Away
<1>2. nx[n] = 0 /\ (\A k \in 1 .. N : nx[k] # n) /\ OneToOne(nx) /\ Acyclic(nx)
  BY <1>1 DEF Woven
<1>3. p # n /\ p # mp
  <2>1. p # n
    BY <1>1, <1>2
  <2>2. {mp} \in SUBSET DOMAIN nx /\ {mp} # {}
    BY <1>1
  <2> QED
    BY <1>2, <2>1, <2>2 DEF Acyclic
<1>4. \A k \in 1 .. N : k # n => ny[MovedTo(mp, n, k)] = MovedTo(mp, n, nx[k])
  BY <1>1, <1>2, <1>3, AwayLinks
<1> QED
  BY <1>1, <1>2, <1>4, AwayReach

LEMMA WovenAway ==
  ASSUME NEW N \in Nat, NEW nx \in LinksOf(N), NEW U \in SUBSET (1 .. N), NEW h, Woven(U, h, nx),
         NEW mp \in U, NEW n \in (1 .. N) \ U, h[mp] # mp, NEW p \in 1 .. N, nx[p] = mp,
         NEW ny, Away(N, nx, ny, p, mp, n),
         NEW g, g[n] = h[mp], g[mp] = mp, \A i \in U \ {mp} : g[i] = h[i]
  PROVE  Woven(U \cup {n}, g, ny)
<1>1. DOMAIN nx = 1 .. N /\ DOMAIN ny = 1 .. N /\ mp # n /\ mp \in 1 .. N /\ n \in 1 .. N
  BY DEF LinksOf, Away
<1>2. nx[n] = 0 /\ (\A i \in 1 .. N : nx[i] # n) /\ OneToOne(nx) /\ Acyclic(nx)
  BY <1>1 DEF Woven
<1>3. p # n /\ p # mp
  <2>1. p # n
    BY <1>1, <1>2
  <2>2. {mp} \in SUBSET DOMAIN nx /\ {mp} # {}
    BY <1>1
  <2> QED
    BY <1>2, <2>1, <2>2 DEF Acyclic
<1>4. \A i \in 1 .. N : i # n => ny[MovedTo(mp, n, i)] = MovedTo(mp, n, nx[i])
  BY <1>1, <1>2, <1>3, AwayLinks
<1>5. \A i, j \in U : Reach(nx, i, j) => Reach(ny, MovedTo(mp, n, i), MovedTo(mp, n, j))
  BY AwayKept
<1>6. ASSUME NEW i \in (1 .. N) \ (U \cup {n}) PROVE ny[i] = 0 /\ \A j \in 1 .. N : ny[j] # i
  <2>1. nx[i] = 0 /\ (\A j \in 1 .. N : nx[j] # i) /\ i # p /\ i # mp /\ i # n
    BY <1>1 DEF Woven
  <2>2. ny[i] = 0
    BY <2>1 DEF Away
  <2>3. ASSUME NEW j \in 1 .. N PROVE ny[j] # i
    <3>1. j = p \/ j = mp \/ j = n \/ ny[j] = nx[j]
      BY DEF Away
    <3>2. ny[p] # i /\ ny[mp] # i /\ ny[n] # i
      BY <1>1, <2>1 DEF Away
    <3> QED
      BY <2>1, <3>1, <3>2
  <2> QED
    BY <2>2, <2>3
<1>7. OneToOne(ny)
  <2> SUFFICES ASSUME NEW i \in 1 .. N, NEW j \in 1 .. N, ny[i] = ny[j], ny[i] # 0 PROVE i = j
    BY <1>1 DEF OneToOne
  <2>1. \A x, y \in 1 .. N : nx[x] = nx[y] /\ nx[x] # 0 => x = y
    BY <1>1, <1>2 DEF OneToOne
  <2>2. \A x \in 1 .. N : x = p \/ x = mp \/ x = n \/ ny[x] = nx[x]
    BY DEF Away
  <2>3. ny[p] = n /\ ny[n] = nx[mp] /\ ny[mp] = 0
    BY DEF Away
  <2>4. i # mp /\ j # mp
    BY <2>3
  <2>5. CASE i = p \/ j = p
    <3>1. \A x \in 1 .. N : ny[x] = n => x = p
      BY <1>1, <1>2, <2>2, <2>3
    <3> QED
      BY <2>3, <2>5, <3>1
  <2>6. CASE i # p /\ j # p
    BY <2>1, <2>2, <2>3, <2>4, <2>6, <1>1
  <2> QED
    BY <2>5, <2>6
<1>8. Acyclic(ny)
  <2> SUFFICES ASSUME NEW S \in SUBSET (1 .. N), S # {} PROVE \E i \in S : ny[i] \notin S
    BY <1>1 DEF Acyclic
  <2>1. CASE mp \in S
    <3>1. ny[mp] = 0 /\ 0 \notin S
      BY DEF Away
    <3> QED
      BY <2>1, <3>1
  <2>2. CASE mp \notin S
    <3>1. PICK R : R = {x \in 1 .. N : x # n /\ MovedTo(mp, n, x) \in S}
      OBVIOUS
    <3>2. R # {} /\ R \in SUBSET DOMAIN nx
      <4>1. PICK y \in S : y \in 1 .. N
        OBVIOUS
      <4>2. CASE y = n
        <5>1. MovedTo(mp, n, mp) = n
          BY DEF MovedTo
        <5> QED
          BY <1>1, <3>1, <4>2, <5>1
      <4>3. CASE y # n
        <5>1. MovedTo(mp, n, y) = y
          BY <2>2 DEF MovedTo
        <5> QED
          BY <1>1, <3>1, <4>1, <4>3, <5>1
      <4> QED
        BY <4>2, <4>3
    <3>3. PICK i \in R : nx[i] \notin R
      BY <1>2, <3>2 DEF Acyclic
    <3>4. i \in 1 .. N /\ i # n /\ MovedTo(mp, n, i) \in S
      BY <3>1
    <3>5. ny[MovedTo(mp, n, i)] = MovedTo(mp, n, nx[i])
      BY <1>4, <3>4
    <3>6. nx[i] # n /\ (nx[i] \in 1 .. N \/ nx[i] = 0)
      BY <1>2, <3>4 DEF LinksOf
    <3>7. MovedTo(mp, n, nx[i]) \notin S
      <4>1. CASE nx[i] = 0
        BY <4>1 DEF MovedTo
      <4>2. CASE nx[i] # 0
        BY <4>2, <3>1, <3>3, <3>6
      <4> QED
        BY <4>1, <4>2
    <3> QED
      BY <3>4, <3>5, <3>7
  <2> QED
    BY <2>1, <2>2
<1>9. ASSUME NEW i \in U \cup {n}
      PROVE  g[i] \in U \cup {n} /\ g[g[i]] = g[i] /\ Reach(ny, g[i], i)
  <2>1. \A x \in U : h[x] \in U /\ h[h[x]] = h[x] /\ Reach(nx, h[x], x)
    BY DEF Woven
  <2>2. \A x \in U : h[x] # mp
    BY <2>1
  <2>3. \A x \in U : g[h[x]] = h[x]
    BY <2>1, <2>2
  <2>4. CASE i = mp
    BY <2>4, <1>1, ReachSelf
  <2>5. CASE i = n
    <3>1. g[i] = h[mp] /\ g[g[i]] = g[i] /\ h[mp] \in U
      BY <2>1, <2>3, <2>5
    <3>2. Reach(ny, MovedTo(mp, n, h[mp]), MovedTo(mp, n, mp))
      BY <1>5, <2>1
    <3>3. MovedTo(mp, n, h[mp]) = h[mp] /\ MovedTo(mp, n, mp) = n
      BY DEF MovedTo
    <3> QED
      BY <2>5, <3>1, <3>2, <3>3
  <2>6. CASE i # mp /\ i # n
    <3>1. i \in U /\ g[i] = h[i] /\ h[i] \in U /\ g[h[i]] = h[i]
      BY <2>1, <2>3, <2>6
    <3>2. Reach(ny, MovedTo(mp, n, h[i]), MovedTo(mp, n, i))
      BY <1>5, <2>1, <3>1
    <3>3. MovedTo(mp, n, h[i]) = h[i] /\ MovedTo(mp, n, i) = i
      BY <2>2, <2>6, <3>1 DEF MovedTo
    <3> QED
      BY <3>1, <3>2, <3>3
  <2> QED
    BY <2>4, <2>5, <2>6
<1> QED
  BY <1>1, <1>6, <1>7, <1>8, <1>9 DEF Woven

-----------------------------------------------------------------------------
(* Tables                                                                  *)

Values == Contents \cup {Absent}
DeadKeys == {DeadKey(StrKey(s)) : s \in KeyStrings}
NodeKeys == Keys \cup DeadKeys \cup {NoKey}
Named(key) == IF key[1] = "dead" THEN StrKey(key[2]) ELSE key
NodeRecords == [key : NodeKeys, val : Values, next : Nat]
Tables == [array : Seq(Values), node : Seq(NodeRecords), lastfree : Nat, stuck : BOOLEAN]

Links(tb) == [i \in DOMAIN tb.node |-> tb.node[i].next]
Used(tb) == {i \in DOMAIN tb.node : tb.node[i].key # NoKey}
Homes(tb) == [i \in Used(tb) |-> mainposition(tb, Named(tb.node[i].key))]

\* A node without a living key has no value; a key lives in one node, which
\* comes before those where it has died; the nodes from lastfree on are in use.
Unvalued(tb) == \A i \in DOMAIN tb.node : tb.node[i].key \notin Keys => tb.node[i].val = Absent
Unique(tb) == \A i, j \in DOMAIN tb.node : tb.node[i].key \in Keys /\ tb.node[i].key = tb.node[j].key => i = j
LiveFirst(tb) ==
  \A i, j \in Used(tb) :
    tb.node[i].key \in Keys /\ Named(tb.node[j].key) = tb.node[i].key => Reach(Links(tb), i, j)
NoneFree(tb) ==
  tb.lastfree <= Len(tb.node) + 1 /\ \A i \in DOMAIN tb.node : tb.lastfree <= i => i \in Used(tb)
Keyed(tb) == \A n \in DOMAIN tb.array : tb.array[n] # Absent => n \in KeyNumbers
Sound(tb) ==
  /\ tb \in Tables /\ Links(tb) \in LinksOf(Len(tb.node))
  /\ Woven(Used(tb), Homes(tb), Links(tb))
  /\ Unvalued(tb) /\ Unique(tb) /\ LiveFirst(tb) /\ NoneFree(tb) /\ Keyed(tb)

LEMMA KeyFacts ==
  /\ \A key \in Keys : \/ key[1] = "num" /\ key[2] \in KeyNumbers /\ key = NumKey(key[2])
                       \/ key[1] = "str" /\ key[2] \in KeyStrings /\ key = StrKey(key[2])
  /\ \A key \in Keys : key # NoKey /\ key \notin DeadKeys /\ Named(key) = key
  /\ \A key \in DeadKeys : key # NoKey /\ key \notin Keys /\ Named(key) \in Keys /\ Named(key)[1] = "str"
  /\ KeyNumbers \subseteq Nat \ {0}
  /\ \A n : NumKey(n) \in Keys <=> n \in KeyNumbers
  /\ \A m, n : NumKey(m) = NumKey(n) => m = n
<1>1. ASSUME NEW key \in Keys
      PROVE  \/ key[1] = "num" /\ key[2] \in KeyNumbers /\ key = NumKey(key[2])
             \/ key[1] = "str" /\ key[2] \in KeyStrings /\ key = StrKey(key[2])
  <2>1. CASE \E n \in KeyNumbers : key = NumKey(n)
    BY <2>1 DEF NumKey
  <2>2. CASE \E s \in KeyStrings : key = StrKey(s)
    BY <2>2 DEF StrKey
  <2> QED
    BY <2>1, <2>2 DEF Keys
<1>2. ASSUME NEW key \in DeadKeys
      PROVE  key[1] = "dead" /\ Named(key) \in Keys /\ Named(key)[1] = "str"
  <2>1. PICK s \in KeyStrings : key = DeadKey(StrKey(s))
    BY DEF DeadKeys
  <2>2. key = <<"dead", s>>
    BY <2>1 DEF DeadKey, StrKey
  <2>3. key[1] = "dead" /\ Named(key) = StrKey(s)
    BY <2>2 DEF Named
  <2>4. StrKey(s) \in Keys /\ StrKey(s)[1] = "str"
    BY DEF Keys, StrKey
  <2> QED
    BY <2>3, <2>4
<1>3. NoKey[1] = "nil"
  BY DEF NoKey
<1>4. \A key \in Keys : key # NoKey /\ key \notin DeadKeys /\ Named(key) = key
  BY <1>1, <1>2, <1>3 DEF Named
<1>5. \A key \in DeadKeys : key # NoKey /\ key \notin Keys
  BY <1>1, <1>2, <1>3
<1>6. ASSUME NEW n PROVE NumKey(n) \in Keys <=> n \in KeyNumbers
  <2>1. NumKey(n)[1] = "num" /\ NumKey(n)[2] = n
    BY DEF NumKey
  <2>2. n \in KeyNumbers => NumKey(n) \in Keys
    BY DEF Keys
  <2>3. NumKey(n) \in Keys => n \in KeyNumbers
    BY <1>1, <2>1
  <2> QED
    BY <2>2, <2>3
<1>7. \A m, n : NumKey(m) = NumKey(n) => m = n
  BY DEF NumKey
<1> QED
  BY <1>1, <1>2, <1>4, <1>5, <1>6, <1>7, TableAssumption

LEMMA MarksAre ==
  ASSUME NEW key \in Keys, NEW k \in NodeKeys
  PROVE  k \in Marks(key) <=> k # NoKey /\ Named(k) = key
<1>1. k = NoKey \/ k \in Keys \/ k \in DeadKeys
  BY DEF NodeKeys
<1>2. k \in Keys => (k \in Marks(key) <=> k = key)
  <2>1. key[1] = "str" => DeadKey(key) \notin Keys
    <3> SUFFICES ASSUME key[1] = "str" PROVE DeadKey(key) \notin Keys
      OBVIOUS
    <3>1. DeadKey(key) \in DeadKeys
      BY KeyFacts DEF DeadKeys
    <3> QED
      BY <3>1, KeyFacts
  <2> QED
    BY <2>1 DEF Marks
<1>3. k \in DeadKeys => (k \in Marks(key) <=> Named(k) = key)
  <2> SUFFICES ASSUME k \in DeadKeys PROVE k \in Marks(key) <=> Named(k) = key
    OBVIOUS
  <2>1. PICK s \in KeyStrings : k = DeadKey(StrKey(s))
    BY DEF DeadKeys
  <2>2. k = <<"dead", s>> /\ Named(k) = StrKey(s)
    BY <2>1 DEF DeadKey, StrKey, Named
  <2>3. k # key
    BY KeyFacts
  <2>4. Named(k) = key => k \in Marks(key)
    <3> SUFFICES ASSUME Named(k) = key PROVE k \in Marks(key)
      OBVIOUS
    <3>1. key[1] = "str" /\ DeadKey(key) = k
      BY <2>1, <2>2 DEF StrKey, DeadKey
    <3> QED
      BY <3>1 DEF Marks
  <2>5. k \in Marks(key) => Named(k) = key
    <3> SUFFICES ASSUME k \in Marks(key) PROVE Named(k) = key
      OBVIOUS
    <3>1. key[1] = "str" /\ k = DeadKey(key)
      BY <2>3 DEF Marks
    <3>2. key = StrKey(key[2])
      BY <3>1, KeyFacts
    <3>3. key[2] = s
      BY <3>1, <2>2 DEF DeadKey
    <3> QED
      BY <3>2, <3>3, <2>2
  <2> QED
    BY <2>4, <2>5
<1>4. NoKey \notin Marks(key)
  <2>1. NoKey # key
    BY KeyFacts
  <2>2. NoKey # DeadKey(key)
    BY DEF NoKey, DeadKey
  <2> QED
    BY <2>1, <2>2 DEF Marks
<1> QED
  BY <1>1, <1>2, <1>3, <1>4, KeyFacts

LEMMA NameIs ==
  ASSUME NEW k \in NodeKeys, k # NoKey
  PROVE  Named(k) \in Keys /\ (k \in Keys => Named(k) = k)
BY KeyFacts DEF NodeKeys

LEMMA MainPosition ==
  ASSUME NEW tb, Len(tb.node) \in Nat, Len(tb.node) # 0, NEW key \in Keys
  PROVE  mainposition(tb, key) \in 1 .. Len(tb.node)
<1>1. PICK N : N = Len(tb.node)
  OBVIOUS
<1>2. sizenode(tb) = N
  <2>1. tb.node # <<>>
    OBVIOUS
  <2> QED
    BY <1>1, <2>1 DEF sizenode
<1>3. Hash(key) \in Nat
  <2>1. CASE key[1] = "num" /\ key[2] \in KeyNumbers /\ key = NumKey(key[2])
    BY <2>1, TableAssumption DEF NumKey
  <2>2. CASE key[1] = "str" /\ key[2] \in KeyStrings /\ key = StrKey(key[2])
    BY <2>2, TableAssumption DEF StrKey
  <2> QED
    BY <2>1, <2>2, KeyFacts
<1>4. \A a \in Nat, b \in Nat : b # 0 => a % b \in 0 .. b - 1
  OBVIOUS
<1>5. PICK M : M = IF N = 1 THEN 1 ELSE N - 1
  OBVIOUS
<1>6. N \in Nat /\ N # 0 /\ M \in Nat /\ M # 0 /\ M <= N
  BY <1>1, <1>5
<1>7. Hash(key) % N \in 0 .. N - 1 /\ Hash(key) % M \in 0 .. M - 1
  BY <1>3, <1>4, <1>6
<1>8. (Hash(key) % N) + 1 \in 1 .. N /\ (Hash(key) % M) + 1 \in 1 .. N
  BY <1>6, <1>7
<1>9. mainposition(tb, key) = IF key[1] = "str" THEN (Hash(key) % N) + 1 ELSE (Hash(key) % M) + 1
  BY <1>2, <1>5 DEF mainposition
<1> QED
  BY <1>1, <1>8, <1>9

LEMMA TableFacts ==
  ASSUME NEW tb \in Tables
  PROVE  /\ Len(tb.node) \in Nat /\ DOMAIN tb.node = 1 .. Len(tb.node)
         /\ Len(tb.array) \in Nat /\ DOMAIN tb.array = 1 .. Len(tb.array)
         /\ tb.lastfree \in Nat
         /\ \A n \in DOMAIN tb.array : tb.array[n] \in Values
         /\ \A i \in DOMAIN tb.node : tb.node[i] \in NodeRecords
         /\ tb.node = <<>> <=> Len(tb.node) = 0
<1>1. tb.node \in Seq(NodeRecords) /\ tb.array \in Seq(Values) /\ tb.lastfree \in Nat
  BY DEF Tables
<1>2. tb.node = <<>> <=> Len(tb.node) = 0
  BY <1>1, EmptySeq
<1> QED
  BY <1>1, <1>2, LenProperties, ElementOfSeq

LEMMA NodeFacts ==
  ASSUME NEW tb \in Tables, NEW i \in DOMAIN tb.node
  PROVE  /\ tb.node[i] \in NodeRecords
         /\ tb.node[i].key \in NodeKeys /\ tb.node[i].val \in Values /\ tb.node[i].next \in Nat
         /\ i \in Used(tb) => Named(tb.node[i].key) \in Keys
<1>1. tb.node[i] \in NodeRecords
  BY TableFacts
<1>2. tb.node[i].key \in NodeKeys /\ tb.node[i].val \in Values /\ tb.node[i].next \in Nat
  BY <1>1 DEF NodeRecords
<1> QED
  BY <1>1, <1>2, NameIs DEF Used

-----------------------------------------------------------------------------
(* Searching                                                               *)

LEMMA ChainWalks ==
  ASSUME NEW tb \in Tables, NEW N, N = Len(tb.node), N # 0, Links(tb) \in LinksOf(N),
         NEW key, NEW s \in 1 .. N, s = mainposition(tb, key)
  PROVE  Walk(N, Links(tb), s, Chain(tb, key))
<1>1. N \in Nat /\ DOMAIN tb.node = 1 .. N
  BY TableFacts
<1>2. PICK c : Walk(N, Links(tb), s, c)
  BY <1>1, WalkExists
<1>3. \A x \in 0 .. N : Follow(tb, x) = IF x \in 1 .. N THEN Links(tb)[x] ELSE 0
  BY <1>1 DEF Follow, Links
<1> DEFINE F(h) == [n \in 0 .. N - 1 |-> IF n = 0 THEN s ELSE Follow(tb, h[n - 1])]
<1>4. c = F(c)
  <2>1. \A k \in 0 .. N - 1 : c[k] \in 0 .. N
    BY <1>2 DEF Walk
  <2>2. \A k \in 0 .. N - 1 : k # 0 => k - 1 \in 0 .. N - 1
    BY <1>1
  <2>3. c = [k \in 0 .. N - 1 |-> IF k = 0 THEN s ELSE IF c[k - 1] \in 1 .. N THEN Links(tb)[c[k - 1]] ELSE 0]
    BY <1>2 DEF Walk
  <2>4. \A k \in 0 .. N - 1 : k # 0 => Follow(tb, c[k - 1]) = IF c[k - 1] \in 1 .. N THEN Links(tb)[c[k - 1]] ELSE 0
    BY <1>3, <2>1, <2>2
  <2> QED
    BY <2>3, <2>4
<1>5. PICK r : r = CHOOSE h : h = F(h)
  OBVIOUS
<1>6. r = F(r)
  <2> HIDE DEF F
  <2> QED
    BY <1>4, <1>5
<1>7. Chain(tb, key) = r
  BY <1>5 DEF Chain
<1>8. r = c
  <2> DEFINE T == [k \in 0 .. N - 1 |-> {c[k]}]
  <2>1. \A k \in 0 .. N - 1 : r[k] = IF k = 0 THEN s ELSE Follow(tb, r[k - 1])
    BY <1>6
  <2>2. \A k \in 0 .. N - 1 : c[k] = IF k = 0 THEN s ELSE Follow(tb, c[k - 1])
    BY <1>4
  <2>3. N - 1 \in Nat /\ 0 \in 0 .. N - 1
    BY <1>1
  <2>4. r[0] \in T[0]
    BY <2>1, <2>2, <2>3
  <2>5. ASSUME NEW k \in 1 .. N - 1, r[k - 1] \in T[k - 1] PROVE r[k] \in T[k]
    <3>1. k \in 0 .. N - 1 /\ k - 1 \in 0 .. N - 1 /\ k # 0
      BY <1>1
    <3>2. r[k - 1] = c[k - 1]
      BY <2>5, <3>1
    <3> QED
      BY <2>1, <2>2, <3>1, <3>2
  <2>6. \A k \in 0 .. N - 1 : r[k] \in T[k]
    <3> HIDE DEF T
    <3> QED
      BY <2>3, <2>4, <2>5, PassedOn
  <2>7. \A k \in 0 .. N - 1 : r[k] = c[k]
    BY <2>6
  <2>8. r = [k \in 0 .. N - 1 |-> r[k]] /\ c = [k \in 0 .. N - 1 |-> c[k]]
    BY <1>4, <1>6
  <2> QED
    BY <2>7, <2>8
<1> QED
  BY <1>2, <1>7, <1>8

\* A search for one of the keys S of a name finds the one that comes first.
LEMMA HoldingIs ==
  ASSUME NEW tb, Sound(tb), NEW key \in Keys, NEW S, \A k \in NodeKeys : k \in S => k # NoKey /\ Named(k) = key
  PROVE  \/ Holding(tb, key, S) = 0 /\ \A i \in DOMAIN tb.node : tb.node[i].key \notin S
         \/ /\ Holding(tb, key, S) \in DOMAIN tb.node /\ tb.node[Holding(tb, key, S)].key \in S
            /\ \A i \in DOMAIN tb.node : tb.node[i].key \in S => Reach(Links(tb), Holding(tb, key, S), i)
<1>1. PICK N : N = Len(tb.node)
  OBVIOUS
<1>2. tb \in Tables /\ N \in Nat /\ DOMAIN tb.node = 1 .. N /\ Links(tb) \in LinksOf(N)
  BY <1>1, TableFacts DEF Sound
<1>3. PICK c : c = Chain(tb, key)
  OBVIOUS
<1>4. PICK held : held = {n \in DOMAIN c : c[n] \in DOMAIN tb.node /\ tb.node[c[n]].key \in S}
  OBVIOUS
<1>5. Holding(tb, key, S) = IF held = {} THEN 0 ELSE c[Min(held)]
  BY <1>3, <1>4 DEF Holding
<1>6. CASE N = 0
  BY <1>2, <1>4, <1>5, <1>6
<1>7. CASE N # 0
  <2>1. PICK s : s = mainposition(tb, key)
    OBVIOUS
  <2>2. s \in 1 .. N
    BY <1>1, <1>2, <1>7, <2>1, MainPosition
  <2>3. Walk(N, Links(tb), s, c)
    BY <1>1, <1>2, <1>3, <1>7, <2>1, <2>2, ChainWalks
  <2>4. DOMAIN c = 0 .. N - 1
    BY <2>3 DEF Walk
  <2>5. Acyclic(Links(tb))
    BY DEF Sound, Woven
  <2>6. ASSUME NEW i \in DOMAIN tb.node, tb.node[i].key \in S PROVE \E n \in held : c[n] = i
    <3>1. tb.node[i].key \in NodeKeys
      BY <1>2, NodeFacts
    <3>2. i \in Used(tb) /\ Named(tb.node[i].key) = key
      BY <2>6, <3>1 DEF Used
    <3>3. Homes(tb)[i] = s
      BY <2>1, <3>2 DEF Homes
    <3>4. Reach(Links(tb), s, i)
      BY <3>2, <3>3 DEF Sound, Woven
    <3>5. \E n \in 0 .. N - 1 : c[n] = i
      BY <1>2, <1>7, <2>2, <2>3, <2>5, <3>4, WalkCovers
    <3> QED
      BY <1>4, <2>4, <2>6, <3>5
  <2>7. CASE held = {}
    BY <1>5, <2>6, <2>7
  <2>8. CASE held # {}
    <3>1. held \subseteq Nat
      BY <1>2, <1>4, <2>4
    <3>2. PICK m : m = Min(held)
      OBVIOUS
    <3>3. m \in held /\ \A n \in held : m <= n
      BY <2>8, <3>1, <3>2, LeastOf
    <3>4. Holding(tb, key, S) = c[m]
      BY <1>5, <2>8, <3>2
    <3>5. m \in 0 .. N - 1 /\ c[m] \in DOMAIN tb.node /\ tb.node[c[m]].key \in S
      BY <1>4, <2>4, <3>3
    <3>6. ASSUME NEW i \in DOMAIN tb.node, tb.node[i].key \in S PROVE Reach(Links(tb), c[m], i)
      <4>1. PICK n \in held : c[n] = i
        BY <2>6, <3>6
      <4>2. n \in 0 .. N - 1 /\ m <= n /\ c[n] # 0
        BY <1>2, <1>4, <2>4, <3>3, <4>1
      <4>3. Reach(Links(tb), c[m], c[n])
        BY <1>2, <1>7, <2>2, <2>3, <3>5, <4>2, WalkReaches
      <4> QED
        BY <4>1, <4>3
    <3> QED
      BY <3>4, <3>5, <3>6
  <2> QED
    BY <2>7, <2>8
<1> QED
  BY <1>6, <1>7

\* What luaH_get finds, and the value there.
LEMMA GetIs ==
  ASSUME NEW tb, Sound(tb), NEW key \in Keys, ~InArray(tb, key)
  PROVE  \/ /\ luaH_get(tb, key) = <<>> /\ Lookup(tb, key) = Absent
            /\ \A i \in DOMAIN tb.node : tb.node[i].key # key
         \/ \E i \in DOMAIN tb.node :
              /\ tb.node[i].key = key /\ luaH_get(tb, key) = <<"node", i>> /\ Lookup(tb, key) = tb.node[i].val
              /\ \A j \in DOMAIN tb.node : tb.node[j].key = key => j = i
<1>1. PICK n : n = Holding(tb, key, {key})
  OBVIOUS
<1>2. \/ n = 0 /\ \A i \in DOMAIN tb.node : tb.node[i].key \notin {key}
      \/ n \in DOMAIN tb.node /\ tb.node[n].key \in {key}
  <2>1. \A k \in NodeKeys : k \in {key} => k # NoKey /\ Named(k) = key
    BY KeyFacts
  <2> QED
    BY <1>1, <2>1, HoldingIs
<1>3. luaH_get(tb, key) = IF n = 0 THEN <<>> ELSE <<"node", n>>
  BY <1>1 DEF luaH_get
<1>4. CASE n = 0 /\ \A i \in DOMAIN tb.node : tb.node[i].key \notin {key}
  <2>1. Lookup(tb, key) = Absent
    BY <1>3, <1>4 DEF Lookup, ValueAt
  <2> QED
    BY <1>3, <1>4, <2>1
<1>5. CASE n \in DOMAIN tb.node /\ tb.node[n].key \in {key}
  <2>1. DOMAIN tb.node = 1 .. Len(tb.node) /\ Len(tb.node) \in Nat
    BY TableFacts DEF Sound
  <2>2. n # 0 /\ luaH_get(tb, key) = <<"node", n>>
    BY <1>3, <1>5, <2>1
  <2>3. Lookup(tb, key) = tb.node[n].val
    <3>1. PICK place : place = <<"node", n>>
      OBVIOUS
    <3>2. place # <<>> /\ place[1] = "node" /\ place[2] = n
      BY <3>1
    <3>3. ValueAt(tb, place) = tb.node[n].val
      BY <3>2 DEF ValueAt
    <3> QED
      BY <2>2, <3>1, <3>3 DEF Lookup
  <2>4. \A j \in DOMAIN tb.node : tb.node[j].key = key => j = n
    BY <1>5 DEF Sound, Unique
  <2> QED
    BY <1>5, <2>2, <2>3, <2>4
<1> QED
  BY <1>2, <1>4, <1>5

LEMMA GetInArray ==
  ASSUME NEW tb, NEW key, InArray(tb, key)
  PROVE  luaH_get(tb, key) = <<"array", key[2]>> /\ Lookup(tb, key) = tb.array[key[2]]
<1>1. PICK place : place = <<"array", key[2]>>
  OBVIOUS
<1>2. luaH_get(tb, key) = place
  BY <1>1 DEF luaH_get
<1>3. place # <<>> /\ place[1] = "array" /\ place[2] = key[2]
  BY <1>1
<1>4. ValueAt(tb, place) = tb.array[key[2]]
  BY <1>3 DEF ValueAt
<1> QED
  BY <1>1, <1>2, <1>4 DEF Lookup

\* A key that no program uses is nowhere.
LEMMA GetOther ==
  ASSUME NEW tb, Sound(tb), NEW n \in Nat, n \notin KeyNumbers
  PROVE  Lookup(tb, NumKey(n)) = Absent
<1>1. NumKey(n)[1] = "num" /\ NumKey(n)[2] = n
  BY DEF NumKey
<1>2. CASE InArray(tb, NumKey(n))
  <2>1. Lookup(tb, NumKey(n)) = tb.array[n] /\ n \in DOMAIN tb.array
    BY <1>1, <1>2, GetInArray DEF InArray
  <2> QED
    BY <2>1 DEF Sound, Keyed
<1>3. CASE ~InArray(tb, NumKey(n))
  <2>1. \A i \in DOMAIN tb.node : tb.node[i].key # NumKey(n)
    <3> SUFFICES ASSUME NEW i \in DOMAIN tb.node, tb.node[i].key = NumKey(n) PROVE FALSE
      OBVIOUS
    <3>1. NumKey(n) \in NodeKeys
      BY NodeFacts DEF Sound
    <3>2. NumKey(n) # NoKey
      BY DEF NumKey, NoKey
    <3>3. NumKey(n) \notin DeadKeys
      BY DEF DeadKeys, DeadKey, NumKey
    <3> QED
      BY <3>1, <3>2, <3>3, KeyFacts DEF NodeKeys
  <2>2. Holding(tb, NumKey(n), {NumKey(n)}) = 0
    BY <2>1 DEF Holding
  <2>3. luaH_get(tb, NumKey(n)) = <<>>
    BY <1>3, <2>2 DEF luaH_get
  <2> QED
    BY <2>3 DEF Lookup, ValueAt
<1> QED
  BY <1>2, <1>3

-----------------------------------------------------------------------------
(* Changes that leave the chains                                           *)

\* w has the nodes of tb, some of them with a key that has died.
SameShape(tb, w) ==
  /\ w \in Tables /\ Len(w.node) = Len(tb.node)
  /\ \A i \in DOMAIN tb.node :
       /\ w.node[i].next = tb.node[i].next /\ (w.node[i].key = NoKey <=> tb.node[i].key = NoKey)
       /\ Named(w.node[i].key) = Named(tb.node[i].key)
       /\ w.node[i].key \in Keys => w.node[i].key = tb.node[i].key

LEMMA SameMain ==
  ASSUME NEW tb \in Tables, NEW w \in Tables, Len(w.node) = Len(tb.node), NEW key
  PROVE  mainposition(w, key) = mainposition(tb, key)
<1>1. w.node = <<>> <=> tb.node = <<>>
  BY TableFacts
<1>2. sizenode(w) = sizenode(tb)
  BY <1>1 DEF sizenode
<1> QED
  BY <1>2 DEF mainposition

LEMMA ShapeSound ==
  ASSUME NEW tb, Sound(tb), NEW w, SameShape(tb, w), Unvalued(w), NoneFree(w), Keyed(w)
  PROVE  Sound(w) /\ Links(w) = Links(tb) /\ Used(w) = Used(tb)
<1>1. tb \in Tables /\ w \in Tables /\ DOMAIN w.node = DOMAIN tb.node /\ Len(w.node) = Len(tb.node)
  BY TableFacts DEF Sound, SameShape
<1>2. Links(w) = Links(tb)
  BY <1>1 DEF Links, SameShape
<1>3. Used(w) = Used(tb)
  BY <1>1 DEF Used, SameShape
<1>4. Homes(w) = Homes(tb)
  <2>1. \A i \in Used(tb) : mainposition(w, Named(w.node[i].key)) = mainposition(tb, Named(tb.node[i].key))
    BY <1>1, SameMain DEF SameShape, Used
  <2> QED
    BY <1>3, <2>1 DEF Homes
<1>5. Unique(w)
  BY <1>1 DEF Unique, SameShape, Sound
<1>6. LiveFirst(w)
  <2> SUFFICES ASSUME NEW i \in Used(tb), NEW j \in Used(tb), w.node[i].key \in Keys,
                      Named(w.node[j].key) = w.node[i].key
               PROVE  Reach(Links(tb), i, j)
    BY <1>2, <1>3 DEF LiveFirst
  <2>1. i \in DOMAIN tb.node /\ j \in DOMAIN tb.node
    BY DEF Used
  <2>2. w.node[i].key = tb.node[i].key /\ Named(w.node[j].key) = Named(tb.node[j].key)
    BY <2>1 DEF SameShape
  <2> QED
    BY <2>2 DEF Sound, LiveFirst
<1>7. Woven(Used(w), Homes(w), Links(w)) /\ Links(w) \in LinksOf(Len(w.node))
  BY <1>1, <1>2, <1>3, <1>4 DEF Sound
<1> QED
  BY <1>1, <1>2, <1>3, <1>5, <1>6, <1>7 DEF Sound

\* findindex: the place of a key, or of a node where it has died.
LEMMA PlaceIs ==
  ASSUME NEW tb, Sound(tb), NEW key \in Keys
  PROVE  /\ InArray(tb, key) => findindex(tb, key) = key[2]
         /\ ~InArray(tb, key) =>
              \/ /\ findindex(tb, key) = 0
                 /\ \A i \in Used(tb) : Named(tb.node[i].key) # key
              \/ \E i \in Used(tb) :
                   /\ findindex(tb, key) = Len(tb.array) + i /\ Named(tb.node[i].key) = key
                   /\ \A j \in Used(tb) : Named(tb.node[j].key) = key => Reach(Links(tb), i, j)
<1>1. PICK n : n = Holding(tb, key, Marks(key))
  OBVIOUS
<1>2. findindex(tb, key) = IF InArray(tb, key) THEN key[2] ELSE IF n = 0 THEN 0 ELSE Len(tb.array) + n
  BY <1>1 DEF findindex
<1>3. \A i \in DOMAIN tb.node : tb.node[i].key \in Marks(key) <=> i \in Used(tb) /\ Named(tb.node[i].key) = key
  <2> SUFFICES ASSUME NEW i \in DOMAIN tb.node
               PROVE  tb.node[i].key \in Marks(key) <=> i \in Used(tb) /\ Named(tb.node[i].key) = key
    OBVIOUS
  <2>1. tb.node[i].key \in NodeKeys
    BY NodeFacts DEF Sound
  <2>2. i \in Used(tb) <=> tb.node[i].key # NoKey
    BY DEF Used
  <2> QED
    BY <2>1, <2>2, MarksAre
<1>4. \/ n = 0 /\ \A i \in DOMAIN tb.node : tb.node[i].key \notin Marks(key)
      \/ /\ n \in DOMAIN tb.node /\ tb.node[n].key \in Marks(key)
         /\ \A i \in DOMAIN tb.node : tb.node[i].key \in Marks(key) => Reach(Links(tb), n, i)
  <2>1. \A k \in NodeKeys : k \in Marks(key) => k # NoKey /\ Named(k) = key
    BY MarksAre
  <2> QED
    BY <1>1, <2>1, HoldingIs
<1>5. \A i \in Used(tb) : i \in DOMAIN tb.node /\ i # 0
  BY TableFacts DEF Used, Sound
<1>6. CASE n = 0 /\ \A i \in DOMAIN tb.node : tb.node[i].key \notin Marks(key)
  BY <1>2, <1>3, <1>5, <1>6
<1>7. CASE /\ n \in DOMAIN tb.node /\ tb.node[n].key \in Marks(key)
           /\ \A i \in DOMAIN tb.node : tb.node[i].key \in Marks(key) => Reach(Links(tb), n, i)
  <2>1. n \in Used(tb) /\ Named(tb.node[n].key) = key /\ n # 0
    BY <1>3, <1>5, <1>7
  <2>2. \A j \in Used(tb) : Named(tb.node[j].key) = key => Reach(Links(tb), n, j)
    BY <1>3, <1>5, <1>7
  <2> QED
    BY <1>2, <2>1, <2>2
<1> QED
  BY <1>4, <1>6, <1>7

LEMMA SamePlace ==
  ASSUME NEW tb, Sound(tb), NEW w, Sound(w), SameShape(tb, w), Links(w) = Links(tb), Used(w) = Used(tb),
         Len(w.array) = Len(tb.array), NEW key \in Keys
  PROVE  findindex(w, key) = findindex(tb, key)
<1>1. tb \in Tables /\ w \in Tables
  BY DEF Sound
<1>2. DOMAIN w.array = DOMAIN tb.array
  BY <1>1, TableFacts
<1>3. InArray(w, key) <=> InArray(tb, key)
  BY <1>2 DEF InArray
<1>4. CASE InArray(tb, key)
  BY <1>3, <1>4, PlaceIs
<1>5. CASE ~InArray(tb, key)
  <2>1. \A i \in Used(tb) : Named(w.node[i].key) = Named(tb.node[i].key)
    BY DEF SameShape, Used
  <2>2. \/ /\ findindex(tb, key) = 0
           /\ \A i \in Used(tb) : Named(tb.node[i].key) # key
        \/ \E i \in Used(tb) :
             /\ findindex(tb, key) = Len(tb.array) + i /\ Named(tb.node[i].key) = key
             /\ \A j \in Used(tb) : Named(tb.node[j].key) = key => Reach(Links(tb), i, j)
    BY <1>5, PlaceIs
  <2>3. \/ /\ findindex(w, key) = 0
           /\ \A i \in Used(w) : Named(w.node[i].key) # key
        \/ \E i \in Used(w) :
             /\ findindex(w, key) = Len(w.array) + i /\ Named(w.node[i].key) = key
             /\ \A j \in Used(w) : Named(w.node[j].key) = key => Reach(Links(w), i, j)
    BY <1>3, <1>5, PlaceIs
  <2>4. CASE \A i \in Used(tb) : Named(tb.node[i].key) # key
    BY <2>1, <2>2, <2>3, <2>4
  <2>5. CASE \E i \in Used(tb) : Named(tb.node[i].key) = key
    <3>1. PICK i \in Used(tb) :
             /\ findindex(tb, key) = Len(tb.array) + i /\ Named(tb.node[i].key) = key
             /\ \A j \in Used(tb) : Named(tb.node[j].key) = key => Reach(Links(tb), i, j)
      BY <2>2, <2>5
    <3>2. PICK j \in Used(tb) :
             /\ findindex(w, key) = Len(tb.array) + j /\ Named(tb.node[j].key) = key
             /\ \A k \in Used(tb) : Named(tb.node[k].key) = key => Reach(Links(tb), j, k)
      BY <2>1, <2>3, <2>5
    <3>3. Reach(Links(tb), i, j) /\ Reach(Links(tb), j, i)
      BY <3>1, <3>2
    <3>4. i \in 1 .. Len(tb.node) /\ j \in 1 .. Len(tb.node) /\ Len(tb.node) \in Nat
      BY <1>1, TableFacts DEF Used
    <3>5. Links(tb) \in LinksOf(Len(tb.node)) /\ Acyclic(Links(tb))
      BY DEF Sound, Woven
    <3>6. i = j
      BY <3>3, <3>4, <3>5, NoCycle
    <3> QED
      BY <3>1, <3>2, <3>6
  <2> QED
    BY <2>4, <2>5
<1> QED
  BY <1>4, <1>5

\* The values of a key outside the array are those of its node.
Has(tb, key, x) == \E i \in DOMAIN tb.node : tb.node[i].key = key /\ tb.node[i].val = x

LEMMA LookupHas ==
  ASSUME NEW tb, Sound(tb), NEW key \in Keys, ~InArray(tb, key)
  PROVE  \A x : x # Absent => (Lookup(tb, key) = x <=> Has(tb, key, x))
BY GetIs DEF Has

LEMMA SameLookup ==
  ASSUME NEW tb, Sound(tb), NEW w, Sound(w), NEW key \in Keys, ~InArray(tb, key), ~InArray(w, key),
         \A x : x # Absent => (Has(w, key, x) <=> Has(tb, key, x))
  PROVE  Lookup(w, key) = Lookup(tb, key)
<1>1. \A x : x # Absent => (Lookup(tb, key) = x <=> Lookup(w, key) = x)
  BY LookupHas
<1> QED
  BY <1>1

-----------------------------------------------------------------------------
(* Storing                                                                 *)

KeysIn(tb) == {tb.node[i].key : i \in Used(tb)}
\* w is tb with the value x for key.
Stored(tb, w, key, x) ==
  /\ Sound(w) /\ Len(w.array) = Len(tb.array) /\ Len(w.node) = Len(tb.node) /\ w.stuck = tb.stuck
  /\ Lookup(w, key) = x /\ \A k \in Keys \ {key} : Lookup(w, k) = Lookup(tb, k)
  /\ \A k \in KeysIn(w) : k \in KeysIn(tb) \/ (k = key /\ ~InArray(tb, key))

LEMMA StoreInArray ==
  ASSUME NEW tb, Sound(tb), NEW key \in Keys, NEW x \in Values, InArray(tb, key),
         NEW w, w = [tb EXCEPT !.array[key[2]] = x]
  PROVE  Stored(tb, w, key, x) /\ SameShape(tb, w)
<1>1. PICK n : n = key[2]
  OBVIOUS
<1>2. tb \in Tables /\ tb.array \in Seq(Values) /\ n \in 1 .. Len(tb.array) /\ DOMAIN tb.array = 1 .. Len(tb.array)
      /\ DOMAIN tb.node = 1 .. Len(tb.node)
  BY <1>1, TableFacts DEF Sound, Tables, InArray
<1>3. key = NumKey(n) /\ n \in KeyNumbers /\ key[1] = "num"
  BY <1>1, KeyFacts DEF InArray
<1>4. PICK b : b = [tb.array EXCEPT ![n] = x]
  OBVIOUS
<1>5. b \in Seq(Values) /\ Len(b) = Len(tb.array) /\ \A m \in 1 .. Len(tb.array) : b[m] = IF m = n THEN x ELSE tb.array[m]
  BY <1>2, <1>4, ExceptSeq
<1>6. w = [tb EXCEPT !.array = b]
  BY <1>1, <1>4
<1>7. w \in Tables /\ w.node = tb.node /\ w.lastfree = tb.lastfree /\ w.stuck = tb.stuck /\ w.array = b
  BY <1>2, <1>5, <1>6 DEF Tables
<1>8. DOMAIN w.array = DOMAIN tb.array
  BY <1>2, <1>5, <1>7, TableFacts
<1>9. SameShape(tb, w)
  BY <1>7 DEF SameShape
<1>10. Unvalued(w) /\ NoneFree(w) /\ Keyed(w)
  <2>1. Keyed(w)
    BY <1>2, <1>3, <1>5, <1>7, <1>8 DEF Keyed, Sound
  <2>2. Unvalued(w) /\ NoneFree(w)
    BY <1>7 DEF Unvalued, NoneFree, Sound, Used
  <2> QED
    BY <2>1, <2>2
<1>11. Sound(w) /\ Used(w) = Used(tb)
  BY <1>9, <1>10, ShapeSound
<1>12. \A k : InArray(w, k) <=> InArray(tb, k)
  BY <1>8 DEF InArray
<1>13. Lookup(w, key) = x
  <2>1. Lookup(w, key) = w.array[key[2]]
    BY <1>12, GetInArray
  <2> QED
    BY <1>1, <1>2, <1>5, <1>7, <2>1
<1>14. ASSUME NEW k \in Keys \ {key} PROVE Lookup(w, k) = Lookup(tb, k)
  <2>1. CASE InArray(tb, k)
    <3>1. Lookup(w, k) = w.array[k[2]] /\ Lookup(tb, k) = tb.array[k[2]]
      BY <1>12, <2>1, GetInArray
    <3>2. k = NumKey(k[2]) /\ k[2] \in DOMAIN tb.array
      BY <2>1, KeyFacts DEF InArray
    <3>3. k[2] # n
      BY <1>3, <3>2
    <3> QED
      BY <1>2, <1>5, <1>7, <3>1, <3>2, <3>3
  <2>2. CASE ~InArray(tb, k)
    <3>1. ~InArray(w, k)
      BY <1>12, <2>2
    <3>2. \A y : Has(w, k, y) <=> Has(tb, k, y)
      BY <1>7 DEF Has
    <3> QED
      BY <2>2, <3>1, <3>2, <1>11, SameLookup
  <2> QED
    BY <2>1, <2>2
<1>15. KeysIn(w) = KeysIn(tb)
  BY <1>7, <1>11 DEF KeysIn
<1> QED
  BY <1>5, <1>7, <1>9, <1>11, <1>13, <1>14, <1>15 DEF Stored

LEMMA StoreInNode ==
  ASSUME NEW tb, Sound(tb), NEW key \in Keys, NEW x \in Values, ~InArray(tb, key),
         NEW i \in DOMAIN tb.node, tb.node[i].key = key, NEW w, w = [tb EXCEPT !.node[i].val = x]
  PROVE  Stored(tb, w, key, x) /\ SameShape(tb, w)
<1>1. tb \in Tables /\ tb.node \in Seq(NodeRecords) /\ i \in 1 .. Len(tb.node) /\ DOMAIN tb.node = 1 .. Len(tb.node)
      /\ tb.node[i] \in NodeRecords
  BY NodeFacts, TableFacts DEF Sound, Tables
<1>2. PICK e : e = [tb.node[i] EXCEPT !.val = x]
  OBVIOUS
<1>3. e \in NodeRecords /\ e.key = key /\ e.val = x /\ e.next = tb.node[i].next
  BY <1>1, <1>2 DEF NodeRecords
<1>4. PICK b : b = [tb.node EXCEPT ![i] = e]
  OBVIOUS
<1>5. b \in Seq(NodeRecords) /\ Len(b) = Len(tb.node) /\ \A m \in 1 .. Len(tb.node) : b[m] = IF m = i THEN e ELSE tb.node[m]
  BY <1>1, <1>3, <1>4, ExceptSeq
<1>6. w = [tb EXCEPT !.node = b]
  BY <1>2, <1>4
<1>7. w \in Tables /\ w.node = b /\ w.lastfree = tb.lastfree /\ w.stuck = tb.stuck /\ w.array = tb.array
  BY <1>1, <1>5, <1>6 DEF Tables
<1>8. DOMAIN w.node = DOMAIN tb.node
  BY <1>1, <1>5, <1>7, TableFacts
<1>9. \A m \in DOMAIN tb.node : /\ w.node[m].key = tb.node[m].key /\ w.node[m].next = tb.node[m].next
                                /\ w.node[m].val = IF m = i THEN x ELSE tb.node[m].val
  BY <1>1, <1>3, <1>5, <1>7
<1>10. SameShape(tb, w)
  BY <1>5, <1>7, <1>9 DEF SameShape
<1>11. Unvalued(w) /\ NoneFree(w) /\ Keyed(w)
  <2>1. Unvalued(w)
    BY <1>8, <1>9 DEF Unvalued, Sound
  <2>2. NoneFree(w)
    BY <1>5, <1>7, <1>8, <1>9 DEF NoneFree, Used, Sound
  <2>3. Keyed(w)
    BY <1>7 DEF Keyed, Sound
  <2> QED
    BY <2>1, <2>2, <2>3
<1>12. Sound(w) /\ Used(w) = Used(tb)
  BY <1>10, <1>11, ShapeSound
<1>13. \A k : InArray(w, k) <=> InArray(tb, k)
  BY <1>7 DEF InArray
<1>14. Lookup(w, key) = x
  <2>1. w.node[i].key = key /\ w.node[i].val = x /\ ~InArray(w, key) /\ i \in DOMAIN w.node
    BY <1>8, <1>9, <1>13
  <2>2. PICK j \in DOMAIN w.node : /\ w.node[j].key = key /\ Lookup(w, key) = w.node[j].val
                                   /\ \A m \in DOMAIN w.node : w.node[m].key = key => m = j
    <3>1. Sound(w) /\ ~InArray(w, key)
      BY <1>12, <2>1
    <3>2. \/ /\ luaH_get(w, key) = <<>> /\ Lookup(w, key) = Absent
             /\ \A m \in DOMAIN w.node : w.node[m].key # key
          \/ \E m \in DOMAIN w.node :
               /\ w.node[m].key = key /\ luaH_get(w, key) = <<"node", m>> /\ Lookup(w, key) = w.node[m].val
               /\ \A j \in DOMAIN w.node : w.node[j].key = key => j = m
      BY ONLY key \in Keys, <3>1, GetIs
    <3> QED
      BY <2>1, <3>2
  <2> QED
    BY <2>1, <2>2
<1>15. ASSUME NEW k \in Keys \ {key} PROVE Lookup(w, k) = Lookup(tb, k)
  <2>1. CASE InArray(tb, k)
    <3>1. Lookup(w, k) = w.array[k[2]]
      BY <1>13, <2>1, GetInArray
    <3>2. Lookup(tb, k) = tb.array[k[2]]
      BY <2>1, GetInArray
    <3> QED
      BY <1>7, <3>1, <3>2
  <2>2. CASE ~InArray(tb, k)
    <3>1. ~InArray(w, k)
      BY <1>13, <2>2
    <3>2. \A y : Has(w, k, y) <=> Has(tb, k, y)
      BY <1>8, <1>9 DEF Has
    <3> QED
      BY <2>2, <3>1, <3>2, <1>12, SameLookup
  <2> QED
    BY <2>1, <2>2
<1>16. KeysIn(w) = KeysIn(tb)
  BY <1>9, <1>12 DEF KeysIn, Used
<1> QED
  BY <1>5, <1>7, <1>10, <1>12, <1>14, <1>15, <1>16 DEF Stored

LEMMA StoreKeeps ==
  ASSUME NEW tb, Sound(tb), NEW key \in Keys, NEW x \in Values, luaH_get(tb, key) # <<>>
  PROVE  LET w == StoreAt(tb, luaH_get(tb, key), x) IN Stored(tb, w, key, x) /\ SameShape(tb, w)
<1>1. PICK place : place = luaH_get(tb, key)
  OBVIOUS
<1>2. CASE InArray(tb, key)
  <2>1. place = <<"array", key[2]>>
    BY <1>1, <1>2, GetInArray
  <2>2. place[1] = "array" /\ place[2] = key[2]
    BY <2>1
  <2>3. StoreAt(tb, place, x) = [tb EXCEPT !.array[key[2]] = x]
    BY <2>2 DEF StoreAt
  <2> QED
    BY <1>1, <1>2, <2>3, StoreInArray
<1>3. CASE ~InArray(tb, key)
  <2>1. PICK i \in DOMAIN tb.node : tb.node[i].key = key /\ place = <<"node", i>>
    BY <1>1, <1>3, GetIs
  <2>2. place[1] = "node" /\ place[2] = i
    BY <2>1
  <2>3. StoreAt(tb, place, x) = [tb EXCEPT !.node[i].val = x]
    BY <2>2 DEF StoreAt
  <2> QED
    BY <1>1, <1>3, <2>1, <2>3, StoreInNode
<1> QED
  BY <1>2, <1>3

-----------------------------------------------------------------------------
(* Inserting                                                               *)

\* A bounded set of natural numbers has a largest element.
LEMMA GreatestOf ==
  ASSUME NEW n \in Nat, NEW T, T \subseteq 0 .. n, T # {}
  PROVE  Max(T) \in T /\ \A t \in T : t <= Max(T)
<1>1. PICK R : R = {n - t : t \in T}
  OBVIOUS
<1>2. R \subseteq Nat /\ R # {}
  <2>1. \A t \in T : n - t \in Nat
    OBVIOUS
  <2>2. R \subseteq Nat
    BY <1>1, <2>1
  <2>3. PICK t \in T : TRUE
    OBVIOUS
  <2>4. n - t \in R
    BY <1>1
  <2> QED
    BY <2>2, <2>4
<1>3. PICK m \in R : \A k \in R : m <= k
  BY <1>2, LeastOf
<1>4. PICK t \in T : m = n - t
  BY <1>1
<1>5. \A u \in T : n - t <= n - u
  BY <1>1, <1>3, <1>4
<1>6. \A u \in T : t >= u
  BY <1>5
<1>7. Max(T) \in T /\ \A u \in T : Max(T) >= u
  BY <1>6 DEF Max
<1> QED
  BY <1>7

LEMMA FreePlace ==
  ASSUME NEW tb, Sound(tb)
  PROVE  \/ getfreepos(tb) = 0 /\ \A i \in DOMAIN tb.node : i \in Used(tb)
         \/ /\ getfreepos(tb) \in DOMAIN tb.node /\ getfreepos(tb) \notin Used(tb)
            /\ \A i \in DOMAIN tb.node : getfreepos(tb) < i => i \in Used(tb)
<1>1. PICK T : T = {i \in 1 .. tb.lastfree - 1 : tb.node[i].key = NoKey} \cup {0}
  OBVIOUS
<1>2. PICK n : n = getfreepos(tb)
  OBVIOUS
<1>3. n = Max(T)
  BY <1>1, <1>2 DEF getfreepos
<1>4. PICK N : N = Len(tb.node)
  OBVIOUS
<1>5. N \in Nat /\ DOMAIN tb.node = 1 .. N /\ tb.lastfree \in Nat /\ tb.lastfree <= N + 1
  BY <1>4, TableFacts DEF Sound, NoneFree
<1>6. T \subseteq 0 .. N /\ T # {}
  BY <1>1, <1>5
<1>7. n \in T /\ \A t \in T : t <= n
  BY <1>3, <1>5, <1>6, GreatestOf
<1>8. ASSUME NEW i \in DOMAIN tb.node, n < i PROVE i \in Used(tb)
  <2>1. CASE tb.lastfree <= i
    BY <2>1 DEF Sound, NoneFree
  <2>2. CASE ~(tb.lastfree <= i)
    <3>1. i \in 1 .. tb.lastfree - 1
      BY <1>5, <2>2
    <3>2. i \notin T
      BY <1>5, <1>6, <1>7, <1>8
    <3> QED
      BY <1>1, <3>1, <3>2 DEF Used
  <2> QED
    BY <2>1, <2>2
<1>9. CASE n = 0
  BY <1>2, <1>5, <1>8, <1>9
<1>10. CASE n # 0
  <2>1. n \in 1 .. tb.lastfree - 1 /\ tb.node[n].key = NoKey
    BY <1>1, <1>7, <1>10
  <2>2. n \in DOMAIN tb.node /\ n \notin Used(tb)
    BY <1>5, <2>1 DEF Used
  <2> QED
    BY <1>2, <1>8, <2>2
<1> QED
  BY <1>9, <1>10

\* w has the nodes of tb, f[i] the former place of node i, and key at m; a node
\* that is lost had no value.
Takes(tb, w, key, x, m, f) ==
  /\ m \in Used(w) /\ w.node[m].key = key /\ w.node[m].val = x
  /\ \A i \in DOMAIN w.node : i \notin Used(w) => w.node[i].val = Absent
  /\ \A i \in Used(w) \ {m} : /\ f[i] \in Used(tb) /\ w.node[i].key = tb.node[f[i]].key
                              /\ w.node[i].val = tb.node[f[i]].val
  /\ \A i, j \in Used(w) \ {m} : f[i] = f[j] => i = j
  /\ \A j \in Used(tb) : tb.node[j].val # Absent => \E i \in Used(w) \ {m} : f[i] = j
  /\ \A i, j \in Used(w) \ {m} : Reach(Links(tb), f[i], f[j]) => Reach(Links(w), i, j)
  /\ \A j \in Used(w) \ {m} : Named(w.node[j].key) = key => Reach(Links(w), m, j)

LEMMA TakesKeeps ==
  ASSUME NEW tb, Sound(tb), NEW w, w \in Tables, Len(w.node) = Len(tb.node), w.array = tb.array, w.stuck = tb.stuck,
         NEW key \in Keys, NEW x \in Values, luaH_get(tb, key) = <<>>,
         NEW m, NEW f, Takes(tb, w, key, x, m, f),
         Links(w) \in LinksOf(Len(w.node)), Woven(Used(w), Homes(w), Links(w)), NoneFree(w)
  PROVE  Stored(tb, w, key, x)
<1>1. ~InArray(tb, key) /\ \A i \in DOMAIN tb.node : tb.node[i].key # key
  <2>1. ~InArray(tb, key)
    <3> SUFFICES ASSUME InArray(tb, key) PROVE FALSE
      OBVIOUS
    <3>1. luaH_get(tb, key) = <<"array", key[2]>>
      BY GetInArray
    <3> QED
      BY <3>1
  <2>2. \/ /\ luaH_get(tb, key) = <<>> /\ Lookup(tb, key) = Absent
           /\ \A i \in DOMAIN tb.node : tb.node[i].key # key
        \/ \E i \in DOMAIN tb.node :
             /\ tb.node[i].key = key /\ luaH_get(tb, key) = <<"node", i>> /\ Lookup(tb, key) = tb.node[i].val
             /\ \A j \in DOMAIN tb.node : tb.node[j].key = key => j = i
    BY <2>1, GetIs
  <2>3. \A i : <<"node", i>> # <<>>
    OBVIOUS
  <2> QED
    BY <2>1, <2>2, <2>3
<1>2. DOMAIN w.node = DOMAIN tb.node /\ tb \in Tables
  BY TableFacts DEF Sound
<1>3. \A k : InArray(w, k) <=> InArray(tb, k)
  BY DEF InArray
<1>4. \A i \in Used(w) : i \in DOMAIN w.node
  BY DEF Used
<1>5. \A i \in Used(tb) : i \in DOMAIN tb.node
  BY DEF Used
<1>6. Unvalued(w)
  <2> SUFFICES ASSUME NEW i \in DOMAIN w.node, w.node[i].key \notin Keys PROVE w.node[i].val = Absent
    BY DEF Unvalued
  <2>1. CASE i \notin Used(w)
    BY <2>1 DEF Takes
  <2>2. CASE i \in Used(w)
    <3>1. i # m
      BY DEF Takes
    <3>2. f[i] \in DOMAIN tb.node /\ w.node[i].key = tb.node[f[i]].key /\ w.node[i].val = tb.node[f[i]].val
      BY <1>5, <2>2, <3>1 DEF Takes
    <3> QED
      BY <3>2 DEF Sound, Unvalued
  <2> QED
    BY <2>1, <2>2
<1>7. \A i \in Used(w) : w.node[i].key = key => i = m
  BY <1>1, <1>5 DEF Takes
<1>8. Unique(w)
  <2> SUFFICES ASSUME NEW i \in DOMAIN w.node, NEW j \in DOMAIN w.node, w.node[i].key \in Keys,
                      w.node[i].key = w.node[j].key
               PROVE  i = j
    BY DEF Unique
  <2>1. i \in Used(w) /\ j \in Used(w)
    BY KeyFacts DEF Used
  <2>2. CASE i = m \/ j = m
    <3>1. w.node[i].key = key /\ w.node[j].key = key
      BY <2>2 DEF Takes
    <3> QED
      BY <1>7, <2>1, <3>1
  <2>3. CASE i # m /\ j # m
    <3>1. f[i] \in DOMAIN tb.node /\ f[j] \in DOMAIN tb.node /\ tb.node[f[i]].key \in Keys
          /\ tb.node[f[i]].key = tb.node[f[j]].key
      BY <1>5, <2>1, <2>3 DEF Takes
    <3>2. f[i] = f[j]
      BY <3>1 DEF Sound, Unique
    <3> QED
      BY <2>1, <2>3, <3>2 DEF Takes
  <2> QED
    BY <2>2, <2>3
<1>9. LiveFirst(w)
  <2> SUFFICES ASSUME NEW i \in Used(w), NEW j \in Used(w), w.node[i].key \in Keys,
                      Named(w.node[j].key) = w.node[i].key
               PROVE  Reach(Links(w), i, j)
    BY DEF LiveFirst
  <2>1. CASE i = j
    <3>1. i \in DOMAIN Links(w)
      BY <1>4 DEF Links
    <3> QED
      BY <2>1, <3>1, ReachSelf
  <2>2. CASE i # j /\ i = m
    BY <2>2 DEF Takes
  <2>3. CASE i # j /\ j = m
    <3>1. w.node[i].key = key
      BY <2>3, KeyFacts DEF Takes
    <3> QED
      BY <1>7, <2>3, <3>1
  <2>4. CASE i # m /\ j # m
    <3>1. f[i] \in Used(tb) /\ f[j] \in Used(tb) /\ tb.node[f[i]].key \in Keys
          /\ Named(tb.node[f[j]].key) = tb.node[f[i]].key
      BY <2>4 DEF Takes
    <3>2. Reach(Links(tb), f[i], f[j])
      BY <3>1 DEF Sound, LiveFirst
    <3> QED
      BY <2>4, <3>2 DEF Takes
  <2> QED
    BY <2>1, <2>2, <2>3, <2>4
<1>10. Keyed(w)
  BY DEF Sound, Keyed
<1>11. Sound(w)
  BY <1>6, <1>8, <1>9, <1>10 DEF Sound
<1>12. Lookup(w, key) = x
  <2>1. m \in DOMAIN w.node /\ w.node[m].key = key /\ w.node[m].val = x
    BY <1>4 DEF Takes
  <2>2. \/ /\ luaH_get(w, key) = <<>> /\ Lookup(w, key) = Absent
           /\ \A i \in DOMAIN w.node : w.node[i].key # key
        \/ \E i \in DOMAIN w.node :
             /\ w.node[i].key = key /\ luaH_get(w, key) = <<"node", i>> /\ Lookup(w, key) = w.node[i].val
             /\ \A j \in DOMAIN w.node : w.node[j].key = key => j = i
    BY <1>1, <1>3, <1>11, GetIs
  <2> QED
    BY <2>1, <2>2
<1>13. ASSUME NEW k \in Keys \ {key} PROVE Lookup(w, k) = Lookup(tb, k)
  <2>1. CASE InArray(tb, k)
    <3>1. Lookup(w, k) = w.array[k[2]]
      BY <1>3, <2>1, GetInArray
    <3>2. Lookup(tb, k) = tb.array[k[2]]
      BY <2>1, GetInArray
    <3> QED
      BY <3>1, <3>2
  <2>2. CASE ~InArray(tb, k)
    <3>1. ~InArray(w, k)
      BY <1>3, <2>2
    <3>2. ASSUME NEW y, y # Absent, Has(w, k, y) PROVE Has(tb, k, y)
      <4>1. PICK i \in DOMAIN w.node : w.node[i].key = k /\ w.node[i].val = y
        BY <3>2 DEF Has
      <4>2. i \in Used(w) /\ i # m
        BY <4>1, KeyFacts DEF Used, Takes
      <4>3. f[i] \in DOMAIN tb.node /\ tb.node[f[i]].key = k /\ tb.node[f[i]].val = y
        BY <1>5, <4>1, <4>2 DEF Takes
      <4> QED
        BY <4>3 DEF Has
    <3>3. ASSUME NEW y, y # Absent, Has(tb, k, y) PROVE Has(w, k, y)
      <4>1. PICK j \in DOMAIN tb.node : tb.node[j].key = k /\ tb.node[j].val = y
        BY <3>3 DEF Has
      <4>2. j \in Used(tb)
        BY <4>1, KeyFacts DEF Used
      <4>3. PICK i \in Used(w) \ {m} : f[i] = j
        BY <3>3, <4>1, <4>2 DEF Takes
      <4>4. i \in DOMAIN w.node /\ w.node[i].key = k /\ w.node[i].val = y
        BY <1>4, <4>1, <4>3 DEF Takes
      <4> QED
        BY <4>4 DEF Has
    <3> QED
      BY <2>2, <3>1, <3>2, <3>3, <1>11, SameLookup
  <2> QED
    BY <2>1, <2>2
<1>14. ASSUME NEW k \in KeysIn(w) PROVE k \in KeysIn(tb) \/ (k = key /\ ~InArray(tb, key))
  <2>1. PICK i \in Used(w) : k = w.node[i].key
    BY DEF KeysIn
  <2>2. CASE i = m
    BY <1>1, <2>1, <2>2 DEF Takes
  <2>3. CASE i # m
    <3>1. f[i] \in Used(tb) /\ k = tb.node[f[i]].key
      BY <2>1, <2>3 DEF Takes
    <3> QED
      BY <3>1 DEF KeysIn
  <2> QED
    BY <2>2, <2>3
<1> QED
  BY <1>11, <1>12, <1>13, <1>14 DEF Stored

\* What the places of an insertion have in common.
LEMMA InsertFacts ==
  ASSUME NEW tb, Sound(tb), NEW key \in Keys, luaH_get(tb, key) = <<>>, tb.node # <<>>,
         NEW mp, mp = mainposition(tb, key)
  PROVE  /\ tb \in Tables /\ tb.node \in Seq(NodeRecords) /\ Len(tb.node) \in Nat /\ Len(tb.node) # 0
         /\ DOMAIN tb.node = 1 .. Len(tb.node) /\ mp \in 1 .. Len(tb.node)
         /\ Links(tb) \in LinksOf(Len(tb.node)) /\ Used(tb) \subseteq 1 .. Len(tb.node)
         /\ Woven(Used(tb), Homes(tb), Links(tb))
         /\ \A i \in Used(tb) : Named(tb.node[i].key) = key => Homes(tb)[i] = mp
         /\ \A i \in DOMAIN tb.node : tb.node[i].key # key
         /\ \A i \in DOMAIN tb.node : i \notin Used(tb) => tb.node[i].val = Absent
<1>1. tb \in Tables /\ tb.node \in Seq(NodeRecords) /\ Len(tb.node) \in Nat /\ Len(tb.node) # 0
      /\ DOMAIN tb.node = 1 .. Len(tb.node)
  BY TableFacts DEF Sound, Tables
<1>2. mp \in 1 .. Len(tb.node)
  BY <1>1, MainPosition
<1>3. Used(tb) \subseteq 1 .. Len(tb.node)
  BY <1>1 DEF Used
<1>4. \A i \in Used(tb) : Named(tb.node[i].key) = key => Homes(tb)[i] = mp
  BY DEF Homes
<1>5. \A i \in DOMAIN tb.node : tb.node[i].key # key
  <2>1. ~InArray(tb, key)
    <3> SUFFICES ASSUME InArray(tb, key) PROVE FALSE
      OBVIOUS
    <3>1. luaH_get(tb, key) = <<"array", key[2]>>
      BY GetInArray
    <3> QED
      BY <3>1
  <2>2. \/ /\ luaH_get(tb, key) = <<>> /\ Lookup(tb, key) = Absent
           /\ \A i \in DOMAIN tb.node : tb.node[i].key # key
        \/ \E i \in DOMAIN tb.node :
             /\ tb.node[i].key = key /\ luaH_get(tb, key) = <<"node", i>> /\ Lookup(tb, key) = tb.node[i].val
             /\ \A j \in DOMAIN tb.node : tb.node[j].key = key => j = i
    BY <2>1, GetIs
  <2>3. \A i : <<"node", i>> # <<>>
    OBVIOUS
  <2> QED
    BY <2>2, <2>3
<1>6. \A i \in DOMAIN tb.node : i \notin Used(tb) => tb.node[i].val = Absent
  <2>1. NoKey \notin Keys
    BY KeyFacts
  <2> QED
    BY <2>1 DEF Sound, Unvalued, Used
<1> QED
  BY <1>1, <1>2, <1>3, <1>4, <1>5, <1>6 DEF Sound

LEMMA DirectKeeps ==
  ASSUME NEW tb, Sound(tb), NEW key \in Keys, NEW x \in Values, luaH_get(tb, key) = <<>>, Direct(tb, key),
         NEW mp, mp = mainposition(tb, key),
         NEW w, w = [tb EXCEPT !.node[mp].key = key, !.node[mp].val = x]
  PROVE  Stored(tb, w, key, x)
<1>1. PICK N : N = Len(tb.node)
  OBVIOUS
<1>2. tb.node # <<>> /\ tb.node[mp].val = Absent
  BY DEF Direct
<1>3. /\ tb \in Tables /\ tb.node \in Seq(NodeRecords) /\ N \in Nat /\ N # 0
      /\ DOMAIN tb.node = 1 .. N /\ mp \in 1 .. N
      /\ Links(tb) \in LinksOf(N) /\ Used(tb) \subseteq 1 .. N
      /\ Woven(Used(tb), Homes(tb), Links(tb))
      /\ \A i \in Used(tb) : Named(tb.node[i].key) = key => Homes(tb)[i] = mp
      /\ \A i \in DOMAIN tb.node : i \notin Used(tb) => tb.node[i].val = Absent
  BY <1>1, <1>2, InsertFacts
<1>4. PICK e : e = [key |-> key, val |-> x, next |-> tb.node[mp].next]
  OBVIOUS
<1>5. e \in NodeRecords
  BY <1>3, <1>4, NodeFacts DEF NodeRecords, NodeKeys
<1>6. PICK b : b = [tb.node EXCEPT ![mp] = e]
  OBVIOUS
<1>7. b \in Seq(NodeRecords) /\ Len(b) = N /\ \A m \in 1 .. N : b[m] = IF m = mp THEN e ELSE tb.node[m]
  BY <1>1, <1>3, <1>5, <1>6, ExceptSeq
<1>8. w.node = b /\ w.array = tb.array /\ w.lastfree = tb.lastfree /\ w.stuck = tb.stuck
      /\ w = [array |-> tb.array, node |-> b, lastfree |-> tb.lastfree, stuck |-> tb.stuck]
  <2>1. tb.node[mp] \in NodeRecords
    BY <1>3, NodeFacts
  <2>2. [[tb.node[mp] EXCEPT !.key = key] EXCEPT !.val = x] = e
    <3>1. PICK y : y = [tb.node[mp] EXCEPT !.key = key]
      OBVIOUS
    <3>2. y = [key |-> key, val |-> tb.node[mp].val, next |-> tb.node[mp].next]
      BY <2>1, <3>1 DEF NodeRecords
    <3>3. [y EXCEPT !.val = x] = e
      BY <3>2, <1>4
    <3> QED
      BY <3>1, <3>3
  <2>3. w = [tb EXCEPT !.node = b]
    BY <1>3, <1>6, <2>2 DEF Tables
  <2> QED
    BY <1>3, <2>3 DEF Tables
<1>9. w \in Tables /\ DOMAIN w.node = 1 .. N /\ Len(w.node) = N
  BY <1>3, <1>7, <1>8, TableFacts DEF Tables
<1>10. \A i \in 1 .. N : /\ w.node[i].key = IF i = mp THEN key ELSE tb.node[i].key
                         /\ w.node[i].val = IF i = mp THEN x ELSE tb.node[i].val
                         /\ w.node[i].next = tb.node[i].next
  BY <1>4, <1>7, <1>8
<1>11. Links(w) = Links(tb)
  BY <1>3, <1>9, <1>10 DEF Links
<1>12. Used(w) = Used(tb) \cup {mp}
  <2>1. key # NoKey
    BY KeyFacts
  <2> QED
    BY <1>3, <1>9, <1>10, <2>1 DEF Used
<1>13. Homes(w)[mp] = mp /\ \A i \in Used(tb) \ {mp} : Homes(w)[i] = Homes(tb)[i]
  <2>1. \A k : mainposition(w, k) = mainposition(tb, k)
    <3>1. tb \in Tables /\ w \in Tables /\ Len(w.node) = Len(tb.node)
      BY <1>1, <1>3, <1>9
    <3> QED
      BY ONLY <3>1, SameMain
  <2>2. Homes(w)[mp] = mp
    BY <1>3, <1>10, <1>12, <2>1, KeyFacts DEF Homes
  <2>3. \A i \in Used(tb) \ {mp} : Homes(w)[i] = Homes(tb)[i]
    BY <1>3, <1>10, <1>12, <2>1 DEF Homes
  <2> QED
    BY <2>2, <2>3
<1>14. Woven(Used(w), Homes(w), Links(w))
  <2>1. PICK U, h, g, nx : U = Used(tb) /\ h = Homes(tb) /\ g = Homes(w) /\ nx = Links(tb)
    OBVIOUS
  <2>2. U \in SUBSET (1 .. N) /\ Woven(U, h, nx) /\ g[mp] = mp /\ (\A i \in U \ {mp} : g[i] = h[i])
        /\ nx \in LinksOf(N) /\ N \in Nat /\ mp \in 1 .. N
    BY <1>3, <1>13, <2>1
  <2>3. Woven(U \cup {mp}, g, nx)
    BY ONLY <2>2, WovenDirect
  <2> QED
    BY <1>11, <1>12, <2>1, <2>3
<1>15. NoneFree(w)
  BY <1>1, <1>3, <1>8, <1>9, <1>12 DEF NoneFree, Sound
<1>16. PICK f : f = [i \in 1 .. N |-> i]
  OBVIOUS
<1>17. Takes(tb, w, key, x, mp, f)
  <2>1. mp \in Used(w) /\ w.node[mp].key = key /\ w.node[mp].val = x
    BY <1>3, <1>10, <1>12
  <2>2. \A i \in DOMAIN w.node : i \notin Used(w) => w.node[i].val = Absent
    BY <1>3, <1>9, <1>10, <1>12
  <2>3. \A i \in Used(w) \ {mp} : i \in Used(tb) /\ i # mp /\ f[i] = i /\ w.node[i].key = tb.node[i].key
                                  /\ w.node[i].val = tb.node[i].val
    BY <1>3, <1>10, <1>12, <1>16
  <2>4. \A j \in Used(tb) : tb.node[j].val # Absent => j \in Used(w) \ {mp}
    BY <1>2, <1>12
  <2>5. ASSUME NEW j \in Used(w) \ {mp}, Named(w.node[j].key) = key PROVE Reach(Links(w), mp, j)
    <3>1. j \in Used(tb) /\ Named(tb.node[j].key) = key
      BY <2>3, <2>5
    <3>2. Homes(tb)[j] = mp
      BY <1>3, <3>1
    <3> QED
      BY <1>3, <1>11, <3>1, <3>2 DEF Woven
  <2> QED
    BY <1>11, <2>1, <2>2, <2>3, <2>4, <2>5 DEF Takes
<1>18. w \in Tables /\ Len(w.node) = Len(tb.node) /\ w.array = tb.array /\ w.stuck = tb.stuck
  BY <1>1, <1>8, <1>9
<1>19. Links(w) \in LinksOf(Len(w.node))
  BY <1>3, <1>9, <1>11
<1>20. Sound(tb) /\ key \in Keys /\ x \in Values /\ luaH_get(tb, key) = <<>>
  OBVIOUS
<1> QED
  BY ONLY <1>14, <1>15, <1>17, <1>18, <1>19, <1>20, TakesKeeps

LEMMA BehindKeeps ==
  ASSUME NEW tb, Sound(tb), NEW key \in Keys, NEW x \in Values, luaH_get(tb, key) = <<>>, tb.node # <<>>,
         NEW mp, mp = mainposition(tb, key), tb.node[mp].val # Absent,
         NEW n, n = getfreepos(tb), n # 0, mainposition(tb, tb.node[mp].key) = mp,
         NEW w, w = ChainAfter(Taken(tb, n), mp, n, key, x)
  PROVE  Stored(tb, w, key, x)
<1>1. PICK N : N = Len(tb.node)
  OBVIOUS
<1>3. /\ tb \in Tables /\ tb.node \in Seq(NodeRecords) /\ N \in Nat /\ N # 0
      /\ DOMAIN tb.node = 1 .. N /\ mp \in 1 .. N
      /\ Links(tb) \in LinksOf(N) /\ Used(tb) \subseteq 1 .. N
      /\ Woven(Used(tb), Homes(tb), Links(tb))
      /\ \A i \in Used(tb) : Named(tb.node[i].key) = key => Homes(tb)[i] = mp
      /\ \A i \in DOMAIN tb.node : tb.node[i].key # key
      /\ \A i \in DOMAIN tb.node : i \notin Used(tb) => tb.node[i].val = Absent
  BY <1>1, InsertFacts
<1>4. n \in (1 .. N) \ Used(tb) /\ mp \in Used(tb) /\ mp # n /\ \A i \in 1 .. N : n < i => i \in Used(tb)
  BY <1>3, FreePlace
<1>5. tb.node[mp].key \in Keys /\ Named(tb.node[mp].key) # key /\ Homes(tb)[mp] = mp
  <2>1. tb.node[mp].key \in Keys
    BY <1>3 DEF Sound, Unvalued
  <2>2. Named(tb.node[mp].key) = tb.node[mp].key
    BY <2>1, KeyFacts
  <2> QED
    BY <1>3, <1>4, <2>1, <2>2 DEF Homes
<1>6. PICK e, d : e = [key |-> key, val |-> x, next |-> tb.node[mp].next] /\ d = [tb.node[mp] EXCEPT !.next = n]
  OBVIOUS
<1>7. e \in NodeRecords /\ d \in NodeRecords /\ d.key = tb.node[mp].key /\ d.val = tb.node[mp].val /\ d.next = n
      /\ d = [key |-> tb.node[mp].key, val |-> tb.node[mp].val, next |-> n]
  <2>1. tb.node[mp] \in NodeRecords /\ tb.node[mp].next \in Nat
    BY <1>3, NodeFacts
  <2>2. e \in NodeRecords
    BY <1>6, <2>1 DEF NodeRecords, NodeKeys
  <2>3. d = [key |-> tb.node[mp].key, val |-> tb.node[mp].val, next |-> n] /\ n \in Nat
    BY <1>4, <1>6, <2>1 DEF NodeRecords
  <2>4. d \in NodeRecords
    BY <2>1, <2>3 DEF NodeRecords
  <2> QED
    BY <2>2, <2>3, <2>4
<1>8. PICK a, b : a = [tb.node EXCEPT ![n] = e] /\ b = [a EXCEPT ![mp] = d]
  OBVIOUS
<1>9. b \in Seq(NodeRecords) /\ Len(b) = N
      /\ \A i \in 1 .. N : b[i] = IF i = mp THEN d ELSE IF i = n THEN e ELSE tb.node[i]
  <2>1. a \in Seq(NodeRecords) /\ Len(a) = N /\ \A i \in 1 .. N : a[i] = IF i = n THEN e ELSE tb.node[i]
    BY <1>1, <1>3, <1>4, <1>7, <1>8, ExceptSeq
  <2>2. b \in Seq(NodeRecords) /\ Len(b) = N /\ \A i \in 1 .. N : b[i] = IF i = mp THEN d ELSE a[i]
    BY <1>3, <1>7, <1>8, <2>1, ExceptSeq
  <2> QED
    BY <2>1, <2>2
<1>10. w.node = b /\ w.array = tb.array /\ w.lastfree = n /\ w.stuck = tb.stuck
       /\ w = [array |-> tb.array, node |-> b, lastfree |-> n, stuck |-> tb.stuck]
  <2>1. PICK u : u = Taken(tb, n)
    OBVIOUS
  <2>2. u = [array |-> tb.array, node |-> tb.node, lastfree |-> n, stuck |-> tb.stuck]
    BY <1>3, <2>1 DEF Taken, Tables
  <2>3. w = [u EXCEPT !.node[n] = e, !.node[mp].next = n]
    BY <1>6, <2>1, <2>2 DEF ChainAfter
  <2>4. PICK y : y = [u EXCEPT !.node[n] = e]
    OBVIOUS
  <2>5. y = [array |-> tb.array, node |-> a, lastfree |-> n, stuck |-> tb.stuck]
    BY <1>8, <2>2, <2>4
  <2>6. w = [y EXCEPT !.node[mp].next = n]
    BY <2>3, <2>4
  <2>7. a[mp] = tb.node[mp]
    BY <1>3, <1>4, <1>8
  <2>8. w = [y EXCEPT !.node = b]
    BY <1>6, <1>8, <2>5, <2>6, <2>7
  <2> QED
    BY <2>5, <2>8
<1>11. w \in Tables /\ DOMAIN w.node = 1 .. N /\ Len(w.node) = N
  BY <1>3, <1>4, <1>9, <1>10, TableFacts DEF Tables
<1>12. \A i \in 1 .. N : /\ w.node[i].key = IF i = n THEN key ELSE tb.node[i].key
                         /\ w.node[i].val = IF i = n THEN x ELSE tb.node[i].val
                         /\ w.node[i].next = IF i = mp THEN n ELSE IF i = n THEN tb.node[mp].next ELSE tb.node[i].next
  BY <1>4, <1>6, <1>7, <1>9, <1>10
<1>13. Behind(N, Links(tb), Links(w), mp, n)
  <2>1. \A i \in 1 .. N : Links(w)[i] = w.node[i].next /\ Links(tb)[i] = tb.node[i].next
    BY <1>3, <1>11 DEF Links
  <2>2. \A i \in 1 .. N : Links(w)[i] = IF i = mp THEN n ELSE IF i = n THEN Links(tb)[mp] ELSE Links(tb)[i]
    BY <1>3, <1>12, <2>1
  <2>3. \A i \in 1 .. N : Links(tb)[i] \in 0 .. N
    BY <1>3 DEF LinksOf
  <2>4. Links(w) = [i \in 1 .. N |-> Links(w)[i]]
    BY <1>11 DEF Links
  <2>5. Links(w) \in LinksOf(N)
    BY <1>3, <1>4, <2>2, <2>3, <2>4 DEF LinksOf
  <2> QED
    BY <1>3, <1>4, <2>2, <2>5 DEF Behind
<1>14. Used(w) = Used(tb) \cup {n}
  <2>1. key # NoKey
    BY KeyFacts
  <2> QED
    BY <1>3, <1>4, <1>11, <1>12, <2>1 DEF Used
<1>15. Homes(w)[n] = mp /\ \A i \in Used(tb) : Homes(w)[i] = Homes(tb)[i]
  <2>1. \A k : mainposition(w, k) = mainposition(tb, k)
    BY <1>1, <1>3, <1>11, SameMain
  <2>2. Homes(w)[n] = mp
    BY <1>4, <1>12, <1>14, <2>1, KeyFacts DEF Homes
  <2>3. \A i \in Used(tb) : Homes(w)[i] = Homes(tb)[i]
    BY <1>3, <1>4, <1>12, <1>14, <2>1 DEF Homes
  <2> QED
    BY <2>2, <2>3
<1>16. Woven(Used(w), Homes(w), Links(w))
  <2>1. PICK U, h, g, nx, ny : U = Used(tb) /\ h = Homes(tb) /\ g = Homes(w) /\ nx = Links(tb) /\ ny = Links(w)
    OBVIOUS
  <2>2. U \in SUBSET (1 .. N) /\ Woven(U, h, nx) /\ g[n] = mp /\ (\A i \in U : g[i] = h[i])
        /\ nx \in LinksOf(N) /\ N \in Nat /\ mp \in U /\ n \in (1 .. N) \ U /\ h[mp] = mp
        /\ Behind(N, nx, ny, mp, n)
    BY <1>3, <1>4, <1>5, <1>13, <1>15, <2>1
  <2>3. Woven(U \cup {n}, g, ny)
    BY ONLY <2>2, WovenBehind
  <2> QED
    BY <1>14, <2>1, <2>3
<1>17. NoneFree(w)
  BY <1>3, <1>4, <1>10, <1>11, <1>14 DEF NoneFree
<1>18. /\ \A i, j \in 1 .. N : i # n /\ Reach(Links(tb), i, j) => Reach(Links(w), i, j)
       /\ \A j \in 1 .. N : j # mp /\ Reach(Links(tb), mp, j) => Reach(Links(w), n, j)
  <2>1. \A i \in 1 .. N : Links(tb)[i] # n
    BY <1>3, <1>4 DEF Woven, LinksOf
  <2>2. PICK nx, ny : nx = Links(tb) /\ ny = Links(w)
    OBVIOUS
  <2>3. mp \in 1 .. N /\ n \in 1 .. N /\ mp # n
    BY <1>3, <1>4
  <2>4. Behind(N, nx, ny, mp, n) /\ \A i \in 1 .. N : nx[i] # n
    BY <1>13, <2>1, <2>2
  <2>5. N \in Nat /\ nx \in LinksOf(N)
    BY <1>3, <2>2
  <2>6. ASSUME NEW i \in 1 .. N, NEW j \in 1 .. N, i # n, Reach(nx, i, j) PROVE Reach(ny, i, j)
    BY ONLY <2>3, <2>4, <2>5, <2>6, i \in 1 .. N, j \in 1 .. N, BehindReach
  <2>7. ASSUME NEW j \in 1 .. N, j # mp, Reach(nx, mp, j) PROVE Reach(ny, n, j)
    BY ONLY <2>3, <2>4, <2>5, <2>7, j \in 1 .. N, BehindNext
  <2> QED
    BY <2>2, <2>6, <2>7
<1>19. PICK f : f = [i \in 1 .. N |-> i]
  OBVIOUS
<1>20. Takes(tb, w, key, x, n, f)
  <2>1. n \in Used(w) /\ w.node[n].key = key /\ w.node[n].val = x
    BY <1>4, <1>12, <1>14
  <2>2. \A i \in DOMAIN w.node : i \notin Used(w) => w.node[i].val = Absent
    BY <1>3, <1>11, <1>12, <1>14
  <2>3. \A i \in Used(w) \ {n} : i \in Used(tb) /\ i # n /\ f[i] = i /\ w.node[i].key = tb.node[i].key
                                 /\ w.node[i].val = tb.node[i].val
    BY <1>3, <1>12, <1>14, <1>19
  <2>4. \A j \in Used(tb) : tb.node[j].val # Absent => j \in Used(w) \ {n}
    BY <1>4, <1>14
  <2>5. ASSUME NEW j \in Used(w) \ {n}, Named(w.node[j].key) = key PROVE Reach(Links(w), n, j)
    <3>1. j \in Used(tb) /\ Named(tb.node[j].key) = key
      BY <2>3, <2>5
    <3>2. Homes(tb)[j] = mp /\ j # mp
      BY <1>3, <1>5, <3>1
    <3>3. Reach(Links(tb), mp, j)
      BY <1>3, <3>1, <3>2 DEF Woven
    <3> QED
      BY <1>3, <1>18, <3>1, <3>2, <3>3
  <2>6. \A i, j \in Used(w) \ {n} : Reach(Links(tb), i, j) => Reach(Links(w), i, j)
    BY <1>3, <1>18, <2>3
  <2> QED
    BY <2>1, <2>2, <2>3, <2>4, <2>5, <2>6 DEF Takes
<1>21. Links(w) \in LinksOf(Len(w.node))
  BY <1>11, <1>13 DEF Behind
<1> QED
  BY <1>1, <1>10, <1>11, <1>16, <1>17, <1>20, <1>21, TakesKeeps

\* The node before mp in the chain of the key that stands at mp.
LEMMA PreviousIs ==
  ASSUME NEW tb \in Tables, NEW N, N = Len(tb.node), Links(tb) \in LinksOf(N), Acyclic(Links(tb)),
         NEW key, NEW q \in 1 .. N, q = mainposition(tb, key),
         NEW mp \in 1 .. N, mp # q, Reach(Links(tb), q, mp)
  PROVE  Previous(tb, key, mp) \in 1 .. N /\ tb.node[Previous(tb, key, mp)].next = mp
<1>1. N \in Nat /\ N # 0 /\ DOMAIN tb.node = 1 .. N
  BY TableFacts
<1>2. PICK c : c = Chain(tb, key)
  OBVIOUS
<1>3. Walk(N, Links(tb), q, c)
  BY <1>1, <1>2, ChainWalks
<1>4. PICK b \in 0 .. N - 1 : c[b] = mp
  BY <1>1, <1>3, WalkCovers
<1>5. c[0] = q /\ \A k \in 1 .. N - 1 : c[k] = IF c[k - 1] = 0 THEN 0 ELSE Links(tb)[c[k - 1]]
  BY <1>1, <1>3, WalkGoesOn
<1>6. b \in 1 .. N - 1 /\ b - 1 \in 0 .. N - 1
  BY <1>4, <1>5
<1>7. c[b - 1] \in 0 .. N /\ DOMAIN c = 0 .. N - 1 /\ \A k \in 0 .. N - 1 : c[k] \in 0 .. N
  BY <1>3, <1>6 DEF Walk
<1>8. c[b - 1] # 0 /\ Links(tb)[c[b - 1]] = mp
  BY <1>4, <1>5, <1>6
<1>9. \A i \in 0 .. N : i # 0 => i \in 1 .. N /\ Links(tb)[i] = tb.node[i].next
  BY <1>1 DEF Links
<1>10. PICK R : R = Range(c)
  OBVIOUS
<1>11. R \subseteq 0 .. N /\ c[b - 1] \in R
  BY <1>6, <1>7, <1>10 DEF Range
<1>12. PICK p : p = Previous(tb, key, mp)
  OBVIOUS
<1>13. p = CHOOSE i \in R : i # 0 /\ tb.node[i].next = mp
  BY <1>2, <1>10, <1>12 DEF Previous
<1>14. c[b - 1] \in R /\ c[b - 1] # 0 /\ tb.node[c[b - 1]].next = mp
  BY <1>7, <1>8, <1>9, <1>11
<1>15. p \in R /\ p # 0 /\ tb.node[p].next = mp
  BY <1>13, <1>14
<1> QED
  BY <1>9, <1>11, <1>12, <1>15

LEMMA AwayKeeps ==
  ASSUME NEW tb, Sound(tb), NEW key \in Keys, NEW x \in Values, luaH_get(tb, key) = <<>>, tb.node # <<>>,
         NEW mp, mp = mainposition(tb, key), tb.node[mp].val # Absent,
         NEW n, n = getfreepos(tb), n # 0, mainposition(tb, tb.node[mp].key) # mp,
         NEW w, w = MoveAway(Taken(tb, n), mp, n, key, x)
  PROVE  Stored(tb, w, key, x)
<1>1. PICK N : N = Len(tb.node)
  OBVIOUS
<1>3. /\ tb \in Tables /\ tb.node \in Seq(NodeRecords) /\ N \in Nat /\ N # 0
      /\ DOMAIN tb.node = 1 .. N /\ mp \in 1 .. N
      /\ Links(tb) \in LinksOf(N) /\ Used(tb) \subseteq 1 .. N
      /\ Woven(Used(tb), Homes(tb), Links(tb))
      /\ \A i \in Used(tb) : Named(tb.node[i].key) = key => Homes(tb)[i] = mp
      /\ \A i \in DOMAIN tb.node : tb.node[i].key # key
      /\ \A i \in DOMAIN tb.node : i \notin Used(tb) => tb.node[i].val = Absent
  BY <1>1, InsertFacts
<1>4. n \in (1 .. N) \ Used(tb) /\ mp \in Used(tb) /\ mp # n /\ \A i \in 1 .. N : n < i => i \in Used(tb)
  BY <1>3, FreePlace
<1>5. tb.node[mp].key \in Keys /\ Named(tb.node[mp].key) # key /\ Homes(tb)[mp] # mp
      /\ Homes(tb)[mp] = mainposition(tb, tb.node[mp].key)
  <2>1. tb.node[mp].key \in Keys
    BY <1>3 DEF Sound, Unvalued
  <2>2. Named(tb.node[mp].key) = tb.node[mp].key
    BY <2>1, KeyFacts
  <2> QED
    BY <1>3, <1>4, <2>1, <2>2 DEF Homes
<1>6. PICK u : u = Taken(tb, n)
  OBVIOUS
<1>7. u = [array |-> tb.array, node |-> tb.node, lastfree |-> n, stuck |-> tb.stuck] /\ u \in Tables
  <2>1. n \in Nat
    BY <1>4
  <2> QED
    BY <1>3, <1>6, <2>1 DEF Taken, Tables
<1>8. PICK p : p = Previous(u, tb.node[mp].key, mp)
  OBVIOUS
<1>9. p \in 1 .. N /\ tb.node[p].next = mp
  <2>1. Links(u) = Links(tb) /\ Len(u.node) = N
    BY <1>1, <1>7 DEF Links
  <2>2. Acyclic(Links(tb)) /\ Homes(tb)[mp] \in 1 .. N /\ Reach(Links(tb), Homes(tb)[mp], mp)
    BY <1>3, <1>4 DEF Woven
  <2>3. Homes(tb)[mp] = mainposition(u, tb.node[mp].key)
    BY <1>1, <1>3, <1>5, <1>7, <2>1, SameMain
  <2>4. p \in 1 .. N /\ u.node[p].next = mp
    BY <1>3, <1>5, <1>7, <1>8, <2>1, <2>2, <2>3, PreviousIs
  <2> QED
    BY <1>7, <2>4
<1>10. p # n /\ p # mp
  <2>1. Links(tb)[p] = mp /\ Links(tb)[n] = 0
    BY <1>3, <1>4, <1>9 DEF Links, Woven
  <2>2. p # n
    BY <1>3, <2>1
  <2>3. {mp} \in SUBSET DOMAIN Links(tb) /\ {mp} # {}
    BY <1>3 DEF Links
  <2>4. Links(tb)[mp] # mp
    <3>1. Acyclic(Links(tb))
      BY <1>3 DEF Woven
    <3>2. PICK S : S = {mp}
      OBVIOUS
    <3>3. PICK i \in S : Links(tb)[i] \notin S
      BY <2>3, <3>1, <3>2 DEF Acyclic
    <3> QED
      BY <3>2, <3>3
  <2> QED
    BY <2>1, <2>2, <2>4
<1>11. PICK e, d, o : e = [key |-> key, val |-> x, next |-> 0] /\ d = [tb.node[p] EXCEPT !.next = n] /\ o = tb.node[mp]
  OBVIOUS
<1>12. e \in NodeRecords /\ d \in NodeRecords /\ o \in NodeRecords
       /\ d = [key |-> tb.node[p].key, val |-> tb.node[p].val, next |-> n]
  <2>1. tb.node[mp] \in NodeRecords /\ tb.node[p] \in NodeRecords /\ tb.node[p].key \in NodeKeys
        /\ tb.node[p].val \in Values
    BY <1>3, <1>9, NodeFacts
  <2>2. e \in NodeRecords
    BY <1>11, <2>1 DEF NodeRecords, NodeKeys
  <2>3. d = [key |-> tb.node[p].key, val |-> tb.node[p].val, next |-> n] /\ n \in Nat
    BY <1>4, <1>11, <2>1 DEF NodeRecords
  <2>4. d \in NodeRecords
    BY <2>1, <2>3 DEF NodeRecords
  <2> QED
    BY <1>11, <2>1, <2>2, <2>3, <2>4
<1>13. PICK a0, a1, b : a0 = [tb.node EXCEPT ![p] = d] /\ a1 = [a0 EXCEPT ![n] = o] /\ b = [a1 EXCEPT ![mp] = e]
  OBVIOUS
<1>14. b \in Seq(NodeRecords) /\ Len(b) = N
       /\ \A i \in 1 .. N : b[i] = IF i = mp THEN e ELSE IF i = n THEN o ELSE IF i = p THEN d ELSE tb.node[i]
  <2>1. a0 \in Seq(NodeRecords) /\ Len(a0) = N /\ \A i \in 1 .. N : a0[i] = IF i = p THEN d ELSE tb.node[i]
    BY <1>1, <1>3, <1>9, <1>12, <1>13, ExceptSeq
  <2>2. a1 \in Seq(NodeRecords) /\ Len(a1) = N /\ \A i \in 1 .. N : a1[i] = IF i = n THEN o ELSE a0[i]
    BY <1>3, <1>4, <1>12, <1>13, <2>1, ExceptSeq
  <2>3. b \in Seq(NodeRecords) /\ Len(b) = N /\ \A i \in 1 .. N : b[i] = IF i = mp THEN e ELSE a1[i]
    BY <1>3, <1>12, <1>13, <2>2, ExceptSeq
  <2> QED
    BY <2>1, <2>2, <2>3
<1>15. w.node = b /\ w.array = tb.array /\ w.lastfree = n /\ w.stuck = tb.stuck
       /\ w = [array |-> tb.array, node |-> b, lastfree |-> n, stuck |-> tb.stuck]
  <2>1. w = [u EXCEPT !.node[p].next = n, !.node[n] = o, !.node[mp] = e]
    BY <1>6, <1>7, <1>8, <1>11 DEF MoveAway
  <2>2. PICK y, z : y = [u EXCEPT !.node[p].next = n] /\ z = [y EXCEPT !.node[n] = o]
    OBVIOUS
  <2>3. w = [z EXCEPT !.node[mp] = e]
    BY <2>1, <2>2
  <2>4. y = [array |-> tb.array, node |-> a0, lastfree |-> n, stuck |-> tb.stuck]
    BY <1>7, <1>11, <1>13, <2>2
  <2>5. z = [array |-> tb.array, node |-> a1, lastfree |-> n, stuck |-> tb.stuck]
    <3>1. y.node = a0 /\ y = [array |-> tb.array, node |-> y.node, lastfree |-> n, stuck |-> tb.stuck]
      BY <2>4
    <3>2. z = [y EXCEPT !.node = [y.node EXCEPT ![n] = o]]
      BY <2>2
    <3>3. z = [y EXCEPT !.node = a1]
      BY <1>13, <3>1, <3>2
    <3> QED
      BY <2>4, <3>3
  <2>6. w = [array |-> tb.array, node |-> b, lastfree |-> n, stuck |-> tb.stuck]
    BY <1>13, <2>3, <2>5
  <2> QED
    BY <2>6
<1>16. w \in Tables /\ DOMAIN w.node = 1 .. N /\ Len(w.node) = N
  BY <1>3, <1>4, <1>14, <1>15, TableFacts DEF Tables
<1>17. \A i \in 1 .. N :
          /\ w.node[i].key = IF i = mp THEN key ELSE IF i = n THEN tb.node[mp].key ELSE tb.node[i].key
          /\ w.node[i].val = IF i = mp THEN x ELSE IF i = n THEN tb.node[mp].val ELSE tb.node[i].val
          /\ w.node[i].next = IF i = mp THEN 0 ELSE IF i = n THEN tb.node[mp].next
                              ELSE IF i = p THEN n ELSE tb.node[i].next
  BY <1>11, <1>12, <1>14, <1>15
<1>18. Away(N, Links(tb), Links(w), p, mp, n)
  <2>1. \A i \in 1 .. N : Links(w)[i] = w.node[i].next /\ Links(tb)[i] = tb.node[i].next
    BY <1>3, <1>16 DEF Links
  <2>2. \A i \in 1 .. N : Links(w)[i] = IF i = mp THEN 0 ELSE IF i = n THEN Links(tb)[mp]
                                        ELSE IF i = p THEN n ELSE Links(tb)[i]
    BY <1>3, <1>17, <2>1
  <2>3. \A i \in 1 .. N : Links(tb)[i] \in 0 .. N
    BY <1>3 DEF LinksOf
  <2>4. Links(w) = [i \in 1 .. N |-> Links(w)[i]]
    BY <1>16 DEF Links
  <2>5. Links(w) \in LinksOf(N)
    BY <1>3, <1>4, <2>2, <2>3, <2>4 DEF LinksOf
  <2> QED
    BY <1>3, <1>4, <1>9, <1>10, <2>2, <2>5 DEF Away
<1>19. Used(w) = Used(tb) \cup {n}
  <2>1. key # NoKey /\ tb.node[mp].key # NoKey
    BY <1>5, KeyFacts
  <2> QED
    BY <1>3, <1>4, <1>16, <1>17, <2>1 DEF Used
<1>20. Homes(w)[n] = Homes(tb)[mp] /\ Homes(w)[mp] = mp /\ \A i \in Used(tb) \ {mp} : Homes(w)[i] = Homes(tb)[i]
  <2>1. \A k : mainposition(w, k) = mainposition(tb, k)
    BY <1>1, <1>3, <1>16, SameMain
  <2>2. Homes(w)[n] = Homes(tb)[mp]
    BY <1>3, <1>4, <1>17, <1>19, <2>1 DEF Homes
  <2>3. Homes(w)[mp] = mp
    BY <1>3, <1>4, <1>17, <1>19, <2>1, KeyFacts DEF Homes
  <2>4. \A i \in Used(tb) \ {mp} : Homes(w)[i] = Homes(tb)[i]
    BY <1>3, <1>4, <1>17, <1>19, <2>1 DEF Homes
  <2> QED
    BY <2>2, <2>3, <2>4
<1>21. /\ Woven(Used(w), Homes(w), Links(w))
       /\ \A i, j \in Used(tb) : Reach(Links(tb), i, j) => Reach(Links(w), MovedTo(mp, n, i), MovedTo(mp, n, j))
  <2>1. PICK U, h, g, nx, ny : U = Used(tb) /\ h = Homes(tb) /\ g = Homes(w) /\ nx = Links(tb) /\ ny = Links(w)
    OBVIOUS
  <2>2. N \in Nat /\ nx \in LinksOf(N) /\ U \in SUBSET (1 .. N) /\ Woven(U, h, nx)
    BY <1>3, <2>1
  <2>3. mp \in U /\ n \in (1 .. N) \ U /\ h[mp] # mp /\ p \in 1 .. N
    BY <1>4, <1>5, <1>9, <2>1
  <2>4. nx[p] = mp
    BY <1>3, <1>9, <2>1 DEF Links
  <2>5. Away(N, nx, ny, p, mp, n)
    BY <1>18, <2>1
  <2>6. g[n] = h[mp] /\ g[mp] = mp /\ \A i \in U \ {mp} : g[i] = h[i]
    BY <1>20, <2>1
  <2>7. Woven(U \cup {n}, g, ny)
    BY ONLY <2>2, <2>3, <2>4, <2>5, <2>6, WovenAway
  <2>8. ASSUME NEW i \in U, NEW j \in U, Reach(nx, i, j) PROVE Reach(ny, MovedTo(mp, n, i), MovedTo(mp, n, j))
    BY ONLY <2>2, <2>3, <2>4, <2>5, <2>8, i \in U, j \in U, AwayKept
  <2> QED
    BY <1>19, <2>1, <2>7, <2>8
<1>22. NoneFree(w)
  BY <1>3, <1>4, <1>15, <1>16, <1>19 DEF NoneFree
<1>23. PICK f : f = [i \in 1 .. N |-> IF i = n THEN mp ELSE i]
  OBVIOUS
<1>24. Takes(tb, w, key, x, mp, f)
  <2>1. mp \in Used(w) /\ w.node[mp].key = key /\ w.node[mp].val = x
    BY <1>3, <1>4, <1>17, <1>19
  <2>2. \A i \in DOMAIN w.node : i \notin Used(w) => w.node[i].val = Absent
    BY <1>3, <1>4, <1>16, <1>17, <1>19
  <2>3. \A i \in Used(w) \ {mp} : /\ f[i] \in Used(tb) /\ MovedTo(mp, n, f[i]) = i /\ f[i] = (IF i = n THEN mp ELSE i)
                                  /\ w.node[i].key = tb.node[f[i]].key /\ w.node[i].val = tb.node[f[i]].val
    BY <1>3, <1>4, <1>17, <1>19, <1>23 DEF MovedTo
  <2>4. \A j \in Used(tb) : \E i \in Used(w) \ {mp} : f[i] = j
    <3> SUFFICES ASSUME NEW j \in Used(tb) PROVE \E i \in Used(w) \ {mp} : f[i] = j
      OBVIOUS
    <3>1. CASE j = mp
      BY <1>4, <1>19, <1>23, <3>1
    <3>2. CASE j # mp
      BY <1>3, <1>4, <1>19, <1>23, <3>2
    <3> QED
      BY <3>1, <3>2
  <2>5. ASSUME NEW j \in Used(w) \ {mp}, Named(w.node[j].key) = key PROVE FALSE
    <3>1. f[j] \in Used(tb) /\ Named(tb.node[f[j]].key) = key
      BY <2>3, <2>5
    <3>2. Homes(tb)[f[j]] = mp
      BY <1>3, <3>1
    <3>3. Homes(tb)[mp] = mp
      BY <1>3, <3>1, <3>2 DEF Woven
    <3> QED
      BY <1>5, <3>3
  <2>6. \A i, j \in Used(w) \ {mp} : Reach(Links(tb), f[i], f[j]) => Reach(Links(w), i, j)
    <3> SUFFICES ASSUME NEW i \in Used(w) \ {mp}, NEW j \in Used(w) \ {mp}, Reach(Links(tb), f[i], f[j])
                 PROVE  Reach(Links(w), i, j)
      OBVIOUS
    <3>1. f[i] \in Used(tb) /\ f[j] \in Used(tb) /\ MovedTo(mp, n, f[i]) = i /\ MovedTo(mp, n, f[j]) = j
      BY <2>3
    <3>2. Reach(Links(w), MovedTo(mp, n, f[i]), MovedTo(mp, n, f[j]))
      BY <1>21, <3>1
    <3> QED
      BY <3>1, <3>2
  <2>7. \A i, j \in Used(w) \ {mp} : f[i] = f[j] => i = j
    BY <2>3
  <2> QED
    BY <2>1, <2>2, <2>3, <2>4, <2>5, <2>6, <2>7 DEF Takes
<1>25. Links(w) \in LinksOf(Len(w.node))
  BY <1>16, <1>18 DEF Away
<1> QED
  BY <1>1, <1>15, <1>16, <1>21, <1>22, <1>24, <1>25, TakesKeeps

\* newkey where there is a place.
LEMMA NewKeyKeeps ==
  ASSUME NEW tb, Sound(tb), NEW key \in Keys, NEW x \in Values, luaH_get(tb, key) = <<>>, HasPlace(tb, key)
  PROVE  Stored(tb, newkey(tb, key, x), key, x)
<1>1. PICK mp, n : mp = mainposition(tb, key) /\ n = getfreepos(tb)
  OBVIOUS
<1>2. CASE Direct(tb, key)
  <2>1. newkey(tb, key, x) = [tb EXCEPT !.node[mp].key = key, !.node[mp].val = x]
    BY <1>1, <1>2 DEF newkey
  <2> QED
    BY <1>1, <1>2, <2>1, DirectKeeps
<1>3. CASE ~Direct(tb, key)
  <2>1. n # 0
    BY <1>1, <1>3 DEF HasPlace
  <2>2. tb.node # <<>>
    <3>1. n \in DOMAIN tb.node
      BY <1>1, <2>1, FreePlace
    <3> QED
      BY <3>1
  <2>3. tb.node[mp].val # Absent
    BY <1>1, <1>3, <2>2 DEF Direct
  <2>4. newkey(tb, key, x) = Collision(tb, mp, n, key, x)
    BY <1>1, <1>3 DEF newkey
  <2>5. CASE mainposition(tb, tb.node[mp].key) = mp
    <3>1. newkey(tb, key, x) = ChainAfter(Taken(tb, n), mp, n, key, x)
      BY <2>4, <2>5 DEF Collision
    <3> QED
      BY <1>1, <2>1, <2>2, <2>3, <2>5, <3>1, BehindKeeps
  <2>6. CASE mainposition(tb, tb.node[mp].key) # mp
    <3>1. newkey(tb, key, x) = MoveAway(Taken(tb, n), mp, n, key, x)
      BY <2>4, <2>6 DEF Collision
    <3> QED
      BY <1>1, <2>1, <2>2, <2>3, <2>6, <3>1, AwayKeeps
  <2> QED
    BY <2>5, <2>6
<1> QED
  BY <1>2, <1>3

-----------------------------------------------------------------------------
(* Inserting again                                                         *)

\* A table whose keys are no more than its nodes has a place for each.
LEMMA RoomFor ==
  ASSUME NEW tb, Sound(tb), NEW K, K \subseteq Keys, IsFiniteSet(K), Cardinality(K) <= Len(tb.node),
         KeysIn(tb) \subseteq K, NEW key \in K, luaH_get(tb, key) = <<>>
  PROVE  HasPlace(tb, key)
<1> SUFFICES ASSUME getfreepos(tb) = 0 PROVE FALSE
  BY DEF HasPlace
<1>1. PICK N : N = Len(tb.node)
  OBVIOUS
<1>2. N \in Nat /\ DOMAIN tb.node = 1 .. N /\ tb \in Tables
  BY <1>1, TableFacts DEF Sound
<1>3. Used(tb) = 1 .. N
  <2>1. \A i \in 1 .. N : i \in Used(tb)
    <3>1. \A i \in DOMAIN tb.node : ~(0 < i) \/ i \in Used(tb)
      BY <1>2, FreePlace
    <3> QED
      BY <1>2, <3>1
  <2>2. Used(tb) \subseteq 1 .. N
    BY <1>2 DEF Used
  <2> QED
    BY <2>1, <2>2
<1>4. \A i \in 1 .. N : tb.node[i].key \in K /\ tb.node[i].key # key
  <2>1. \A i \in 1 .. N : tb.node[i].key \in K
    BY <1>3 DEF KeysIn
  <2>2. ~InArray(tb, key)
    BY GetInArray
  <2>3. \A i \in DOMAIN tb.node : tb.node[i].key # key
    <3>1. \/ /\ luaH_get(tb, key) = <<>> /\ Lookup(tb, key) = Absent
             /\ \A i \in DOMAIN tb.node : tb.node[i].key # key
          \/ \E i \in DOMAIN tb.node :
               /\ tb.node[i].key = key /\ luaH_get(tb, key) = <<"node", i>> /\ Lookup(tb, key) = tb.node[i].val
               /\ \A j \in DOMAIN tb.node : tb.node[j].key = key => j = i
      BY <2>2, GetIs
    <3>2. \A i : <<"node", i>> # <<>>
      OBVIOUS
    <3> QED
      BY <3>1, <3>2
  <2> QED
    BY <1>2, <2>1, <2>3
<1>5. PICK f : f = [i \in 1 .. N |-> tb.node[i].key]
  OBVIOUS
<1>6. f \in Injection(1 .. N, K \ {key})
  <2>1. f \in [1 .. N -> K \ {key}]
    BY <1>4, <1>5
  <2>2. \A i, j \in 1 .. N : f[i] = f[j] => i = j
    BY <1>2, <1>4, <1>5 DEF Sound, Unique
  <2> QED
    BY <2>1, <2>2, Fun_IsInj
<1>7. IsFiniteSet(K \ {key}) /\ Cardinality(K \ {key}) = Cardinality(K) - 1 /\ Cardinality(K) \in Nat
  BY FS_RemoveElement, FS_CardinalityType
<1>8. Cardinality(1 .. N) <= Cardinality(K \ {key})
  BY <1>6, <1>7, FS_Injection
<1>9. Cardinality(1 .. N) = N
  BY <1>2, FS_Interval
<1> QED
  BY <1>1, <1>2, <1>7, <1>8, <1>9

LEMMA ReinsertedKeeps ==
  ASSUME NEW tb, Sound(tb), NEW K, K \subseteq Keys, IsFiniteSet(K), Cardinality(K) <= Len(tb.node),
         KeysIn(tb) \subseteq K, NEW key \in Keys, key \in K \/ InArray(tb, key), NEW x \in Values
  PROVE  Stored(tb, Reinserted(tb, key, x), key, x)
<1>1. CASE luaH_get(tb, key) # <<>>
  BY <1>1, StoreKeeps DEF Reinserted
<1>2. CASE luaH_get(tb, key) = <<>>
  <2>1. ~InArray(tb, key)
    BY <1>2, GetInArray
  <2>2. HasPlace(tb, key)
    BY <1>2, <2>1, RoomFor
  <2>3. Reinserted(tb, key, x) = newkey(tb, key, x)
    BY <1>2, <2>2 DEF Reinserted
  <2> QED
    BY <1>2, <2>2, <2>3, NewKeyKeeps
<1> QED
  BY <1>1, <1>2

-----------------------------------------------------------------------------
(* Sizes                                                                   *)

LEMMA PowerAbove == \A n \in Nat : n < 2 ^ n
<1> DEFINE Bad == {n \in Nat : ~(n < 2 ^ n)}
<1> SUFFICES ASSUME Bad # {} PROVE FALSE
  OBVIOUS
<1>1. Min(Bad) \in Bad /\ \A n \in Bad : Min(Bad) <= n
  <2>1. Bad \subseteq Nat
    OBVIOUS
  <2> HIDE DEF Bad
  <2> QED
    BY <2>1, LeastOf
<1>2. PICK n : n = Min(Bad)
  OBVIOUS
<1>3. n \in Nat /\ ~(n < 2 ^ n)
  BY <1>1, <1>2
<1>4. n # 0
  <2>1. 0 < 2 ^ 0
    BY PowerZero
  <2> QED
    BY <1>3, <2>1
<1>5. n - 1 \in Nat /\ (n - 1) + 1 = n /\ ~(n <= n - 1)
  BY <1>3, <1>4
<1>6. n - 1 \notin Bad
  <2> HIDE DEF Bad
  <2> QED
    BY <1>1, <1>2, <1>5
<1>7. n - 1 < 2 ^ (n - 1)
  BY <1>5, <1>6
<1>8. PICK p, q : p = 2 ^ (n - 1) /\ q = 2 ^ n
  OBVIOUS
<1>9. p \in Nat /\ q = 2 * p /\ n - 1 < p /\ ~(n < q)
  BY <1>3, <1>5, <1>7, <1>8, PowerDoubles
<1> QED
  BY <1>3, <1>4, <1>9

LEMMA ceillog2Is ==
  ASSUME NEW n \in Nat
  PROVE  ceillog2(n) \in Nat /\ 2 ^ ceillog2(n) \in Nat /\ n <= 2 ^ ceillog2(n)
<1>1. PICK T : T = {l \in 0 .. n : 2 ^ l >= n}
  OBVIOUS
<1>2. T \subseteq Nat /\ n \in T
  <2>1. 2 ^ n >= n
    <3>1. PICK q : q = 2 ^ n
      OBVIOUS
    <3>2. q \in Nat /\ n < q
      BY <3>1, PowerAbove, PowerDoubles
    <3> QED
      BY <3>1, <3>2
  <2> QED
    BY <1>1, <2>1
<1>3. PICK l \in T : \A m \in T : l <= m
  BY <1>2, LeastOf
<1>4. l \in 0 .. n /\ 2 ^ l >= n
  BY <1>1
<1>5. ASSUME NEW m \in 0 .. l - 1 PROVE 2 ^ m < n
  <2>1. m \in 0 .. n /\ m \notin T /\ m \in Nat
    BY <1>3, <1>4
  <2>2. ~(2 ^ m >= n)
    BY <1>1, <2>1
  <2>3. PICK q : q = 2 ^ m
    OBVIOUS
  <2>4. q \in Nat
    BY <2>1, <2>3, PowerDoubles
  <2> QED
    BY <2>2, <2>3, <2>4
<1>6. PICK c : c = ceillog2(n)
  OBVIOUS
<1>7. c \in 0 .. n /\ 2 ^ c >= n
  BY <1>4, <1>5, <1>6 DEF ceillog2
<1>8. PICK q : q = 2 ^ c
  OBVIOUS
<1>9. q \in Nat /\ q >= n
  BY <1>7, <1>8, PowerDoubles
<1> QED
  BY <1>6, <1>7, <1>8, <1>9

\* A finite set of natural numbers has a largest element.
LEMMA MaxOf ==
  ASSUME NEW S, IsFiniteSet(S), S \subseteq Nat, S # {}
  PROVE  Max(S) \in S /\ \A s \in S : s <= Max(S)
<1>0. PICK n \in Nat : ExistsSurjection(1 .. n, S)
  BY FS_NatSurjection
<1>1. PICK f : f \in Surjection(1 .. n, S)
  BY <1>0 DEF ExistsSurjection
<1>2. f \in [1 .. n -> S] /\ \A s \in S : \E i \in 1 .. n : f[i] = s
  BY <1>1 DEF Surjection
<1> DEFINE Upto(j) == \E b \in Nat : \A i \in 1 .. j : f[i] <= b
           Bad == {j \in 0 .. n : ~Upto(j)}
<1>3. \A j \in 0 .. n : Upto(j)
  <2> SUFFICES ASSUME Bad # {} PROVE FALSE
    OBVIOUS
  <2>1. Min(Bad) \in Bad /\ \A j \in Bad : Min(Bad) <= j
    <3>1. Bad \subseteq Nat
      OBVIOUS
    <3> HIDE DEF Bad
    <3> QED
      BY <3>1, LeastOf
  <2>2. PICK j : j = Min(Bad)
    OBVIOUS
  <2>3. j \in 0 .. n /\ ~Upto(j) /\ \A i \in Bad : j <= i
    BY <2>1, <2>2
  <2>4. j # 0
    BY <2>3
  <2>5. j - 1 \in 0 .. n /\ ~(j <= j - 1)
    BY <2>3, <2>4
  <2>6. Upto(j - 1)
    BY <2>3, <2>5
  <2>7. PICK b \in Nat : \A i \in 1 .. j - 1 : f[i] <= b
    BY <2>6
  <2>8. f[j] \in Nat
    <3>1. j \in 1 .. n
      BY <2>3, <2>4
    <3>2. f[j] \in S
      BY <1>2, <3>1
    <3> QED
      BY <3>2
  <2>9. PICK c : c = IF f[j] <= b THEN b ELSE f[j]
    OBVIOUS
  <2>10. c \in Nat /\ b <= c /\ f[j] <= c
    BY <2>8, <2>9
  <2>11. ASSUME NEW i \in 1 .. j PROVE f[i] <= c
    <3>1. CASE i = j
      BY <3>1, <2>10
    <3>2. CASE i # j
      <4>1. i \in 1 .. j - 1 /\ i \in 1 .. n
        BY <2>3, <3>2
      <4>2. f[i] \in Nat /\ f[i] <= b
        BY <1>2, <2>7, <4>1
      <4> QED
        BY <2>10, <4>2
    <3> QED
      BY <3>1, <3>2
  <2> QED
    BY <2>3, <2>10, <2>11
<1>4. PICK b \in Nat : \A i \in 1 .. n : f[i] <= b
  <2>1. n \in 0 .. n
    OBVIOUS
  <2>2. Upto(n)
    BY <1>3, <2>1
  <2> QED
    BY <2>2
<1>5. S \subseteq 0 .. b
  BY <1>2, <1>4
<1> QED
  BY <1>5, GreatestOf

LEMMA KeyBound == Max(KeyNumbers) \in Nat /\ \A n \in KeyNumbers : n <= Max(KeyNumbers)
<1>1. IsFiniteSet(KeyNumbers) /\ KeyNumbers # {} /\ KeyNumbers \subseteq Nat
  BY TableAssumption
<1>2. Max(KeyNumbers) \in KeyNumbers /\ \A n \in KeyNumbers : n <= Max(KeyNumbers)
  BY <1>1, MaxOf
<1> QED
  BY <1>1, <1>2

LEMMA computesizesIs ==
  ASSUME NEW tb, NEW key
  PROVE  computesizes(tb, key) \in Nat
<1>1. Largest \in Nat
  BY KeyBound, ceillog2Is DEF Largest
<1>2. PICK L : L = ceillog2(Largest)
  OBVIOUS
<1>3. PICK T : T = {2 ^ i : i \in 0 .. L}
  OBVIOUS
<1>4. PICK f : f = [i \in 0 .. L |-> 2 ^ i]
  OBVIOUS
<1>5. L \in Nat
  BY <1>1, <1>2, ceillog2Is
<1>6. f \in Surjection(0 .. L, T)
  BY <1>3, <1>4, Fun_IsSurj
<1>7. IsFiniteSet(T) /\ T \subseteq Nat
  <2>1. IsFiniteSet(0 .. L)
    BY <1>5, FS_Interval
  <2>2. IsFiniteSet(T)
    BY <1>6, <2>1, FS_Surjection
  <2>3. \A i \in 0 .. L : 2 ^ i \in Nat
    BY <1>5, PowerDoubles
  <2> QED
    BY <1>3, <2>2, <2>3
<1>8. PICK Z : Z = Sizes(tb, key)
  OBVIOUS
<1>9. Z \in SUBSET T
  BY <1>2, <1>3, <1>8 DEF Sizes
<1>10. IsFiniteSet(Z \cup {0}) /\ Z \cup {0} \subseteq Nat /\ Z \cup {0} # {}
  <2>1. IsFiniteSet(Z)
    BY <1>7, <1>9, FS_Subset
  <2> QED
    BY <1>7, <1>9, <2>1, FS_AddElement
<1>11. Max(Z \cup {0}) \in Z \cup {0}
  BY <1>10, MaxOf
<1> QED
  BY <1>8, <1>10, <1>11 DEF computesizes

LEMMA SequenceIs ==
  ASSUME NEW n \in Nat, NEW S, NEW f \in [1 .. n -> S]
  PROVE  f \in Seq(S) /\ Len(f) = n
<1>1. f \in Seq(S)
  BY SeqDef
<1>2. DOMAIN f = 1 .. Len(f) /\ Len(f) \in Nat /\ DOMAIN f = 1 .. n
  BY <1>1, LenProperties
<1> QED
  BY <1>1, <1>2

\* The array of the new size.
LEMMA ArrayOfSize ==
  ASSUME NEW tb \in Tables, NEW nasize \in Nat,
         NEW w, w = IF nasize < Len(tb.array) THEN Shrunk(tb, nasize) ELSE Lengthened(tb, nasize)
  PROVE  /\ w \in Tables /\ Len(w.array) = nasize
         /\ w.node = tb.node /\ w.lastfree = tb.lastfree /\ w.stuck = tb.stuck
         /\ \A n \in 1 .. nasize : w.array[n] = IF n <= Len(tb.array) THEN tb.array[n] ELSE Absent
<1>1. PICK N : N = Len(tb.array)
  OBVIOUS
<1>2. N \in Nat /\ tb.array \in Seq(Values) /\ \A n \in 1 .. N : tb.array[n] \in Values
  BY <1>1, TableFacts DEF Tables
<1>3. Absent \in Values
  BY DEF Values
<1>4. CASE nasize < N
  <2>1. PICK b : b = SubSeq(tb.array, 1, nasize)
    OBVIOUS
  <2>2. \A i \in 1 .. nasize : tb.array[i] \in Values
    BY <1>2, <1>4
  <2>3. b \in Seq(Values) /\ Len(b) = nasize /\ \A i \in 1 .. nasize : b[i] = tb.array[i]
    <3>1. /\ b \in Seq(Values) /\ Len(b) = IF 1 <= nasize THEN nasize - 1 + 1 ELSE 0
          /\ \A i \in 1 .. nasize - 1 + 1 : b[i] = tb.array[1 + i - 1]
      BY <2>1, <2>2, SubSeqProperties
    <3> QED
      BY <3>1
  <2>4. w = [tb EXCEPT !.array = b]
    BY <1>1, <1>4, <2>1 DEF Shrunk
  <2>5. w \in Tables /\ w.array = b /\ w.node = tb.node /\ w.lastfree = tb.lastfree /\ w.stuck = tb.stuck
    BY <2>3, <2>4 DEF Tables
  <2> QED
    BY <1>1, <1>2, <1>4, <2>3, <2>5
<1>5. CASE nasize = N
  <2>1. w = tb
    BY <1>1, <1>2, <1>5 DEF Lengthened
  <2> QED
    BY <1>1, <1>2, <1>5, <2>1
<1>6. CASE N < nasize
  <2>1. PICK c : c = [i \in 1 .. nasize - N |-> Absent]
    OBVIOUS
  <2>2. c \in Seq(Values) /\ Len(c) = nasize - N
    <3>1. c \in [1 .. nasize - N -> Values] /\ nasize - N \in Nat
      BY <1>2, <1>3, <1>6, <2>1
    <3> QED
      BY <3>1, SequenceIs
  <2>3. PICK b : b = tb.array \o c
    OBVIOUS
  <2>4. b \in Seq(Values) /\ Len(b) = nasize /\ \A i \in 1 .. nasize : b[i] = IF i <= N THEN tb.array[i] ELSE Absent
    <3>1. /\ b \in Seq(Values) /\ Len(b) = Len(tb.array) + Len(c)
          /\ \A i \in 1 .. Len(tb.array) + Len(c) : b[i] = IF i <= Len(tb.array) THEN tb.array[i] ELSE c[i - Len(tb.array)]
      BY <1>2, <2>2, <2>3, ConcatProperties
    <3>2. \A i \in 1 .. nasize - N : c[i] = Absent
      BY <2>1
    <3>3. Len(tb.array) + Len(c) = nasize
      BY <1>1, <1>2, <1>6, <2>2
    <3>4. ASSUME NEW i \in 1 .. nasize PROVE b[i] = IF i <= N THEN tb.array[i] ELSE Absent
      <4>1. b[i] = IF i <= N THEN tb.array[i] ELSE c[i - N]
        BY <1>1, <3>1, <3>3
      <4>2. ~(i <= N) => i - N \in 1 .. nasize - N
        BY <1>2, <1>6
      <4> QED
        BY <3>2, <4>1, <4>2
    <3> QED
      BY <3>1, <3>3, <3>4
  <2>5. w = [tb EXCEPT !.array = b]
    <3>1. w = setarrayvector(tb, nasize)
      BY <1>1, <1>2, <1>6 DEF Lengthened
    <3> QED
      BY <1>1, <2>1, <2>3, <3>1 DEF setarrayvector
  <2>6. w \in Tables /\ w.array = b /\ w.node = tb.node /\ w.lastfree = tb.lastfree /\ w.stuck = tb.stuck
    BY <2>4, <2>5 DEF Tables
  <2> QED
    BY <1>1, <1>2, <1>6, <2>4, <2>6
<1> QED
  BY <1>2, <1>4, <1>5, <1>6

\* The node vector of the new size: no node is in use.
LEMMA NodesOfSize ==
  ASSUME NEW tb \in Tables, Keyed(tb), NEW size \in Nat, NEW w, w = setnodevector(tb, size)
  PROVE  /\ Sound(w) /\ size <= Len(w.node) /\ KeysIn(w) = {}
         /\ w.array = tb.array /\ w.stuck = tb.stuck
<1>1. PICK n : n = IF size = 0 THEN 0 ELSE 2 ^ ceillog2(size)
  OBVIOUS
<1>2. n \in Nat /\ size <= n
  BY <1>1, ceillog2Is
<1>3. PICK b : b = [i \in 1 .. n |-> EmptyNode]
  OBVIOUS
<1>4. EmptyNode \in NodeRecords /\ EmptyNode.key = NoKey /\ EmptyNode.val = Absent /\ EmptyNode.next = 0
  BY DEF EmptyNode, NodeRecords, NodeKeys, Values
<1>5. b \in Seq(NodeRecords) /\ Len(b) = n /\ \A i \in 1 .. n : b[i] = EmptyNode
  BY <1>2, <1>3, <1>4, SequenceIs
<1>6. w = [tb EXCEPT !.node = b, !.lastfree = n + 1]
  BY <1>1, <1>3 DEF setnodevector
<1>7. w \in Tables /\ w.node = b /\ w.lastfree = n + 1 /\ w.array = tb.array /\ w.stuck = tb.stuck
  <2>1. DOMAIN tb = {"array", "node", "lastfree", "stuck"} /\ n + 1 \in Nat
    BY <1>2 DEF Tables
  <2>2. w = [array |-> tb.array, node |-> b, lastfree |-> n + 1, stuck |-> tb.stuck]
    <3>1. tb = [array |-> tb.array, node |-> tb.node, lastfree |-> tb.lastfree, stuck |-> tb.stuck]
      BY DEF Tables
    <3> QED
      BY <1>6, <3>1
  <2> QED
    BY <1>5, <2>1, <2>2 DEF Tables
<1>8. DOMAIN w.node = 1 .. n /\ Len(w.node) = n
  BY <1>5, <1>7, TableFacts
<1>9. Used(w) = {}
  BY <1>4, <1>5, <1>7, <1>8 DEF Used
<1>10. Links(w) \in LinksOf(n) /\ DOMAIN Links(w) = 1 .. n /\ \A i \in 1 .. n : Links(w)[i] = 0
  BY <1>2, <1>4, <1>5, <1>7, <1>8 DEF Links, LinksOf
<1>11. Woven(Used(w), Homes(w), Links(w))
  <2>1. OneToOne(Links(w))
    BY <1>10 DEF OneToOne
  <2>2. Acyclic(Links(w))
    <3> SUFFICES ASSUME NEW S \in SUBSET (1 .. n), S # {} PROVE \E i \in S : Links(w)[i] \notin S
      BY <1>10 DEF Acyclic
    <3>1. PICK i \in S : i \in 1 .. n
      OBVIOUS
    <3>2. 0 \notin S
      OBVIOUS
    <3> QED
      BY <1>10, <3>1, <3>2
  <2>3. \A i \in 1 .. n : Links(w)[i] = 0 /\ \A j \in 1 .. n : Links(w)[j] # i
    BY <1>10
  <2> QED
    BY <1>9, <1>10, <2>1, <2>2, <2>3 DEF Woven
<1>12. Unvalued(w)
  BY <1>4, <1>5, <1>7, <1>8 DEF Unvalued
<1>13. Unique(w)
  <2>1. NoKey \notin Keys
    BY KeyFacts
  <2> QED
    BY <2>1, <1>4, <1>5, <1>7, <1>8 DEF Unique
<1>14. LiveFirst(w)
  BY <1>9 DEF LiveFirst
<1>15. NoneFree(w)
  BY <1>2, <1>7, <1>8 DEF NoneFree
<1>16. Keyed(w)
  BY <1>7 DEF Keyed
<1>17. KeysIn(w) = {}
  BY <1>9 DEF KeysIn
<1>18. Sound(w)
  BY <1>7, <1>8, <1>10, <1>11, <1>12, <1>13, <1>14, <1>15, <1>16 DEF Sound
<1> QED
  BY <1>2, <1>7, <1>8, <1>17, <1>18

LEMMA ResizedIs ==
  ASSUME NEW tb, Sound(tb), NEW nasize \in Nat, NEW nhsize \in Nat, NEW w, w = Resized(tb, nasize, nhsize)
  PROVE  /\ Sound(w) /\ w.stuck = tb.stuck /\ nhsize <= Len(w.node) /\ KeysIn(w) = {}
         /\ Len(w.array) = nasize /\ DOMAIN w.array = 1 .. nasize
         /\ \A n \in 1 .. nasize : w.array[n] = IF n <= Len(tb.array) THEN tb.array[n] ELSE Absent
<1>1. PICK v : v = IF nasize < Len(tb.array) THEN Shrunk(tb, nasize) ELSE Lengthened(tb, nasize)
  OBVIOUS
<1>2. /\ v \in Tables /\ Len(v.array) = nasize /\ v.stuck = tb.stuck
      /\ \A n \in 1 .. nasize : v.array[n] = IF n <= Len(tb.array) THEN tb.array[n] ELSE Absent
  BY <1>1, ArrayOfSize DEF Sound
<1>3. DOMAIN v.array = 1 .. nasize
  BY <1>2, TableFacts
<1>4. Keyed(v)
  <2>1. DOMAIN tb.array = 1 .. Len(tb.array) /\ Len(tb.array) \in Nat
    BY TableFacts DEF Sound
  <2> QED
    BY <1>2, <1>3, <2>1 DEF Keyed, Sound
<1>5. w = setnodevector(v, nhsize)
  BY <1>1 DEF Resized
<1>6. Sound(w) /\ nhsize <= Len(w.node) /\ KeysIn(w) = {} /\ w.array = v.array /\ w.stuck = v.stuck
  BY <1>2, <1>4, <1>5, NodesOfSize
<1> QED
  BY <1>2, <1>3, <1>6

-----------------------------------------------------------------------------
(* What a resize moves                                                     *)

\* A key of a node is no key of the array, but for those of H.
OffArray(tb, H) == \A i \in Used(tb), n \in DOMAIN tb.array : tb.node[i].key = NumKey(n) => NumKey(n) \in H
\* A value for key is still to be inserted after element i of the list.
Due(list, i, key) == \E j \in i + 1 .. Len(list) : list[j].key = key /\ list[j].val # Absent

LEMMA MovedIs ==
  ASSUME NEW tb, Sound(tb), NEW nasize \in Nat, NEW list, list = Moved(tb, nasize)
  PROVE  /\ Len(list) \in Nat
         /\ \A j \in 1 .. Len(list) :
              \/ \E n \in DOMAIN tb.array : nasize < n /\ list[j].key = NumKey(n) /\ list[j].val = tb.array[n]
              \/ \E i \in DOMAIN tb.node : list[j].key = tb.node[i].key /\ list[j].val = tb.node[i].val
         /\ \A n \in DOMAIN tb.array : nasize < n =>
              \E j \in 1 .. Len(list) : list[j].key = NumKey(n) /\ list[j].val = tb.array[n]
         /\ \A i \in DOMAIN tb.node :
              \E j \in 1 .. Len(list) : list[j].key = tb.node[i].key /\ list[j].val = tb.node[i].val
<1>1. PICK v, M, A : v = Vanishing(tb, nasize) /\ M = Len(tb.node) /\ A = Len(tb.array)
  OBVIOUS
<1>2. M \in Nat /\ A \in Nat /\ DOMAIN tb.array = 1 .. A /\ DOMAIN tb.node = 1 .. M
  BY <1>1, TableFacts DEF Sound
<1>3. v = IF nasize < A THEN A - nasize ELSE 0
  BY <1>1 DEF Vanishing
<1>4. v \in Nat /\ v + M \in Nat
  BY <1>2, <1>3
<1>5. list = [j \in 1 .. v + M |->
                IF j <= v THEN [key |-> NumKey(nasize + j), val |-> tb.array[nasize + j]]
                ELSE LET e == tb.node[v + M + 1 - j] IN [key |-> e.key, val |-> e.val]]
  BY <1>1 DEF Moved
<1>6. Len(list) = v + M
  BY <1>4, <1>5
<1>7. ASSUME NEW j \in 1 .. v + M
      PROVE  \/ \E n \in DOMAIN tb.array : nasize < n /\ list[j].key = NumKey(n) /\ list[j].val = tb.array[n]
             \/ \E i \in DOMAIN tb.node : list[j].key = tb.node[i].key /\ list[j].val = tb.node[i].val
  <2>1. CASE j <= v
    <3>1. list[j].key = NumKey(nasize + j) /\ list[j].val = tb.array[nasize + j]
      BY <1>5, <2>1
    <3>2. nasize + j \in 1 .. A /\ nasize < nasize + j
      BY <1>2, <1>3, <1>4, <2>1
    <3> QED
      BY <1>2, <3>1, <3>2
  <2>2. CASE ~(j <= v)
    <3>1. list[j].key = tb.node[v + M + 1 - j].key /\ list[j].val = tb.node[v + M + 1 - j].val
      BY <1>5, <2>2
    <3>2. v + M + 1 - j \in 1 .. M
      BY <1>2, <1>4, <2>2
    <3> QED
      BY <1>2, <3>1, <3>2
  <2> QED
    BY <2>1, <2>2
<1>8. ASSUME NEW n \in DOMAIN tb.array, nasize < n
      PROVE  \E j \in 1 .. v + M : list[j].key = NumKey(n) /\ list[j].val = tb.array[n]
  <2>1. PICK j : j = n - nasize
    OBVIOUS
  <2>2. j \in 1 .. v + M /\ j <= v /\ nasize + j = n
    BY <1>2, <1>3, <1>8, <2>1
  <2>3. list[j].key = NumKey(nasize + j) /\ list[j].val = tb.array[nasize + j]
    BY <1>5, <2>2
  <2> QED
    BY <2>2, <2>3
<1>9. ASSUME NEW i \in DOMAIN tb.node
      PROVE  \E j \in 1 .. v + M : list[j].key = tb.node[i].key /\ list[j].val = tb.node[i].val
  <2>1. PICK j : j = v + M + 1 - i
    OBVIOUS
  <2>2. j \in 1 .. v + M /\ ~(j <= v) /\ v + M + 1 - j = i
    <3>1. i \in 1 .. M /\ M \in Nat /\ v \in Nat
      BY <1>2, <1>4
    <3>2. /\ v + M + 1 - i \in 1 .. v + M /\ ~(v + M + 1 - i <= v)
          /\ v + M + 1 - (v + M + 1 - i) = i
      BY ONLY <3>1
    <3> QED
      BY <2>1, <3>2
  <2>3. list[j].key = tb.node[v + M + 1 - j].key /\ list[j].val = tb.node[v + M + 1 - j].val
    BY <1>5, <2>2
  <2> QED
    BY <2>2, <2>3
<1> QED
  BY <1>4, <1>6, <1>7, <1>8, <1>9

LEMMA MovedTyped ==
  ASSUME NEW tb, Sound(tb), NEW nasize \in Nat, NEW list, list = Moved(tb, nasize), NEW j \in 1 .. Len(list)
  PROVE  list[j].val \in Values /\ (list[j].val # Absent => list[j].key \in Keys)
<1>1. \/ \E n \in DOMAIN tb.array : nasize < n /\ list[j].key = NumKey(n) /\ list[j].val = tb.array[n]
      \/ \E i \in DOMAIN tb.node : list[j].key = tb.node[i].key /\ list[j].val = tb.node[i].val
  BY MovedIs
<1>2. ASSUME NEW n \in DOMAIN tb.array, list[j].key = NumKey(n), list[j].val = tb.array[n]
      PROVE  list[j].val \in Values /\ (list[j].val # Absent => list[j].key \in Keys)
  BY <1>2, TableFacts, KeyFacts DEF Sound, Keyed
<1>3. ASSUME NEW i \in DOMAIN tb.node, list[j].key = tb.node[i].key, list[j].val = tb.node[i].val
      PROVE  list[j].val \in Values /\ (list[j].val # Absent => list[j].key \in Keys)
  <2>1. tb.node[i].val \in Values
    BY NodeFacts DEF Sound
  <2> QED
    BY <1>3, <2>1 DEF Sound, Unvalued
<1> QED
  BY <1>1, <1>2, <1>3

\* What is inserted again is what the table has.
LEMMA MovedRight ==
  ASSUME NEW tb, Sound(tb), NEW nasize \in Nat, NEW list, list = Moved(tb, nasize), NEW H, OffArray(tb, H),
         NEW key \in Keys \ H, NEW j \in 1 .. Len(list), list[j].key = key, list[j].val # Absent
  PROVE  list[j].val = Lookup(tb, key)
<1>1. \/ \E n \in DOMAIN tb.array : nasize < n /\ list[j].key = NumKey(n) /\ list[j].val = tb.array[n]
      \/ \E i \in DOMAIN tb.node : list[j].key = tb.node[i].key /\ list[j].val = tb.node[i].val
  BY MovedIs
<1>2. ASSUME NEW n \in DOMAIN tb.array, list[j].key = NumKey(n), list[j].val = tb.array[n]
      PROVE  list[j].val = Lookup(tb, key)
  <2>1. key = NumKey(n) /\ key[1] = "num" /\ key[2] = n
    BY <1>2 DEF NumKey
  <2>2. InArray(tb, key)
    BY <2>1 DEF InArray
  <2>3. Lookup(tb, key) = tb.array[key[2]]
    BY <2>2, GetInArray
  <2> QED
    BY <1>2, <2>1, <2>3
<1>3. ASSUME NEW i \in DOMAIN tb.node, list[j].key = tb.node[i].key, list[j].val = tb.node[i].val
      PROVE  list[j].val = Lookup(tb, key)
  <2>1. tb.node[i].key = key /\ i \in Used(tb)
    BY <1>3, KeyFacts DEF Used
  <2>2. ~InArray(tb, key)
    <3> SUFFICES ASSUME InArray(tb, key) PROVE FALSE
      OBVIOUS
    <3>1. key = NumKey(key[2]) /\ key[2] \in DOMAIN tb.array
      BY KeyFacts DEF InArray
    <3> QED
      BY <2>1, <3>1 DEF OffArray
  <2>3. Has(tb, key, list[j].val)
    BY <1>3, <2>1 DEF Has
  <2> QED
    BY <2>2, <2>3, LookupHas
<1> QED
  BY <1>1, <1>2, <1>3

\* A value that does not stay in the array is inserted again.
LEMMA MovedAll ==
  ASSUME NEW tb, Sound(tb), NEW nasize \in Nat, NEW list, list = Moved(tb, nasize),
         NEW key \in Keys, Lookup(tb, key) # Absent
  PROVE  (InArray(tb, key) /\ key[2] <= nasize) \/ Due(list, 0, key)
<1>1. Len(list) \in Nat
  BY MovedIs
<1>2. CASE InArray(tb, key)
  <2>1. key = NumKey(key[2]) /\ key[2] \in DOMAIN tb.array /\ key[2] \in Nat
    BY <1>2, KeyFacts DEF InArray
  <2>2. Lookup(tb, key) = tb.array[key[2]]
    BY <1>2, GetInArray
  <2>3. CASE nasize < key[2]
    <3>1. PICK n : n = key[2]
      OBVIOUS
    <3>2. n \in DOMAIN tb.array /\ nasize < n
      BY <2>1, <2>3, <3>1
    <3>3. \E j \in 1 .. Len(list) : list[j].key = NumKey(n) /\ list[j].val = tb.array[n]
      BY <3>2, MovedIs
    <3>4. \E j \in 1 .. Len(list) : list[j].key = NumKey(key[2]) /\ list[j].val = tb.array[key[2]]
      BY <3>1, <3>3
    <3> QED
      BY <2>1, <2>2, <3>4 DEF Due
  <2> QED
    BY <1>2, <2>1, <2>3
<1>3. CASE ~InArray(tb, key)
  <2>1. PICK i \in DOMAIN tb.node : tb.node[i].key = key /\ Lookup(tb, key) = tb.node[i].val
    BY <1>3, GetIs
  <2>2. \E j \in 1 .. Len(list) : list[j].key = tb.node[i].key /\ list[j].val = tb.node[i].val
    BY MovedIs
  <2> QED
    BY <2>1, <2>2 DEF Due
<1> QED
  BY <1>2, <1>3

-----------------------------------------------------------------------------
(* Resizing                                                                *)

InSlice(key, nasize) == key[1] = "num" /\ key[2] \in 1 .. nasize
\* K has the keys that go to the nodes, and there are nodes for them.
Fit(K, list, nasize, M) ==
  /\ K \subseteq Keys /\ IsFiniteSet(K) /\ Cardinality(K) <= M
  /\ \A key \in K : ~InSlice(key, nasize)
  /\ \A j \in 1 .. Len(list) : list[j].val # Absent => list[j].key \in K \/ InSlice(list[j].key, nasize)
\* The table while i elements of the list have been inserted.
Underway(tb, list, i, w, nasize, M, K, H) ==
  /\ Sound(w) /\ w.stuck = FALSE /\ Len(w.array) = nasize /\ Len(w.node) = M /\ KeysIn(w) \subseteq K
  /\ \A key \in Keys \ H : Lookup(w, key) = Lookup(tb, key) \/ Due(list, i, key)

LEMMA ResettledKeeps ==
  ASSUME NEW tb, Sound(tb), NEW nasize \in Nat, NEW list, list = Moved(tb, nasize), NEW H, OffArray(tb, H),
         NEW M \in Nat, NEW K, Fit(K, list, nasize, M), NEW i \in 1 .. Len(list),
         NEW w, Underway(tb, list, i - 1, w, nasize, M, K, H)
  PROVE  Underway(tb, list, i, Resettled(w, list[i]), nasize, M, K, H)
<1>1. PICK key, x : key = list[i].key /\ x = list[i].val
  OBVIOUS
<1>2. Len(list) \in Nat /\ i \in Nat /\ i - 1 + 1 = i /\ x \in Values /\ (x # Absent => key \in Keys)
  BY <1>1, MovedIs, MovedTyped
<1>3. \A k : Due(list, i - 1, k) => Due(list, i, k) \/ (k = key /\ x # Absent)
  <2> SUFFICES ASSUME NEW k, Due(list, i - 1, k) PROVE Due(list, i, k) \/ (k = key /\ x # Absent)
    OBVIOUS
  <2>1. PICK j \in i - 1 + 1 .. Len(list) : list[j].key = k /\ list[j].val # Absent
    BY DEF Due
  <2>2. CASE j = i
    BY <1>1, <2>1, <2>2
  <2>3. CASE j # i
    <3>1. j \in i + 1 .. Len(list)
      BY <1>2, <2>1, <2>3
    <3> QED
      BY <2>1, <3>1 DEF Due
  <2> QED
    BY <2>2, <2>3
<1>4. CASE x = Absent
  <2>1. Resettled(w, list[i]) = w
    BY <1>1, <1>4 DEF Resettled
  <2> QED
    BY <1>3, <1>4, <2>1 DEF Underway
<1>5. CASE x # Absent
  <2>1. Resettled(w, list[i]) = Reinserted(w, key, x)
    BY <1>1, <1>5 DEF Resettled
  <2>2. key \in Keys /\ (key \in K \/ InSlice(key, nasize))
    BY <1>1, <1>2, <1>5 DEF Fit
  <2>3. Sound(w) /\ w.stuck = FALSE /\ Len(w.array) = nasize /\ Len(w.node) = M /\ KeysIn(w) \subseteq K
    BY DEF Underway
  <2>4. InArray(w, key) <=> InSlice(key, nasize)
    BY <2>3, TableFacts DEF InArray, InSlice, Sound
  <2>5. PICK v : v = Reinserted(w, key, x)
    OBVIOUS
  <2>6. Stored(w, v, key, x)
    <3>1. K \subseteq Keys /\ IsFiniteSet(K) /\ Cardinality(K) <= Len(w.node)
      BY <2>3 DEF Fit
    <3>2. key \in K \/ InArray(w, key)
      BY <2>2, <2>4
    <3> QED
      BY <1>2, <2>2, <2>3, <2>5, <3>1, <3>2, ReinsertedKeeps
  <2>7. Sound(v) /\ v.stuck = FALSE /\ Len(v.array) = nasize /\ Len(v.node) = M
    BY <2>3, <2>6 DEF Stored
  <2>8. KeysIn(v) \subseteq K
    BY <2>2, <2>3, <2>4, <2>6 DEF Stored
  <2>9. ASSUME NEW k \in Keys \ H PROVE Lookup(v, k) = Lookup(tb, k) \/ Due(list, i, k)
    <3>1. CASE k = key
      <4>1. x = Lookup(tb, key)
        BY <1>1, <1>5, <3>1, MovedRight
      <4> QED
        BY <2>6, <3>1, <4>1 DEF Stored
    <3>2. CASE k # key
      <4>1. Lookup(v, k) = Lookup(w, k)
        BY <2>6, <3>2 DEF Stored
      <4> QED
        BY <1>3, <3>2, <4>1 DEF Underway
    <3> QED
      BY <3>1, <3>2
  <2> QED
    BY <2>1, <2>5, <2>7, <2>8, <2>9 DEF Underway
<1> QED
  BY <1>4, <1>5

LEMMA ResizedUnderway ==
  ASSUME NEW tb, Sound(tb), tb.stuck = FALSE, NEW nasize \in Nat, NEW nhsize \in Nat, NEW list, list = Moved(tb, nasize),
         NEW H, OffArray(tb, H), NEW w, w = Resized(tb, nasize, nhsize), NEW K
  PROVE  Underway(tb, list, 0, w, nasize, Len(w.node), K, H)
<1>1. /\ Sound(w) /\ w.stuck = tb.stuck /\ KeysIn(w) = {}
      /\ Len(w.array) = nasize /\ DOMAIN w.array = 1 .. nasize
      /\ \A n \in 1 .. nasize : w.array[n] = IF n <= Len(tb.array) THEN tb.array[n] ELSE Absent
  BY ResizedIs
<1>2. Len(tb.array) \in Nat /\ DOMAIN tb.array = 1 .. Len(tb.array)
  BY TableFacts DEF Sound
<1>3. ASSUME NEW key \in Keys \ H PROVE Lookup(w, key) = Lookup(tb, key) \/ Due(list, 0, key)
  <2> SUFFICES ASSUME ~Due(list, 0, key) PROVE Lookup(w, key) = Lookup(tb, key)
    OBVIOUS
  <2>1. Lookup(tb, key) # Absent => InArray(tb, key) /\ key[2] <= nasize
    BY MovedAll
  <2>2. CASE InArray(w, key)
    <3>1. Lookup(w, key) = w.array[key[2]]
      BY <2>2, GetInArray
    <3>2. key[2] \in 1 .. nasize
      BY <1>1, <2>2 DEF InArray
    <3>3. CASE key[2] <= Len(tb.array)
      <4>1. InArray(tb, key)
        BY <1>2, <2>2, <3>2, <3>3 DEF InArray
      <4>2. Lookup(tb, key) = tb.array[key[2]]
        BY <4>1, GetInArray
      <4> QED
        BY <1>1, <3>1, <3>2, <3>3, <4>2
    <3>4. CASE ~(key[2] <= Len(tb.array))
      <4>1. ~InArray(tb, key)
        BY <1>2, <3>4 DEF InArray
      <4> QED
        BY <1>1, <2>1, <3>1, <3>2, <3>4, <4>1
    <3> QED
      BY <3>3, <3>4
  <2>3. CASE ~InArray(w, key)
    <3>1. ~(InArray(tb, key) /\ key[2] <= nasize)
      BY <1>1, <1>2, <2>3 DEF InArray
    <3>2. Lookup(w, key) = Absent
      <4> SUFFICES ASSUME Lookup(w, key) # Absent PROVE FALSE
        OBVIOUS
      <4>1. PICK i \in DOMAIN w.node : w.node[i].key = key
        BY <1>1, <2>3, GetIs
      <4>2. key # NoKey
        BY KeyFacts
      <4>3. key \in KeysIn(w)
        BY <4>1, <4>2 DEF KeysIn, Used
      <4> QED
        BY <1>1, <4>3
    <3> QED
      BY <2>1, <3>1, <3>2
  <2> QED
    BY <2>2, <2>3
<1> QED
  BY <1>1, <1>3 DEF Underway

LEMMA resizeGoes ==
  ASSUME NEW tb, Sound(tb), tb.stuck = FALSE, NEW nasize \in Nat, NEW nhsize \in Nat, NEW list, list = Moved(tb, nasize),
         NEW H, OffArray(tb, H), NEW s, s = Resized(tb, nasize, nhsize),
         NEW M, M = Len(s.node), NEW K, Fit(K, list, nasize, M)
  PROVE  Underway(tb, list, Len(list), resize(tb, nasize, nhsize), nasize, M, K, H)
<1> DEFINE f(x, n) == Resettled(x, list[n])
           Good(x, i) == Underway(tb, list, i, x, nasize, M, K, H)
<1>1. PICK k : k = Len(list)
  OBVIOUS
<1>2. k \in Nat /\ M \in Nat
  <2>1. Sound(s)
    BY ResizedIs
  <2> QED
    BY <1>1, <2>1, MovedIs, TableFacts DEF Sound
<1>3. Good(s, 0)
  BY ResizedUnderway
<1>4. ASSUME NEW i \in 1 .. k, NEW x, Good(x, i - 1) PROVE Good(f(x, i), i)
  BY <1>1, <1>2, <1>4, ResettledKeeps
<1>5. \A x, i : Good(x, i) => x \in Tables
  BY DEF Underway, Sound
<1> DEFINE T == [i \in 0 .. k |-> {x \in Tables : Good(x, i)}]
           Step == [i \in 1 .. k |-> [x \in T[i - 1] |-> f(x, i)]]
<1> HIDE DEF Good, f
<1>6. \A i \in 0 .. k : T[i] = {x \in Tables : Good(x, i)}
  OBVIOUS
<1>7. \A i \in 1 .. k : \A x \in T[i - 1] : f(x, i) \in T[i]
  <2> SUFFICES ASSUME NEW i \in 1 .. k, NEW x \in T[i - 1] PROVE f(x, i) \in T[i]
    OBVIOUS
  <2>1. i - 1 \in 0 .. k /\ i \in 0 .. k
    BY <1>2
  <2> HIDE DEF T
  <2>2. Good(x, i - 1)
    BY <1>6, <2>1
  <2> QED
    BY <1>4, <1>5, <1>6, <2>1, <2>2
<1>8. s \in T[0]
  BY <1>2, <1>3, <1>5
<1> HIDE DEF T
<1>9. StepsWithin(k, T, Step)
  BY <1>7 DEF StepsWithin
<1>10. PICK m : Repeats(k, T, Step, s, m)
  <2> HIDE DEF Step
  <2> QED
    BY <1>2, <1>8, <1>9, Repeated
<1>11. m = [i \in 0 .. k |-> IF i = 0 THEN s ELSE f(m[i - 1], i)]
  <2>1. \A i \in 1 .. k : Step[i][m[i - 1]] = f(m[i - 1], i)
    <3> SUFFICES ASSUME NEW i \in 1 .. k PROVE Step[i][m[i - 1]] = f(m[i - 1], i)
      OBVIOUS
    <3>1. i - 1 \in 0 .. k
      BY <1>2
    <3>2. m[i - 1] \in T[i - 1]
      BY <3>1, <1>10 DEF Repeats
    <3> QED
      BY <3>2
  <2> HIDE DEF Step
  <2>2. \A i \in 0 .. k : i # 0 => i \in 1 .. k
    BY <1>2
  <2> QED
    BY <1>10, <2>1, <2>2 DEF Repeats
<1>12. PICK r : r = CHOOSE h : h = [n \in 0 .. k |-> IF n = 0 THEN s ELSE f(h[n - 1], n)]
  OBVIOUS
<1>13. r = [n \in 0 .. k |-> IF n = 0 THEN s ELSE f(r[n - 1], n)]
  BY <1>11, <1>12
<1>14. resize(tb, nasize, nhsize) = r[k]
  BY <1>1, <1>12 DEF resize, f
<1>15. r[k] \in T[k]
  <2>1. r[0] \in T[0]
    BY <1>2, <1>8, <1>13
  <2>2. \A i \in 1 .. k : r[i - 1] \in T[i - 1] => r[i] \in T[i]
    <3> SUFFICES ASSUME NEW i \in 1 .. k, r[i - 1] \in T[i - 1] PROVE r[i] \in T[i]
      OBVIOUS
    <3>1. i \in 0 .. k /\ i # 0
      BY <1>2
    <3>2. r[i] = f(r[i - 1], i)
      BY <1>13, <3>1
    <3> QED
      BY <1>7, <3>2
  <2>3. \A i \in 0 .. k : r[i] \in T[i]
    BY <1>2, <2>1, <2>2, PassedOn
  <2>4. k \in 0 .. k
    BY <1>2
  <2> QED
    BY <2>3, <2>4
<1>16. Good(r[k], k)
  <2>1. k \in 0 .. k
    BY <1>2
  <2> QED
    BY <1>6, <1>15, <2>1
<1> QED
  BY <1>1, <1>14, <1>16 DEF Good

\* A resize keeps what the table answers for every key outside H, and after it
\* no key of a node is a key of the array.
Resizes(tb, w, nasize, H) ==
  /\ Sound(w) /\ w.stuck = FALSE /\ Len(w.array) = nasize /\ OffArray(w, {})
  /\ \A key \in Keys \ H : Lookup(w, key) = Lookup(tb, key)

LEMMA resizeKeeps ==
  ASSUME NEW tb, Sound(tb), tb.stuck = FALSE, NEW nasize \in Nat, NEW nhsize \in Nat,
         NEW H, OffArray(tb, H), NEW K, Fit(K, Moved(tb, nasize), nasize, nhsize)
  PROVE  /\ Resizes(tb, resize(tb, nasize, nhsize), nasize, H)
         /\ KeysIn(resize(tb, nasize, nhsize)) \subseteq K
         /\ nhsize <= Len(resize(tb, nasize, nhsize).node)
<1>1. PICK list, s, w : list = Moved(tb, nasize) /\ s = Resized(tb, nasize, nhsize) /\ w = resize(tb, nasize, nhsize)
  OBVIOUS
<1>2. PICK M : M = Len(s.node)
  OBVIOUS
<1>3. nhsize <= M /\ M \in Nat
  <2>1. Sound(s) /\ nhsize <= Len(s.node)
    BY <1>1, ResizedIs
  <2> QED
    BY <1>2, <2>1, TableFacts DEF Sound
<1>4. Fit(K, list, nasize, M)
  <2>1. Fit(K, list, nasize, nhsize)
    BY <1>1
  <2>2. Cardinality(K) \in Nat
    BY <2>1, FS_CardinalityType DEF Fit
  <2> QED
    BY <1>3, <2>1, <2>2 DEF Fit
<1>5. Underway(tb, list, Len(list), w, nasize, M, K, H)
  BY <1>1, <1>2, <1>4, resizeGoes
<1>6. \A key : ~Due(list, Len(list), key)
  BY <1>1, MovedIs DEF Due
<1>7. OffArray(w, {})
  <2> SUFFICES ASSUME NEW i \in Used(w), NEW n \in DOMAIN w.array, w.node[i].key = NumKey(n) PROVE FALSE
    BY DEF OffArray
  <2>1. NumKey(n) \in K
    BY <1>5 DEF Underway, KeysIn
  <2>2. n \in 1 .. nasize
    BY <1>5, TableFacts DEF Underway, Sound
  <2>3. InSlice(NumKey(n), nasize)
    BY <2>2 DEF InSlice, NumKey
  <2> QED
    BY <1>4, <2>1, <2>3 DEF Fit
<1> QED
  BY <1>1, <1>3, <1>5, <1>6, <1>7 DEF Underway, Resizes

-----------------------------------------------------------------------------
(* Counting                                                                *)

LEMMA ImageSize ==
  ASSUME NEW S, IsFiniteSet(S), NEW f, DOMAIN f = S, NEW T, T = {f[x] : x \in S}
  PROVE  IsFiniteSet(T) /\ Cardinality(T) <= Cardinality(S) /\ Cardinality(T) \in Nat /\ Cardinality(S) \in Nat
<1>1. PICK g : g = [x \in S |-> f[x]]
  OBVIOUS
<1>2. g \in Surjection(S, T)
  BY <1>1, Fun_IsSurj
<1> QED
  BY <1>2, FS_Surjection, FS_CardinalityType

\* The used slots that do not fit into the array of the new size.
Behindhand(tb, nasize) == {n \in UsedArray(tb) : ~(n <= nasize)}
Hashed(tb, nasize) == {i \in UsedNodes(tb) : ~(countint(tb.node[i].key) /\ tb.node[i].key[2] <= nasize)}
\* The keys that a resize moves to nodes.
Moving(tb, nasize) == {NumKey(n) : n \in Behindhand(tb, nasize)} \cup {tb.node[i].key : i \in Hashed(tb, nasize)}

LEMMA UsedFinite ==
  ASSUME NEW tb, Sound(tb), NEW nasize \in Nat
  PROVE  /\ IsFiniteSet(UsedArray(tb)) /\ IsFiniteSet(UsedNodes(tb))
         /\ Behindhand(tb, nasize) \in SUBSET UsedArray(tb) /\ Hashed(tb, nasize) \in SUBSET UsedNodes(tb)
         /\ IsFiniteSet(Behindhand(tb, nasize)) /\ IsFiniteSet(Hashed(tb, nasize))
         /\ Cardinality(Behindhand(tb, nasize)) \in Nat /\ Cardinality(Hashed(tb, nasize)) \in Nat
         /\ Cardinality(UsedArray(tb)) \in Nat /\ Cardinality(UsedNodes(tb)) \in Nat
         /\ Cardinality(UsedNodes(tb)) <= Len(tb.node)
<1>1. /\ DOMAIN tb.array = 1 .. Len(tb.array) /\ Len(tb.array) \in Nat
      /\ DOMAIN tb.node = 1 .. Len(tb.node) /\ Len(tb.node) \in Nat
  BY TableFacts DEF Sound
<1>2. IsFiniteSet(1 .. Len(tb.array)) /\ IsFiniteSet(1 .. Len(tb.node)) /\ Cardinality(1 .. Len(tb.node)) = Len(tb.node)
  <2>1. \A n \in Nat : IsFiniteSet(1 .. n) /\ Cardinality(1 .. n) = n
    BY FS_Interval
  <2> QED
    BY <1>1, <2>1
<1>3. UsedArray(tb) \in SUBSET (1 .. Len(tb.array)) /\ UsedNodes(tb) \in SUBSET (1 .. Len(tb.node))
  BY <1>1 DEF UsedArray, UsedNodes
<1>4. IsFiniteSet(UsedArray(tb)) /\ IsFiniteSet(UsedNodes(tb)) /\ Cardinality(UsedNodes(tb)) <= Len(tb.node)
  BY <1>2, <1>3, FS_Subset
<1>5. Behindhand(tb, nasize) \in SUBSET UsedArray(tb) /\ Hashed(tb, nasize) \in SUBSET UsedNodes(tb)
  BY DEF Behindhand, Hashed
<1>6. IsFiniteSet(Behindhand(tb, nasize)) /\ IsFiniteSet(Hashed(tb, nasize))
  BY <1>4, <1>5, FS_Subset
<1> QED
  BY <1>4, <1>5, <1>6, FS_CardinalityType

LEMMA MovingSize ==
  ASSUME NEW tb, Sound(tb), NEW nasize \in Nat
  PROVE  /\ IsFiniteSet(Moving(tb, nasize)) /\ Cardinality(Moving(tb, nasize)) \in Nat
         /\ Cardinality(Moving(tb, nasize)) <= Cardinality(Behindhand(tb, nasize)) + Cardinality(Hashed(tb, nasize))
<1>1. PICK A, B : A = Behindhand(tb, nasize) /\ B = Hashed(tb, nasize)
  OBVIOUS
<1>2. IsFiniteSet(A) /\ IsFiniteSet(B) /\ Cardinality(A) \in Nat /\ Cardinality(B) \in Nat
  BY <1>1, UsedFinite
<1>3. PICK f, g : f = [n \in A |-> NumKey(n)] /\ g = [i \in B |-> tb.node[i].key]
  OBVIOUS
<1>4. PICK S, T : S = {f[n] : n \in A} /\ T = {g[i] : i \in B}
  OBVIOUS
<1>5. /\ IsFiniteSet(S) /\ Cardinality(S) <= Cardinality(A) /\ Cardinality(S) \in Nat
      /\ IsFiniteSet(T) /\ Cardinality(T) <= Cardinality(B) /\ Cardinality(T) \in Nat
  BY <1>2, <1>3, <1>4, ImageSize
<1>6. Moving(tb, nasize) = S \cup T
  BY <1>1, <1>3, <1>4 DEF Moving
<1>7. IsFiniteSet(S \cup T) /\ Cardinality(S \cup T) = Cardinality(S) + Cardinality(T) - Cardinality(S \cap T)
  BY <1>5, FS_Union
<1>8. Cardinality(S \cap T) \in Nat
  BY <1>5, FS_Intersection, FS_CardinalityType
<1>9. PICK a, b, s, t, u, v : /\ a = Cardinality(A) /\ b = Cardinality(B) /\ s = Cardinality(S) /\ t = Cardinality(T)
                              /\ u = Cardinality(S \cap T) /\ v = Cardinality(S \cup T)
  OBVIOUS
<1>10. v <= a + b /\ v \in Int
  BY <1>2, <1>5, <1>7, <1>8, <1>9
<1>11. v \in Nat
  BY <1>7, <1>9, FS_CardinalityType
<1> QED
  BY <1>1, <1>6, <1>7, <1>9, <1>10, <1>11

LEMMA MovingKeys ==
  ASSUME NEW tb, Sound(tb), NEW nasize \in Nat
  PROVE  /\ Moving(tb, nasize) \subseteq Keys /\ \A key \in Moving(tb, nasize) : ~InSlice(key, nasize)
         /\ \A j \in 1 .. Len(Moved(tb, nasize)) :
              Moved(tb, nasize)[j].val # Absent =>
                Moved(tb, nasize)[j].key \in Moving(tb, nasize) \/ InSlice(Moved(tb, nasize)[j].key, nasize)
<1>1. ASSUME NEW n \in Behindhand(tb, nasize) PROVE NumKey(n) \in Keys /\ ~InSlice(NumKey(n), nasize)
  <2>1. n \in KeyNumbers /\ n \in Nat /\ ~(n <= nasize)
    BY TableAssumption DEF Behindhand, UsedArray, Sound, Keyed
  <2> QED
    BY <2>1, KeyFacts DEF InSlice, NumKey
<1>2. ASSUME NEW i \in UsedNodes(tb) PROVE tb.node[i].key \in Keys
  BY DEF UsedNodes, Sound, Unvalued
<1>3. ASSUME NEW i \in Hashed(tb, nasize) PROVE tb.node[i].key \in Keys /\ ~InSlice(tb.node[i].key, nasize)
  BY <1>2 DEF Hashed, InSlice, countint
<1>4. ASSUME NEW j \in 1 .. Len(Moved(tb, nasize)), Moved(tb, nasize)[j].val # Absent
      PROVE  Moved(tb, nasize)[j].key \in Moving(tb, nasize) \/ InSlice(Moved(tb, nasize)[j].key, nasize)
  <2>1. PICK list : list = Moved(tb, nasize)
    OBVIOUS
  <2>2. \/ \E n \in DOMAIN tb.array : nasize < n /\ list[j].key = NumKey(n) /\ list[j].val = tb.array[n]
        \/ \E i \in DOMAIN tb.node : list[j].key = tb.node[i].key /\ list[j].val = tb.node[i].val
    BY <2>1, MovedIs
  <2>3. ASSUME NEW n \in DOMAIN tb.array, nasize < n, list[j].key = NumKey(n), list[j].val = tb.array[n]
        PROVE  list[j].key \in Moving(tb, nasize)
    <3>1. n \in Nat
      BY TableFacts DEF Sound
    <3>2. n \in Behindhand(tb, nasize)
      BY <1>4, <2>1, <2>3, <3>1 DEF Behindhand, UsedArray
    <3> QED
      BY <2>3, <3>2 DEF Moving
  <2>4. ASSUME NEW i \in DOMAIN tb.node, list[j].key = tb.node[i].key, list[j].val = tb.node[i].val
        PROVE  list[j].key \in Moving(tb, nasize) \/ InSlice(list[j].key, nasize)
    <3>1. i \in UsedNodes(tb)
      BY <1>4, <2>1, <2>4 DEF UsedNodes
    <3>2. CASE i \in Hashed(tb, nasize)
      BY <2>4, <3>2 DEF Moving
    <3>3. CASE i \notin Hashed(tb, nasize)
      <4>1. countint(tb.node[i].key) /\ tb.node[i].key[2] <= nasize /\ tb.node[i].key \in Keys
        BY <1>2, <3>1, <3>3 DEF Hashed
      <4>2. tb.node[i].key[1] = "num" /\ tb.node[i].key[2] \in Nat \ {0}
        BY <4>1, KeyFacts DEF countint
      <4>3. tb.node[i].key[2] \in 1 .. nasize
        BY <4>1, <4>2
      <4> QED
        BY <2>4, <4>2, <4>3 DEF InSlice
    <3> QED
      BY <3>2, <3>3
  <2> QED
    BY <2>1, <2>2, <2>3, <2>4
<1> QED
  BY <1>1, <1>3, <1>4 DEF Moving

\* rehash counts as many places as it needs, the one of the new key too.
LEMMA HashSizeFits ==
  ASSUME NEW tb, Sound(tb), NEW key \in Keys, NEW nasize \in Nat, NEW size, size = HashSize(tb, key, nasize),
         NEW K, K = IF InSlice(key, nasize) THEN Moving(tb, nasize) ELSE Moving(tb, nasize) \cup {key}
  PROVE  size \in Nat /\ Fit(K, Moved(tb, nasize), nasize, size)
<1>1. PICK A, B, UA, UN : /\ A = Behindhand(tb, nasize) /\ B = Hashed(tb, nasize)
                          /\ UA = UsedArray(tb) /\ UN = UsedNodes(tb)
  OBVIOUS
<1>2. /\ IsFiniteSet(UA) /\ IsFiniteSet(UN) /\ IsFiniteSet(A) /\ IsFiniteSet(B)
      /\ A \in SUBSET UA /\ B \in SUBSET UN
      /\ Cardinality(A) \in Nat /\ Cardinality(B) \in Nat /\ Cardinality(UA) \in Nat /\ Cardinality(UN) \in Nat
  BY <1>1, UsedFinite
<1>3. Cardinality(UA \ A) = Cardinality(UA) - Cardinality(A) /\ Cardinality(UN \ B) = Cardinality(UN) - Cardinality(B)
  <2>1. UA \cap A = A /\ UN \cap B = B
    BY <1>2
  <2>2. Cardinality(UA \ A) = Cardinality(UA) - Cardinality(UA \cap A)
    BY <1>2, FS_Difference
  <2>3. Cardinality(UN \ B) = Cardinality(UN) - Cardinality(UN \cap B)
    BY <1>2, FS_Difference
  <2> QED
    BY <2>1, <2>2, <2>3
<1>4. UA \ A = {i \in UA : i <= nasize}
  BY <1>1 DEF Behindhand
<1>5. UN \ B = {i \in UN : countint(tb.node[i].key) /\ tb.node[i].key[2] <= nasize}
  BY <1>1 DEF Hashed
<1>6. PICK e : e = IF countint(key) /\ key[2] <= nasize THEN 1 ELSE 0
  OBVIOUS
<1>7. CountUpTo(tb, key, nasize) = Cardinality(UA \ A) + Cardinality(UN \ B) + e
  BY <1>1, <1>4, <1>5, <1>6 DEF CountUpTo
<1>8. size = Cardinality(A) + Cardinality(B) + 1 - e
  <2>1. size = Cardinality(UA) + Cardinality(UN) + 1 - CountUpTo(tb, key, nasize)
    BY <1>1 DEF HashSize
  <2> QED
    BY <1>2, <1>3, <1>6, <1>7, <2>1
<1>9. InSlice(key, nasize) <=> e = 1
  <2>1. CASE key[1] = "num" /\ key[2] \in KeyNumbers
    <3>1. key[2] \in Nat \ {0}
      BY <2>1, KeyFacts
    <3>2. countint(key)
      BY <2>1 DEF countint
    <3> QED
      BY <1>6, <2>1, <3>1, <3>2 DEF InSlice
  <2>2. CASE key[1] # "num"
    BY <1>6, <2>2 DEF InSlice, countint
  <2> QED
    BY <2>1, <2>2, KeyFacts
<1>10. size \in Nat
  BY <1>2, <1>6, <1>8
<1>11. PICK L : L = Moving(tb, nasize)
  OBVIOUS
<1>12. IsFiniteSet(L) /\ Cardinality(L) \in Nat /\ Cardinality(L) <= Cardinality(A) + Cardinality(B)
  BY <1>1, <1>11, MovingSize
<1>13. IsFiniteSet(K) /\ Cardinality(K) <= size
  <2>1. CASE InSlice(key, nasize)
    <3>1. K = L /\ e = 1
      BY <1>9, <1>11, <2>1
    <3>2. size = Cardinality(A) + Cardinality(B)
      BY <1>2, <1>8, <3>1
    <3> QED
      BY <1>12, <3>1, <3>2
  <2>2. CASE ~InSlice(key, nasize)
    <3>1. K = L \cup {key} /\ e = 0
      BY <1>6, <1>9, <1>11, <2>2
    <3>2. IsFiniteSet(L \cup {key}) /\ Cardinality(L \cup {key}) <= Cardinality(L) + 1
      BY <1>12, FS_AddElement
    <3>3. Cardinality(L \cup {key}) \in Nat
      BY <3>2, FS_CardinalityType
    <3>4. size = (Cardinality(A) + Cardinality(B)) + 1
      BY <1>2, <1>8, <3>1
    <3>5. PICK a, b, c, d : /\ a = Cardinality(A) /\ b = Cardinality(B)
                            /\ c = Cardinality(L) /\ d = Cardinality(L \cup {key})
      OBVIOUS
    <3>6. d <= size
      BY <1>2, <1>12, <3>2, <3>3, <3>4, <3>5
    <3> QED
      BY <3>1, <3>2, <3>5, <3>6
  <2> QED
    BY <2>1, <2>2
<1>14. /\ L \subseteq Keys /\ \A k \in L : ~InSlice(k, nasize)
       /\ \A j \in 1 .. Len(Moved(tb, nasize)) :
            Moved(tb, nasize)[j].val # Absent =>
              Moved(tb, nasize)[j].key \in L \/ InSlice(Moved(tb, nasize)[j].key, nasize)
  BY <1>11, MovingKeys
<1>15. L \subseteq K /\ \A k \in K : k \in L \/ (k = key /\ ~InSlice(key, nasize))
  BY <1>11
<1> QED
  BY <1>10, <1>13, <1>14, <1>15 DEF Fit

-----------------------------------------------------------------------------
(* What the operations do to a table                                       *)

\* w answers x for key, and as tb for every other key outside H.
Sets(tb, w, key, x, H) ==
  /\ Sound(w) /\ w.stuck = FALSE /\ OffArray(w, H)
  /\ Lookup(w, key) = x /\ \A k \in Keys \ H : k # key => Lookup(w, k) = Lookup(tb, k)

LEMMA StoredSets ==
  ASSUME NEW tb, Sound(tb), tb.stuck = FALSE, NEW H, OffArray(tb, H), NEW key \in Keys, NEW x, NEW w, Stored(tb, w, key, x)
  PROVE  Sets(tb, w, key, x, H)
<1>1. tb \in Tables /\ w \in Tables
  BY DEF Sound, Stored
<1>2. DOMAIN w.array = DOMAIN tb.array
  BY <1>1, TableFacts DEF Stored
<1>3. OffArray(w, H)
  <2> SUFFICES ASSUME NEW i \in Used(w), NEW n \in DOMAIN w.array, w.node[i].key = NumKey(n)
               PROVE  NumKey(n) \in H
    BY DEF OffArray
  <2>1. NumKey(n) \in KeysIn(w)
    BY DEF KeysIn
  <2>2. CASE NumKey(n) \in KeysIn(tb)
    BY <1>2, <2>2 DEF KeysIn, OffArray
  <2>3. CASE NumKey(n) = key /\ ~InArray(tb, key)
    <3>1. key[1] = "num" /\ key[2] = n
      BY <2>3 DEF NumKey
    <3> QED
      BY <1>2, <2>3, <3>1 DEF InArray
  <2> QED
    BY <2>1, <2>2, <2>3 DEF Stored
<1> QED
  BY <1>3 DEF Stored, Sets

LEMMA rehashKeeps ==
  ASSUME NEW tb, Sound(tb), tb.stuck = FALSE, NEW H, OffArray(tb, H), NEW key \in Keys, NEW x \in Values,
         NEW w, w = rehash(tb, key)
  PROVE  /\ Resizes(tb, w, computesizes(tb, key), H)
         /\ Stored(w, Reinserted(w, key, x), key, x)
<1>1. PICK n, size : n = computesizes(tb, key) /\ size = HashSize(tb, key, n)
  OBVIOUS
<1>2. n \in Nat
  BY <1>1, computesizesIs
<1>3. PICK K : K = IF InSlice(key, n) THEN Moving(tb, n) ELSE Moving(tb, n) \cup {key}
  OBVIOUS
<1>4. size \in Nat /\ Fit(K, Moved(tb, n), n, size)
  BY <1>1, <1>2, <1>3, HashSizeFits
<1>5. w = resize(tb, n, size)
  BY <1>1 DEF rehash
<1>6. Resizes(tb, w, n, H) /\ KeysIn(w) \subseteq K /\ size <= Len(w.node)
  <2>1. /\ Resizes(tb, resize(tb, n, size), n, H) /\ KeysIn(resize(tb, n, size)) \subseteq K
        /\ size <= Len(resize(tb, n, size).node)
    BY <1>2, <1>4, resizeKeeps
  <2> QED
    BY <1>5, <2>1
<1>7. Sound(w) /\ Len(w.array) = n
  BY <1>6 DEF Resizes
<1>8. Len(w.node) \in Nat /\ DOMAIN w.array = 1 .. n
  BY <1>7, TableFacts DEF Sound
<1>9. K \subseteq Keys /\ IsFiniteSet(K) /\ Cardinality(K) <= Len(w.node)
  <2>1. Cardinality(K) \in Nat /\ Cardinality(K) <= size
    BY <1>4, FS_CardinalityType DEF Fit
  <2> QED
    BY <1>4, <1>6, <1>8, <2>1 DEF Fit
<1>10. key \in K \/ InArray(w, key)
  BY <1>3, <1>8 DEF InSlice, InArray
<1>11. Stored(w, Reinserted(w, key, x), key, x)
  BY <1>6, <1>7, <1>9, <1>10, ReinsertedKeeps
<1> QED
  BY <1>1, <1>6, <1>11

LEMMA OffMore ==
  ASSUME NEW tb, NEW H, NEW G, OffArray(tb, H), H \subseteq G
  PROVE  OffArray(tb, G)
BY DEF OffArray

LEMMA luaH_setKeeps ==
  ASSUME NEW tb, Sound(tb), tb.stuck = FALSE, NEW H, OffArray(tb, H), NEW key \in Keys, NEW x \in Values
  PROVE  Sets(tb, luaH_set(tb, key, x), key, x, H)
<1>1. CASE luaH_get(tb, key) # <<>>
  <2>1. luaH_set(tb, key, x) = StoreAt(tb, luaH_get(tb, key), x)
    BY <1>1 DEF luaH_set
  <2>2. Stored(tb, StoreAt(tb, luaH_get(tb, key), x), key, x)
    BY <1>1, StoreKeeps
  <2> QED
    BY <2>1, <2>2, StoredSets
<1>2. CASE luaH_get(tb, key) = <<>> /\ HasPlace(tb, key)
  <2>1. luaH_set(tb, key, x) = newkey(tb, key, x)
    BY <1>2 DEF luaH_set
  <2>2. Stored(tb, newkey(tb, key, x), key, x)
    BY <1>2, NewKeyKeeps
  <2> QED
    BY <2>1, <2>2, StoredSets
<1>3. CASE luaH_get(tb, key) = <<>> /\ ~HasPlace(tb, key)
  <2>1. PICK w : w = rehash(tb, key)
    OBVIOUS
  <2>2. luaH_set(tb, key, x) = Reinserted(w, key, x)
    BY <1>3, <2>1 DEF luaH_set
  <2>3. Resizes(tb, w, computesizes(tb, key), H) /\ Stored(w, Reinserted(w, key, x), key, x)
    BY <2>1, rehashKeeps
  <2>4. Sound(w) /\ w.stuck = FALSE /\ OffArray(w, H) /\ \A k \in Keys \ H : Lookup(w, k) = Lookup(tb, k)
    BY <2>3, OffMore DEF Resizes
  <2>5. Sets(w, Reinserted(w, key, x), key, x, H)
    BY <2>3, <2>4, StoredSets
  <2> QED
    BY <2>2, <2>4, <2>5 DEF Sets
<1> QED
  BY <1>1, <1>2, <1>3

LEMMA luaH_resizearrayKeeps ==
  ASSUME NEW tb, Sound(tb), tb.stuck = FALSE, NEW H, OffArray(tb, H), NEW n \in Nat, n > Len(tb.array)
  PROVE  Resizes(tb, luaH_resizearray(tb, n), n, H)
<1>1. PICK K : K = Moving(tb, n)
  OBVIOUS
<1>2. Len(tb.node) \in Nat /\ Len(tb.array) \in Nat /\ DOMAIN tb.array = 1 .. Len(tb.array)
  BY TableFacts DEF Sound
<1>3. Behindhand(tb, n) = {}
  BY <1>2 DEF Behindhand, UsedArray
<1>4. Cardinality(Hashed(tb, n)) <= Len(tb.node) /\ Cardinality(Hashed(tb, n)) \in Nat
  <2>1. /\ Cardinality(Hashed(tb, n)) \in Nat /\ Cardinality(UsedNodes(tb)) \in Nat
        /\ Hashed(tb, n) \in SUBSET UsedNodes(tb) /\ IsFiniteSet(UsedNodes(tb))
        /\ Cardinality(UsedNodes(tb)) <= Len(tb.node)
    BY UsedFinite
  <2>2. Cardinality(Hashed(tb, n)) <= Cardinality(UsedNodes(tb))
    BY <2>1, FS_Subset
  <2> QED
    BY <1>2, <2>1, <2>2
<1>5. IsFiniteSet(K) /\ Cardinality(K) <= Len(tb.node)
  <2>1. /\ IsFiniteSet(K) /\ Cardinality(K) \in Nat
        /\ Cardinality(K) <= Cardinality(Behindhand(tb, n)) + Cardinality(Hashed(tb, n))
    BY <1>1, MovingSize
  <2>2. Cardinality(Behindhand(tb, n)) = 0
    BY <1>3, FS_EmptySet
  <2> QED
    BY <1>2, <1>4, <2>1, <2>2
<1>6. Fit(K, Moved(tb, n), n, Len(tb.node))
  BY <1>1, <1>5, MovingKeys DEF Fit
<1> QED
  BY <1>2, <1>6, resizeKeeps DEF luaH_resizearray

\* The keys that a longer array takes without the node part giving them up.
Skipped(tb, n) == {NumKey(m) : m \in Len(tb.array) + 1 .. n}

\* A rehash fails when no node is free; what it has lengthened hides keys.
\* The table w holds what tb holds but for the keys of G.
Withdrawn(tb, w, G) ==
  /\ Sound(w) /\ w.stuck = FALSE /\ OffArray(w, G)
  /\ \A key \in Keys \ G : Lookup(w, key) = Lookup(tb, key)

LEMMA FailedKeeps ==
  ASSUME NEW tb, Sound(tb), tb.stuck = FALSE, NEW H, OffArray(tb, H), getfreepos(tb) = 0, NEW n \in Nat,
         NEW w, w = Taken(Lengthened(tb, n), 0),
         NEW G, G = H \cup Skipped(tb, n)
  PROVE  Withdrawn(tb, w, G)
<1>1. PICK v, A : v = Lengthened(tb, n) /\ A = Len(tb.array)
  OBVIOUS
<1>2. tb \in Tables /\ A \in Nat /\ DOMAIN tb.array = 1 .. A /\ DOMAIN tb.node = 1 .. Len(tb.node)
  BY <1>1, TableFacts DEF Sound
<1>3. /\ v \in Tables /\ v.node = tb.node /\ v.stuck = tb.stuck
      /\ DOMAIN v.array \subseteq 1 .. A \cup A + 1 .. n
      /\ DOMAIN tb.array \subseteq DOMAIN v.array
      /\ \A m \in DOMAIN v.array : v.array[m] = IF m \in DOMAIN tb.array THEN tb.array[m] ELSE Absent
  <2>1. CASE n < A
    <3>1. v = tb
      BY <1>1, <1>2, <2>1 DEF Lengthened
    <3> QED
      BY <1>2, <3>1
  <2>2. CASE ~(n < A)
    <3>1. v = IF n < Len(tb.array) THEN Shrunk(tb, n) ELSE Lengthened(tb, n)
      BY <1>1, <2>2
    <3>2. /\ v \in Tables /\ Len(v.array) = n /\ v.node = tb.node /\ v.stuck = tb.stuck
          /\ \A m \in 1 .. n : v.array[m] = IF m <= Len(tb.array) THEN tb.array[m] ELSE Absent
      BY <1>2, <3>1, ArrayOfSize
    <3>3. DOMAIN v.array = 1 .. n
      BY <3>2, TableFacts
    <3> QED
      BY <1>1, <1>2, <2>2, <3>2, <3>3
  <2> QED
    BY <2>1, <2>2
<1>4. w \in Tables /\ w.array = v.array /\ w.node = tb.node /\ w.stuck = FALSE /\ w.lastfree = 0
  BY <1>1, <1>3 DEF Taken, Tables
<1>5. SameShape(tb, w)
  BY <1>4 DEF SameShape
<1>6. Unvalued(w) /\ NoneFree(w) /\ Keyed(w)
  <2>1. Unvalued(w)
    BY <1>4 DEF Unvalued, Sound
  <2>2. NoneFree(w)
    <3>1. \A i \in DOMAIN tb.node : i \in Used(tb)
      <4>1. \A i \in DOMAIN tb.node : 0 < i
        BY <1>2
      <4> QED
        BY <1>2, <4>1, FreePlace
    <3>2. \A i \in DOMAIN w.node : i \in Used(w)
      BY <1>4, <3>1 DEF Used
    <3>3. 0 <= Len(w.node) + 1
      BY <1>4, TableFacts
    <3> QED
      BY <1>4, <3>2, <3>3 DEF NoneFree
  <2>3. Keyed(w)
    BY <1>3, <1>4 DEF Keyed, Sound
  <2> QED
    BY <2>1, <2>2, <2>3
<1>7. Sound(w) /\ Used(w) = Used(tb)
  BY <1>5, <1>6, ShapeSound
<1>8. OffArray(w, G)
  <2> SUFFICES ASSUME NEW i \in Used(tb), NEW m \in DOMAIN v.array, tb.node[i].key = NumKey(m)
               PROVE  NumKey(m) \in G
    BY <1>4, <1>7 DEF OffArray
  <2>1. CASE m \in DOMAIN tb.array
    BY <2>1 DEF OffArray
  <2>2. CASE m \notin DOMAIN tb.array
    <3>1. m \in A + 1 .. n
      BY <1>2, <1>3, <2>2
    <3> QED
      BY <1>1, <3>1 DEF Skipped
  <2> QED
    BY <2>1, <2>2
<1>9. ASSUME NEW key \in Keys \ G PROVE Lookup(w, key) = Lookup(tb, key)
  <2>1. InArray(w, key) <=> InArray(tb, key)
    <3>1. InArray(tb, key) => InArray(w, key)
      BY <1>3, <1>4 DEF InArray
    <3>2. ASSUME InArray(w, key) PROVE InArray(tb, key)
      <4>1. key = NumKey(key[2]) /\ key[1] = "num" /\ key[2] \in DOMAIN v.array
        BY <1>4, <3>2, KeyFacts DEF InArray
      <4>2. key[2] \notin A + 1 .. n
        BY <1>1, <4>1 DEF Skipped
      <4>3. key[2] \in 1 .. A
        BY <1>3, <4>1, <4>2
      <4> QED
        BY <1>2, <4>1, <4>3 DEF InArray
    <3> QED
      BY <3>1, <3>2
  <2>2. CASE InArray(tb, key)
    <3>1. Lookup(tb, key) = tb.array[key[2]] /\ key[2] \in DOMAIN tb.array
      BY <2>2, GetInArray DEF InArray
    <3>2. Lookup(w, key) = w.array[key[2]]
      BY <2>1, <2>2, GetInArray
    <3> QED
      BY <1>3, <1>4, <3>1, <3>2
  <2>3. CASE ~InArray(tb, key)
    <3>1. \A y : Has(w, key, y) <=> Has(tb, key, y)
      BY <1>4 DEF Has
    <3> QED
      BY <1>7, <2>1, <2>3, <3>1, SameLookup
  <2> QED
    BY <2>2, <2>3
<1> QED
  BY <1>4, <1>7, <1>8, <1>9 DEF Withdrawn

\* removeentry: the same table, some of whose keys are dead.
LEMMA DeadKeeps ==
  ASSUME NEW tb, Sound(tb), NEW w, w = [tb EXCEPT !.node = [i \in DOMAIN @ |-> DeadNode(@[i])]]
  PROVE  /\ Sound(w) /\ w.stuck = tb.stuck /\ w.array = tb.array /\ SameShape(tb, w)
         /\ Links(w) = Links(tb) /\ Used(w) = Used(tb)
         /\ \A key \in Keys : Lookup(w, key) = Lookup(tb, key)
         /\ \A i \in DOMAIN tb.node : /\ w.node[i].val = tb.node[i].val
                                      /\ (w.node[i].val # Absent => w.node[i].key = tb.node[i].key)
<1>1. PICK b : b = [i \in DOMAIN tb.node |-> DeadNode(tb.node[i])]
  OBVIOUS
<1>2. tb \in Tables /\ DOMAIN tb.node = 1 .. Len(tb.node) /\ Len(tb.node) \in Nat
  BY TableFacts DEF Sound
<1>3. ASSUME NEW i \in DOMAIN tb.node
      PROVE  /\ DeadNode(tb.node[i]) \in NodeRecords
             /\ DeadNode(tb.node[i]).next = tb.node[i].next /\ DeadNode(tb.node[i]).val = tb.node[i].val
             /\ DeadNode(tb.node[i]).key = NoKey <=> tb.node[i].key = NoKey
             /\ Named(DeadNode(tb.node[i]).key) = Named(tb.node[i].key)
             /\ DeadNode(tb.node[i]).key \in Keys => DeadNode(tb.node[i]).key = tb.node[i].key
             /\ DeadNode(tb.node[i]).val # Absent => DeadNode(tb.node[i]).key = tb.node[i].key
  <2>1. PICK e : e = tb.node[i]
    OBVIOUS
  <2>2. e \in NodeRecords /\ e.key \in NodeKeys
    BY <2>1, NodeFacts DEF Sound
  <2>3. CASE e.val = Absent /\ e.key[1] = "str"
    <3>1. DeadNode(e) = [e EXCEPT !.key = DeadKey(e.key)]
      BY <2>3 DEF DeadNode
    <3>2. e.key \in Keys
      <4>1. NoKey[1] # "str" /\ \A k \in DeadKeys : k[1] # "str"
        BY DEF NoKey, DeadKeys, DeadKey
      <4> QED
        BY <2>2, <2>3, <4>1 DEF NodeKeys
    <3>3. e.key = StrKey(e.key[2]) /\ e.key[2] \in KeyStrings
      BY <2>3, <3>2, KeyFacts
    <3>4. DeadKey(e.key) \in DeadKeys /\ Named(DeadKey(e.key)) = e.key
      <4>1. DeadKey(e.key) = <<"dead", e.key[2]>>
        BY DEF DeadKey
      <4>2. Named(DeadKey(e.key)) = StrKey(e.key[2])
        BY <4>1 DEF Named
      <4> QED
        BY <3>3, <4>2 DEF DeadKeys
    <3>5. /\ DeadNode(e) \in NodeRecords /\ DeadNode(e).next = e.next /\ DeadNode(e).val = e.val
          /\ DeadNode(e).key = DeadKey(e.key)
      BY <2>2, <3>1, <3>4 DEF NodeRecords, NodeKeys
    <3>6. DeadKey(e.key) # NoKey /\ e.key # NoKey /\ DeadKey(e.key) \notin Keys /\ Named(e.key) = e.key
      BY <3>2, <3>4, KeyFacts
    <3> QED
      BY <2>1, <2>3, <3>4, <3>5, <3>6
  <2>4. CASE ~(e.val = Absent /\ e.key[1] = "str")
    <3>1. DeadNode(e) = e
      BY <2>4 DEF DeadNode
    <3> QED
      BY <2>1, <2>2, <3>1
  <2> QED
    BY <2>3, <2>4
<1>4. b \in Seq(NodeRecords) /\ Len(b) = Len(tb.node)
  <2>1. b \in [1 .. Len(tb.node) -> NodeRecords]
    BY <1>1, <1>2, <1>3
  <2> QED
    BY <1>2, <2>1, SequenceIs
<1>5. w = [tb EXCEPT !.node = b]
  BY <1>1
<1>6. w \in Tables /\ w.node = b /\ w.array = tb.array /\ w.lastfree = tb.lastfree /\ w.stuck = tb.stuck
  BY <1>2, <1>4, <1>5 DEF Tables
<1>7. DOMAIN w.node = DOMAIN tb.node /\ \A i \in DOMAIN tb.node : w.node[i] = DeadNode(tb.node[i])
  BY <1>1, <1>6
<1>8. SameShape(tb, w)
  BY <1>3, <1>4, <1>6, <1>7 DEF SameShape
<1>9. \A i \in DOMAIN tb.node : /\ w.node[i].val = tb.node[i].val
                                /\ (w.node[i].val # Absent => w.node[i].key = tb.node[i].key)
  BY <1>3, <1>7
<1>10. Unvalued(w) /\ NoneFree(w) /\ Keyed(w)
  <2>1. Unvalued(w)
    BY <1>7, <1>9 DEF Unvalued, Sound
  <2>2. NoneFree(w)
    <3>1. \A i \in DOMAIN tb.node : i \in Used(tb) => i \in Used(w)
      BY <1>3, <1>7 DEF Used
    <3> QED
      BY <1>4, <1>6, <1>7, <3>1 DEF NoneFree, Sound
  <2>3. Keyed(w)
    BY <1>6 DEF Keyed, Sound
  <2> QED
    BY <2>1, <2>2, <2>3
<1>11. Sound(w) /\ Links(w) = Links(tb) /\ Used(w) = Used(tb)
  BY <1>8, <1>10, ShapeSound
<1>12. ASSUME NEW key \in Keys PROVE Lookup(w, key) = Lookup(tb, key)
  <2>1. InArray(w, key) <=> InArray(tb, key)
    BY <1>6 DEF InArray
  <2>2. CASE InArray(tb, key)
    <3>1. Lookup(tb, key) = tb.array[key[2]]
      BY <2>2, GetInArray
    <3>2. Lookup(w, key) = w.array[key[2]]
      BY <2>1, <2>2, GetInArray
    <3> QED
      BY <1>6, <3>1, <3>2
  <2>3. CASE ~InArray(tb, key)
    <3>1. \A y : y # Absent => (Has(w, key, y) <=> Has(tb, key, y))
      <4>1. ASSUME NEW y, y # Absent, Has(w, key, y) PROVE Has(tb, key, y)
        BY <1>7, <1>9, <4>1 DEF Has
      <4>2. ASSUME NEW y, y # Absent, Has(tb, key, y) PROVE Has(w, key, y)
        BY <1>7, <1>9, <4>2 DEF Has
      <4> QED
        BY <4>1, <4>2
    <3> QED
      BY <1>11, <2>1, <2>3, <3>1, SameLookup
  <2> QED
    BY <2>2, <2>3
<1> QED
  BY <1>6, <1>8, <1>9, <1>11, <1>12

-----------------------------------------------------------------------------
(* The length                                                              *)

\* p has a border between its ends.
Straddles(tb, p) ==
  /\ p \in Nat \X Nat /\ p[1] < p[2]
  /\ p[1] = 0 \/ Lookup(tb, NumKey(p[1])) # Absent
IsBorder(tb, n) ==
  n \in Nat /\ (n = 0 \/ Lookup(tb, NumKey(n)) # Absent) /\ Lookup(tb, NumKey(n + 1)) = Absent

LEMMA HalvedKeeps ==
  ASSUME NEW tb, NEW p, Straddles(tb, p), Lookup(tb, NumKey(p[2])) = Absent,
         NEW q, q = Halved(tb, p)
  PROVE  /\ Straddles(tb, q) /\ Lookup(tb, NumKey(q[2])) = Absent
         /\ q[2] - q[1] = 1 \/ q[2] - q[1] < p[2] - p[1]
<1>1. PICK a, b : a = p[1] /\ b = p[2]
  OBVIOUS
<1>2. a \in Nat /\ b \in Nat /\ a < b /\ p = <<a, b>>
  BY <1>1 DEF Straddles
<1>3. CASE b - a <= 1
  <2>1. q = p
    BY <1>1, <1>3 DEF Halved
  <2> QED
    BY <1>1, <1>2, <1>3, <2>1
<1>4. CASE ~(b - a <= 1)
  <2>1. PICK m : m = (a + b) \div 2
    OBVIOUS
  <2>2. m \in Nat /\ a < m /\ m < b
    BY <1>2, <1>4, <2>1
  <2>3. CASE Lookup(tb, NumKey(m)) = Absent
    <3>1. q = <<a, m>>
      BY <1>1, <1>4, <2>1, <2>3 DEF Halved
    <3>2. q[1] = a /\ q[2] = m /\ q \in Nat \X Nat
      BY <1>2, <2>2, <3>1
    <3> QED
      BY <1>1, <1>2, <2>2, <2>3, <3>2 DEF Straddles
  <2>4. CASE Lookup(tb, NumKey(m)) # Absent
    <3>1. q = <<m, b>>
      BY <1>1, <1>4, <2>1, <2>4 DEF Halved
    <3>2. q[1] = m /\ q[2] = b /\ q \in Nat \X Nat
      BY <1>2, <2>2, <3>1
    <3> QED
      BY <1>1, <1>2, <2>2, <2>4, <3>2 DEF Straddles
  <2> QED
    BY <2>3, <2>4
<1> QED
  BY <1>3, <1>4

LEMMA BetweenIs ==
  ASSUME NEW tb, NEW p, Straddles(tb, p), Lookup(tb, NumKey(p[2])) = Absent
  PROVE  IsBorder(tb, Between(tb, p))
<1> DEFINE f(x, n) == Halved(tb, x)
           Good(x, i) == /\ Straddles(tb, x) /\ Lookup(tb, NumKey(x[2])) = Absent
                         /\ x[2] - x[1] = 1 \/ x[2] - x[1] <= p[2] - p[1] - i
<1>1. PICK k : k = p[2] - p[1]
  OBVIOUS
<1>2. k \in Nat /\ k >= 1
  BY <1>1 DEF Straddles
<1>3. Good(p, 0)
  BY <1>1, <1>2
<1>4. ASSUME NEW i \in 1 .. k, NEW x, Good(x, i - 1) PROVE Good(f(x, i), i)
  <2>1. PICK y : y = f(x, i)
    OBVIOUS
  <2>2. Straddles(tb, x) /\ Lookup(tb, NumKey(x[2])) = Absent
        /\ (x[2] - x[1] = 1 \/ x[2] - x[1] <= k - (i - 1))
    BY <1>1, <1>4
  <2>3. /\ Straddles(tb, y) /\ Lookup(tb, NumKey(y[2])) = Absent
        /\ y[2] - y[1] = 1 \/ y[2] - y[1] < x[2] - x[1]
    BY <2>1, <2>2, HalvedKeeps
  <2>4. PICK d, e : d = x[2] - x[1] /\ e = y[2] - y[1]
    OBVIOUS
  <2>5. d \in Nat /\ e \in Nat /\ d >= 1 /\ e >= 1
    BY <2>2, <2>3, <2>4 DEF Straddles
  <2>6. (d = 1 \/ d <= k - (i - 1)) /\ (e = 1 \/ e < d)
    BY <2>2, <2>3, <2>4
  <2>7. e = 1 \/ e <= k - i
    BY <1>2, <2>5, <2>6
  <2> QED
    BY <1>1, <2>1, <2>3, <2>4, <2>7
<1>5. \A x, i : Good(x, i) => x \in Nat \X Nat
  BY DEF Straddles
<1>6. \A x : Good(x, k) => x[1] \in Nat /\ x[2] = x[1] + 1
  <2> SUFFICES ASSUME NEW x, Good(x, k) PROVE x[1] \in Nat /\ x[2] = x[1] + 1
    OBVIOUS
  <2>1. x[1] \in Nat /\ x[2] \in Nat /\ x[1] < x[2]
    BY DEF Straddles
  <2>2. x[2] - x[1] = 1 \/ x[2] - x[1] <= k - k
    BY <1>1
  <2> QED
    BY <1>2, <2>1, <2>2
<1> DEFINE T == [i \in 0 .. k |-> {x \in Nat \X Nat : Good(x, i)}]
           Step == [i \in 1 .. k |-> [x \in T[i - 1] |-> f(x, i)]]
<1>7. \A x : Good(x, k) => IsBorder(tb, x[1])
  BY <1>6 DEF IsBorder, Straddles
<1> HIDE DEF Good, f
<1>8. \A i \in 0 .. k : T[i] = {x \in Nat \X Nat : Good(x, i)}
  OBVIOUS
<1>9. \A i \in 1 .. k : \A x \in T[i - 1] : f(x, i) \in T[i]
  <2> SUFFICES ASSUME NEW i \in 1 .. k, NEW x \in T[i - 1] PROVE f(x, i) \in T[i]
    OBVIOUS
  <2>1. i - 1 \in 0 .. k /\ i \in 0 .. k
    BY <1>2
  <2> HIDE DEF T
  <2>2. Good(x, i - 1)
    BY <1>8, <2>1
  <2> QED
    BY <1>4, <1>5, <1>8, <2>1, <2>2
<1>10. p \in T[0]
  BY <1>2, <1>3, <1>5
<1> HIDE DEF T
<1>11. StepsWithin(k, T, Step)
  BY <1>9 DEF StepsWithin
<1>12. PICK m : Repeats(k, T, Step, p, m)
  <2> HIDE DEF Step
  <2> QED
    BY <1>2, <1>10, <1>11, Repeated
<1>13. m = [i \in 0 .. k |-> IF i = 0 THEN p ELSE f(m[i - 1], i)]
  <2>1. \A i \in 1 .. k : Step[i][m[i - 1]] = f(m[i - 1], i)
    <3> SUFFICES ASSUME NEW i \in 1 .. k PROVE Step[i][m[i - 1]] = f(m[i - 1], i)
      OBVIOUS
    <3>1. i - 1 \in 0 .. k
      BY <1>2
    <3>2. m[i - 1] \in T[i - 1]
      BY <3>1, <1>12 DEF Repeats
    <3> QED
      BY <3>2
  <2> HIDE DEF Step
  <2>2. \A i \in 0 .. k : i # 0 => i \in 1 .. k
    BY <1>2
  <2> QED
    BY <1>12, <2>1, <2>2 DEF Repeats
<1>14. PICK r : r = CHOOSE h : h = [n \in 0 .. k |-> IF n = 0 THEN p ELSE f(h[n - 1], n)]
  OBVIOUS
<1>15. r = [n \in 0 .. k |-> IF n = 0 THEN p ELSE f(r[n - 1], n)]
  BY <1>13, <1>14
<1>16. Between(tb, p) = r[k][1]
  BY <1>1, <1>14 DEF Between, f
<1>17. Good(r[k], k)
  <2>1. r[0] \in T[0]
    BY <1>2, <1>10, <1>15
  <2>2. \A i \in 1 .. k : r[i - 1] \in T[i - 1] => r[i] \in T[i]
    <3> SUFFICES ASSUME NEW i \in 1 .. k, r[i - 1] \in T[i - 1] PROVE r[i] \in T[i]
      OBVIOUS
    <3>1. i \in 0 .. k /\ i # 0
      BY <1>2
    <3>2. r[i] = f(r[i - 1], i)
      BY <1>15, <3>1
    <3> QED
      BY <1>9, <3>2
  <2>3. \A i \in 0 .. k : r[i] \in T[i]
    BY <1>2, <2>1, <2>2, PassedOn
  <2>4. k \in 0 .. k
    BY <1>2
  <2> QED
    BY <1>8, <2>3, <2>4
<1> QED
  BY <1>7, <1>16, <1>17

LEMMA DoubledKeeps ==
  ASSUME NEW tb, NEW p, Straddles(tb, p), NEW n \in Nat, Lookup(tb, NumKey(p[2])) = Absent \/ p[2] > n,
         NEW q, q = Doubled(tb, p)
  PROVE  Straddles(tb, q) /\ (Lookup(tb, NumKey(q[2])) = Absent \/ q[2] > n + 1)
<1>1. PICK a, b : a = p[1] /\ b = p[2]
  OBVIOUS
<1>2. a \in Nat /\ b \in Nat /\ a < b
  BY <1>1 DEF Straddles
<1>3. CASE Lookup(tb, NumKey(b)) = Absent
  <2>1. q = p
    BY <1>1, <1>3 DEF Doubled
  <2> QED
    BY <1>1, <1>3, <2>1
<1>4. CASE Lookup(tb, NumKey(b)) # Absent
  <2>1. q = <<b, 2 * b>>
    BY <1>1, <1>4 DEF Doubled
  <2>2. q[1] = b /\ q[2] = 2 * b /\ q \in Nat \X Nat
    BY <1>2, <2>1
  <2>3. b > n
    BY <1>1, <1>4
  <2>4. b < 2 * b /\ 2 * b > n + 1
    BY <1>2, <2>3
  <2> QED
    BY <1>4, <2>2, <2>4 DEF Straddles
<1> QED
  BY <1>3, <1>4

LEMMA unbound_searchIs ==
  ASSUME NEW tb, Sound(tb), NEW j \in Nat, j = 0 \/ Lookup(tb, NumKey(j)) # Absent
  PROVE  IsBorder(tb, unbound_search(tb, j))
<1> DEFINE f(x, n) == Doubled(tb, x)
           Good(x, i) == Straddles(tb, x) /\ (Lookup(tb, NumKey(x[2])) = Absent \/ x[2] > i)
<1>1. PICK k, p : k = Max(KeyNumbers) /\ p = <<j, j + 1>>
  OBVIOUS
<1>2. k \in Nat /\ \A n \in KeyNumbers : n <= k
  BY <1>1, KeyBound
<1>3. Good(p, 0)
  <2>1. p[1] = j /\ p[2] = j + 1 /\ p \in Nat \X Nat
    BY <1>1
  <2> QED
    BY <2>1 DEF Straddles
<1>4. ASSUME NEW i \in 1 .. k, NEW x, Good(x, i - 1) PROVE Good(f(x, i), i)
  <2>1. i - 1 \in Nat /\ i - 1 + 1 = i
    BY <1>2
  <2>2. Straddles(tb, f(x, i)) /\ (Lookup(tb, NumKey(f(x, i)[2])) = Absent \/ f(x, i)[2] > i - 1 + 1)
    BY <1>4, <2>1, DoubledKeeps
  <2> QED
    BY <2>1, <2>2
<1>5. \A x, i : Good(x, i) => x \in Nat \X Nat
  BY DEF Straddles
<1>6. ASSUME NEW x, Good(x, k) PROVE IsBorder(tb, Between(tb, x))
  <2>1. Lookup(tb, NumKey(x[2])) = Absent
    <3>1. CASE x[2] > k
      <4>1. x[2] \in Nat
        BY <1>6 DEF Straddles
      <4>2. x[2] \notin KeyNumbers
        BY <1>2, <3>1, <4>1
      <4> QED
        BY <4>1, <4>2, GetOther
    <3> QED
      BY <1>6, <3>1
  <2> QED
    BY <1>6, <2>1, BetweenIs
<1> DEFINE T == [i \in 0 .. k |-> {x \in Nat \X Nat : Good(x, i)}]
           Step == [i \in 1 .. k |-> [x \in T[i - 1] |-> f(x, i)]]
<1> HIDE DEF Good, f
<1>8. \A i \in 0 .. k : T[i] = {x \in Nat \X Nat : Good(x, i)}
  OBVIOUS
<1>9. \A i \in 1 .. k : \A x \in T[i - 1] : f(x, i) \in T[i]
  <2> SUFFICES ASSUME NEW i \in 1 .. k, NEW x \in T[i - 1] PROVE f(x, i) \in T[i]
    OBVIOUS
  <2>1. i - 1 \in 0 .. k /\ i \in 0 .. k
    BY <1>2
  <2> HIDE DEF T
  <2>2. Good(x, i - 1)
    BY <1>8, <2>1
  <2> QED
    BY <1>4, <1>5, <1>8, <2>1, <2>2
<1>10. p \in T[0]
  BY <1>2, <1>3, <1>5
<1> HIDE DEF T
<1>11. StepsWithin(k, T, Step)
  BY <1>9 DEF StepsWithin
<1>12. PICK m : Repeats(k, T, Step, p, m)
  <2> HIDE DEF Step
  <2> QED
    BY <1>2, <1>10, <1>11, Repeated
<1>13. m = [i \in 0 .. k |-> IF i = 0 THEN p ELSE f(m[i - 1], i)]
  <2>1. \A i \in 1 .. k : Step[i][m[i - 1]] = f(m[i - 1], i)
    <3> SUFFICES ASSUME NEW i \in 1 .. k PROVE Step[i][m[i - 1]] = f(m[i - 1], i)
      OBVIOUS
    <3>1. i - 1 \in 0 .. k
      BY <1>2
    <3>2. m[i - 1] \in T[i - 1]
      BY <3>1, <1>12 DEF Repeats
    <3> QED
      BY <3>2
  <2> HIDE DEF Step
  <2>2. \A i \in 0 .. k : i # 0 => i \in 1 .. k
    BY <1>2
  <2> QED
    BY <1>12, <2>1, <2>2 DEF Repeats
<1>14. PICK r : r = CHOOSE h : h = [n \in 0 .. k |-> IF n = 0 THEN p ELSE f(h[n - 1], n)]
  OBVIOUS
<1>15. r = [n \in 0 .. k |-> IF n = 0 THEN p ELSE f(r[n - 1], n)]
  BY <1>13, <1>14
<1>16. unbound_search(tb, j) = Between(tb, r[k])
  BY <1>1, <1>14 DEF unbound_search, f
<1>17. Good(r[k], k)
  <2>1. r[0] \in T[0]
    BY <1>2, <1>10, <1>15
  <2>2. \A i \in 1 .. k : r[i - 1] \in T[i - 1] => r[i] \in T[i]
    <3> SUFFICES ASSUME NEW i \in 1 .. k, r[i - 1] \in T[i - 1] PROVE r[i] \in T[i]
      OBVIOUS
    <3>1. i \in 0 .. k /\ i # 0
      BY <1>2
    <3>2. r[i] = f(r[i - 1], i)
      BY <1>15, <3>1
    <3> QED
      BY <1>9, <3>2
  <2>3. \A i \in 0 .. k : r[i] \in T[i]
    BY <1>2, <2>1, <2>2, PassedOn
  <2>4. k \in 0 .. k
    BY <1>2
  <2> QED
    BY <1>8, <2>3, <2>4
<1> QED
  BY <1>6, <1>16, <1>17

\* The length is a border, for a table and the values it answers with.
LEMMA luaH_getnIs ==
  ASSUME NEW tb, Sound(tb)
  PROVE  IsBorder(tb, luaH_getn(tb))
<1>1. PICK j : j = Len(tb.array)
  OBVIOUS
<1>2. j \in Nat /\ DOMAIN tb.array = 1 .. j
  BY <1>1, TableFacts DEF Sound
<1>3. j > 0 => Lookup(tb, NumKey(j)) = tb.array[j]
  <2> SUFFICES ASSUME j > 0 PROVE Lookup(tb, NumKey(j)) = tb.array[j]
    OBVIOUS
  <2>1. NumKey(j)[1] = "num" /\ NumKey(j)[2] = j
    BY DEF NumKey
  <2>2. InArray(tb, NumKey(j))
    BY <1>2, <2>1 DEF InArray
  <2> QED
    BY <2>1, <2>2, GetInArray
<1>4. CASE j > 0 /\ tb.array[j] = Absent
  <2>1. luaH_getn(tb) = Between(tb, <<0, j>>)
    BY <1>1, <1>4 DEF luaH_getn
  <2>2. PICK p : p = <<0, j>>
    OBVIOUS
  <2>3. p[1] = 0 /\ p[2] = j /\ p \in Nat \X Nat
    BY <1>2, <2>2
  <2>4. Straddles(tb, p) /\ Lookup(tb, NumKey(p[2])) = Absent
    BY <1>2, <1>3, <1>4, <2>3 DEF Straddles
  <2> QED
    BY <2>1, <2>2, <2>4, BetweenIs
<1>5. CASE ~(j > 0 /\ tb.array[j] = Absent) /\ tb.node = <<>>
  <2>1. luaH_getn(tb) = j
    BY <1>1, <1>5 DEF luaH_getn
  <2>2. j = 0 \/ Lookup(tb, NumKey(j)) # Absent
    BY <1>2, <1>3, <1>5
  <2>3. Lookup(tb, NumKey(j + 1)) = Absent
    <3>1. CASE j + 1 \in KeyNumbers
      <4>1. NumKey(j + 1) \in Keys
        BY <3>1, KeyFacts
      <4>2. NumKey(j + 1)[2] = j + 1
        BY DEF NumKey
      <4>3. ~InArray(tb, NumKey(j + 1))
        BY <1>2, <4>2 DEF InArray
      <4>4. DOMAIN tb.node = {}
        BY <1>5
      <4> QED
        BY <4>1, <4>3, <4>4, GetIs
    <3>2. CASE j + 1 \notin KeyNumbers
      BY <1>2, <3>2, GetOther
    <3> QED
      BY <3>1, <3>2
  <2> QED
    BY <1>2, <2>1, <2>2, <2>3 DEF IsBorder
<1>6. CASE ~(j > 0 /\ tb.array[j] = Absent) /\ tb.node # <<>>
  <2>1. luaH_getn(tb) = unbound_search(tb, j)
    BY <1>1, <1>6 DEF luaH_getn
  <2>2. j = 0 \/ Lookup(tb, NumKey(j)) # Absent
    BY <1>2, <1>3, <1>6
  <2> QED
    BY <1>2, <2>1, <2>2, unbound_searchIs
<1> QED
  BY <1>4, <1>5, <1>6

-----------------------------------------------------------------------------
(* Traversing                                                              *)

\* E has the A cells of the array and the N nodes.
EntriesOf(tb, A, N, E) ==
  /\ Len(E) = A + N
  /\ \A i \in 1 .. A : E[i].key = NumKey(i) /\ E[i].val = tb.array[i]
  /\ \A i \in 1 .. N : E[A + i].key = tb.node[i].key /\ E[A + i].val = tb.node[i].val

LEMMA EntriesAre ==
  ASSUME NEW tb, Sound(tb)
  PROVE  EntriesOf(tb, Len(tb.array), Len(tb.node), Entries(tb))
<1>1. PICK A, N, E : A = Len(tb.array) /\ N = Len(tb.node) /\ E = Entries(tb)
  OBVIOUS
<1>2. A \in Nat /\ N \in Nat
  BY <1>1, TableFacts DEF Sound
<1>3. PICK a, b : /\ a = [i \in 1 .. A |-> [key |-> NumKey(i), val |-> tb.array[i]]]
                  /\ b = [i \in 1 .. N |-> [key |-> tb.node[i].key, val |-> tb.node[i].val]]
  OBVIOUS
<1>4. PICK S : S = {a[i] : i \in 1 .. A} \cup {b[i] : i \in 1 .. N}
  OBVIOUS
<1>5. a \in [1 .. A -> S] /\ b \in [1 .. N -> S]
  BY <1>3, <1>4
<1>6. a \in Seq(S) /\ Len(a) = A
  BY <1>2, <1>5, SequenceIs
<1>7. b \in Seq(S) /\ Len(b) = N
  BY <1>2, <1>5, SequenceIs
<1>8. E = a \o b
  BY <1>1, <1>3 DEF Entries
<1>9. /\ Len(a \o b) = Len(a) + Len(b)
      /\ \A i \in 1 .. Len(a) + Len(b) : (a \o b)[i] = IF i <= Len(a) THEN a[i] ELSE b[i - Len(a)]
  BY <1>6, <1>7, ConcatProperties
<1>10. Len(E) = A + N /\ \A i \in 1 .. A + N : E[i] = IF i <= A THEN a[i] ELSE b[i - A]
  BY <1>6, <1>7, <1>8, <1>9
<1>11. ASSUME NEW i \in 1 .. A PROVE E[i].key = NumKey(i) /\ E[i].val = tb.array[i]
  <2>1. E[i] = a[i]
    BY <1>2, <1>10
  <2>2. a[i] = [key |-> NumKey(i), val |-> tb.array[i]]
    BY <1>3
  <2> QED
    BY <2>1, <2>2
<1>12. ASSUME NEW i \in 1 .. N
       PROVE  E[A + i].key = tb.node[i].key /\ E[A + i].val = tb.node[i].val
  <2>1. A + i \in 1 .. A + N /\ ~(A + i <= A) /\ (A + i) - A = i
    BY ONLY i \in 1 .. N, <1>2
  <2>2. E[A + i] = b[i]
    BY <1>10, <2>1
  <2>3. b[i] = [key |-> tb.node[i].key, val |-> tb.node[i].val]
    BY <1>3
  <2> QED
    BY <2>2, <2>3
<1> QED
  BY <1>1, <1>10, <1>11, <1>12 DEF EntriesOf

\* The place of a key with a value is that of its entry.
LEMMA EntryPlace ==
  ASSUME NEW tb, Sound(tb), OffArray(tb, {}), NEW i \in 1 .. Len(Entries(tb)), Entries(tb)[i].val # Absent
  PROVE  /\ Entries(tb)[i].key \in Keys /\ findindex(tb, Entries(tb)[i].key) = i
         /\ Lookup(tb, Entries(tb)[i].key) = Entries(tb)[i].val
<1>1. PICK A, N, key : A = Len(tb.array) /\ N = Len(tb.node) /\ key = Entries(tb)[i].key
  OBVIOUS
<1>2. A \in Nat /\ N \in Nat /\ DOMAIN tb.array = 1 .. A /\ DOMAIN tb.node = 1 .. N
  BY <1>1, TableFacts DEF Sound
<1>3. /\ Len(Entries(tb)) = A + N
      /\ \A j \in 1 .. A : Entries(tb)[j].key = NumKey(j) /\ Entries(tb)[j].val = tb.array[j]
      /\ \A j \in 1 .. N : Entries(tb)[A + j].key = tb.node[j].key /\ Entries(tb)[A + j].val = tb.node[j].val
  BY <1>1, EntriesAre DEF EntriesOf
<1>4. CASE i <= A
  <2>1. i \in 1 .. A /\ key = NumKey(i) /\ Entries(tb)[i].val = tb.array[i]
    <3>1. i \in 1 .. A
      <4>1. i \in 1 .. A + N
        BY <1>3
      <4> QED
        BY <1>2, <1>4, <4>1
    <3> QED
      BY <1>1, <1>3, <3>1
  <2>2. i \in KeyNumbers
    BY <1>2, <2>1 DEF Sound, Keyed
  <2>3. key \in Keys
    BY <2>1, <2>2, KeyFacts
  <2>4. key[1] = "num" /\ key[2] = i
    BY <2>1 DEF NumKey
  <2>5. InArray(tb, key)
    BY <1>2, <2>1, <2>4 DEF InArray
  <2>6. findindex(tb, key) = i
    BY <2>3, <2>4, <2>5, PlaceIs
  <2>7. Lookup(tb, key) = tb.array[key[2]]
    BY <2>5, GetInArray
  <2> QED
    BY <1>1, <2>1, <2>3, <2>4, <2>6, <2>7
<1>5. CASE ~(i <= A)
  <2>1. PICK j : j = i - A
    OBVIOUS
  <2>2. j \in 1 .. N /\ A + j = i
    BY <1>2, <1>3, <1>5, <2>1
  <2>3. key = tb.node[j].key /\ Entries(tb)[i].val = tb.node[j].val /\ j \in DOMAIN tb.node
    BY <1>1, <1>2, <1>3, <2>2
  <2>4. key \in Keys /\ j \in Used(tb) /\ Named(tb.node[j].key) = key
    <3>1. key \in Keys
      BY <2>3 DEF Sound, Unvalued
    <3> QED
      BY <2>3, <3>1, KeyFacts DEF Used
  <2>5. ~InArray(tb, key)
    <3> SUFFICES ASSUME InArray(tb, key) PROVE FALSE
      OBVIOUS
    <3>1. key = NumKey(key[2]) /\ key[2] \in DOMAIN tb.array
      BY <2>4, KeyFacts DEF InArray
    <3> QED
      BY <2>3, <2>4, <3>1 DEF OffArray
  <2>6. PICK m \in Used(tb) :
           /\ findindex(tb, key) = Len(tb.array) + m /\ Named(tb.node[m].key) = key
           /\ \A n \in Used(tb) : Named(tb.node[n].key) = key => Reach(Links(tb), m, n)
    <3>1. ~InArray(tb, key) =>
              \/ /\ findindex(tb, key) = 0
                 /\ \A n \in Used(tb) : Named(tb.node[n].key) # key
              \/ \E m \in Used(tb) :
                   /\ findindex(tb, key) = Len(tb.array) + m /\ Named(tb.node[m].key) = key
                   /\ \A n \in Used(tb) : Named(tb.node[n].key) = key => Reach(Links(tb), m, n)
      BY <2>4, PlaceIs
    <3> QED
      BY <2>4, <2>5, <3>1
  <2>7. Reach(Links(tb), m, j)
    BY <2>4, <2>6
  <2>8. Reach(Links(tb), j, m)
    BY <2>3, <2>4, <2>6 DEF Sound, LiveFirst
  <2>9. m \in 1 .. N /\ Links(tb) \in LinksOf(N) /\ Acyclic(Links(tb))
    BY <1>1, <1>2 DEF Used, Sound, Woven
  <2>10. m = j
    BY <1>2, <2>2, <2>7, <2>8, <2>9, NoCycle
  <2>11. findindex(tb, key) = i
    BY <1>1, <2>2, <2>6, <2>10
  <2>12. Has(tb, key, Entries(tb)[i].val)
    BY <2>3 DEF Has
  <2>13. Lookup(tb, key) = Entries(tb)[i].val
    BY <2>4, <2>5, <2>12, LookupHas
  <2> QED
    BY <1>1, <2>4, <2>11, <2>13
<1> QED
  BY <1>4, <1>5

LEMMA PlaceOfValue ==
  ASSUME NEW tb, Sound(tb), OffArray(tb, {}), NEW key \in Keys, Lookup(tb, key) # Absent
  PROVE  /\ findindex(tb, key) \in 1 .. Len(Entries(tb))
         /\ Entries(tb)[findindex(tb, key)].key = key
         /\ Entries(tb)[findindex(tb, key)].val = Lookup(tb, key)
<1>1. PICK A, N : A = Len(tb.array) /\ N = Len(tb.node)
  OBVIOUS
<1>2. A \in Nat /\ N \in Nat /\ DOMAIN tb.array = 1 .. A /\ DOMAIN tb.node = 1 .. N
  BY <1>1, TableFacts DEF Sound
<1>3. /\ Len(Entries(tb)) = A + N
      /\ \A j \in 1 .. A : Entries(tb)[j].key = NumKey(j) /\ Entries(tb)[j].val = tb.array[j]
      /\ \A j \in 1 .. N : Entries(tb)[A + j].key = tb.node[j].key /\ Entries(tb)[A + j].val = tb.node[j].val
  BY <1>1, EntriesAre DEF EntriesOf
<1>4. CASE InArray(tb, key)
  <2>1. key = NumKey(key[2]) /\ key[2] \in 1 .. A
    BY <1>2, <1>4, KeyFacts DEF InArray
  <2>2. findindex(tb, key) = key[2]
    BY <1>4, PlaceIs
  <2>3. Lookup(tb, key) = tb.array[key[2]]
    BY <1>4, GetInArray
  <2>4. key[2] \in 1 .. A + N
    BY <1>2, <2>1
  <2> QED
    BY <1>3, <2>1, <2>2, <2>3, <2>4
<1>5. CASE ~InArray(tb, key)
  <2>1. PICK j \in DOMAIN tb.node : tb.node[j].key = key /\ Lookup(tb, key) = tb.node[j].val
    BY <1>5, GetIs
  <2>2. PICK i : i = A + j
    OBVIOUS
  <2>3. j \in 1 .. N /\ i \in 1 .. A + N
    BY <1>2, <2>1, <2>2
  <2>4. Entries(tb)[i].key = key /\ Entries(tb)[i].val = Lookup(tb, key)
    BY <1>3, <2>1, <2>2, <2>3
  <2>5. findindex(tb, key) = i
    <3>1. i \in 1 .. Len(Entries(tb)) /\ Entries(tb)[i].val # Absent
      BY <1>3, <2>3, <2>4
    <3> QED
      BY <2>4, <3>1, EntryPlace
  <2> QED
    BY <1>3, <2>3, <2>4, <2>5
<1> QED
  BY <1>4, <1>5

LEMMA PlaceNat ==
  ASSUME NEW tb, Sound(tb), NEW key \in Keys
  PROVE  findindex(tb, key) \in Nat
<1>1. Len(tb.array) \in Nat /\ DOMAIN tb.node = 1 .. Len(tb.node) /\ Len(tb.node) \in Nat
  BY TableFacts DEF Sound
<1>2. CASE InArray(tb, key)
  BY <1>2, PlaceIs, KeyFacts DEF InArray
<1>3. CASE ~InArray(tb, key)
  <2>1. findindex(tb, key) = 0 \/ \E i \in Used(tb) : findindex(tb, key) = Len(tb.array) + i
    BY <1>3, PlaceIs
  <2> QED
    BY <1>1, <2>1 DEF Used
<1> QED
  BY <1>2, <1>3

\* luaH_next, by the places of the keys that have a value.
Delivers(tb, i, k) ==
  \/ /\ k = NoKey
     /\ \A key \in Keys : Lookup(tb, key) # Absent => findindex(tb, key) <= i
  \/ /\ k \in Keys /\ Lookup(tb, k) # Absent /\ i < findindex(tb, k)
     /\ \A key \in Keys : Lookup(tb, key) # Absent =>
          findindex(tb, key) <= i \/ key = k \/ findindex(tb, k) < findindex(tb, key)

LEMMA luaH_nextIs ==
  ASSUME NEW tb, Sound(tb), OffArray(tb, {}), NEW i \in Nat
  PROVE  Delivers(tb, i, luaH_next(tb, i))
<1>1. PICK T, E : T = Later(tb, i) /\ E = Entries(tb)
  OBVIOUS
<1>2. PICK L : L = Len(E)
  OBVIOUS
<1>3. T = {j \in i + 1 .. L : E[j].val # Absent} /\ L \in Nat
  <2>1. L \in Nat
    <3>1. L = Len(tb.array) + Len(tb.node)
      BY <1>1, <1>2, EntriesAre DEF EntriesOf
    <3>2. Len(tb.array) \in Nat /\ Len(tb.node) \in Nat
      BY TableFacts DEF Sound
    <3>3. PICK a, b : a = Len(tb.array) /\ b = Len(tb.node)
      OBVIOUS
    <3>4. a \in Nat /\ b \in Nat
      BY <3>2, <3>3
    <3>5. L = a + b
      BY <3>1, <3>3
    <3> QED
      BY ONLY <3>4, <3>5
  <2> QED
    BY <1>1, <1>2, <2>1 DEF Later
<1>4. ASSUME NEW key \in Keys, Lookup(tb, key) # Absent, ~(findindex(tb, key) <= i)
      PROVE  findindex(tb, key) \in T /\ E[findindex(tb, key)].key = key
  <2>1. PICK j : j = findindex(tb, key)
    OBVIOUS
  <2>2. j \in 1 .. L /\ E[j].key = key /\ E[j].val # Absent
    BY <1>1, <1>2, <1>4, <2>1, PlaceOfValue
  <2>3. j \in i + 1 .. L
    BY <1>3, <1>4, <2>1, <2>2
  <2> QED
    BY <1>3, <2>1, <2>2, <2>3
<1>5. CASE T = {}
  <2>1. luaH_next(tb, i) = NoKey
    BY <1>1, <1>5 DEF luaH_next
  <2> QED
    BY <1>4, <1>5, <2>1 DEF Delivers
<1>6. CASE T # {}
  <2>1. PICK j : j = Min(T)
    OBVIOUS
  <2>2. j \in T /\ \A m \in T : j <= m
    <3>1. T \subseteq Nat
      BY <1>3
    <3> QED
      BY <1>6, <2>1, <3>1, LeastOf
  <2>3. luaH_next(tb, i) = E[j].key
    BY <1>1, <1>6, <2>1 DEF luaH_next
  <2>4. j \in 1 .. L /\ E[j].val # Absent /\ i < j
    BY <1>3, <2>2
  <2>5. E[j].key \in Keys /\ findindex(tb, E[j].key) = j /\ Lookup(tb, E[j].key) = E[j].val
    BY <1>1, <1>2, <2>4, EntryPlace
  <2>6. ASSUME NEW key \in Keys, Lookup(tb, key) # Absent
        PROVE  findindex(tb, key) <= i \/ key = E[j].key \/ j < findindex(tb, key)
    <3>1. CASE ~(findindex(tb, key) <= i)
      <4>1. findindex(tb, key) \in T /\ E[findindex(tb, key)].key = key
        BY <1>4, <2>6, <3>1
      <4>2. j <= findindex(tb, key) /\ findindex(tb, key) \in Nat /\ j \in Nat
        BY <1>3, <2>2, <4>1
      <4> QED
        BY <4>1, <4>2
    <3> QED
      BY <3>1
  <2> QED
    BY <2>3, <2>4, <2>5, <2>6 DEF Delivers
<1> QED
  BY <1>5, <1>6

-----------------------------------------------------------------------------
(* The table and the program                                               *)

\* While a traversal is under way, the keys delivered have places up to its
\* own, and what has been there throughout and comes no later is delivered.
Kept ==
  /\ at \in Keys /\ at \in seen /\ findindex(tbl, at) # 0 /\ lasting \subseteq Present
  /\ \A k \in seen : k \in Keys /\ findindex(tbl, k) <= findindex(tbl, at)
  /\ \A k \in lasting : findindex(tbl, k) <= findindex(tbl, at) => k \in seen
TableInv ==
  /\ Sound(tbl) /\ tbl.stuck = FALSE /\ OffArray(tbl, hidden)
  /\ map \in [Keys -> Values] /\ Answers
  /\ hidden = {} /\ at # NoKey => Kept

LEMMA InitInv ==
  ASSUME TableInit
  PROVE  TableInv
<1>1. tbl = [array |-> <<>>, node |-> <<>>, lastfree |-> 0, stuck |-> FALSE]
  BY DEF TableInit, EmptyTable
<1>2. tbl.array = <<>> /\ tbl.node = <<>> /\ tbl.lastfree = 0 /\ tbl.stuck = FALSE
  BY <1>1
<1>3. tbl \in Tables
  BY <1>1, EmptySeq DEF Tables
<1>4. Len(tbl.node) = 0 /\ DOMAIN tbl.node = {} /\ DOMAIN tbl.array = {}
  BY <1>2
<1>5. Links(tbl) \in LinksOf(Len(tbl.node)) /\ DOMAIN Links(tbl) = {} /\ Used(tbl) = {}
  <2>1. DOMAIN Links(tbl) = {} /\ Used(tbl) = {}
    BY <1>4 DEF Links, Used
  <2>2. Links(tbl) \in LinksOf(0)
    <3>1. Links(tbl) = [i \in {} |-> tbl.node[i].next]
      BY <1>4 DEF Links
    <3>2. 1 .. 0 = {}
      OBVIOUS
    <3> QED
      BY <3>1, <3>2 DEF LinksOf
  <2> QED
    BY <1>4, <2>1, <2>2
<1>6. Woven(Used(tbl), Homes(tbl), Links(tbl))
  BY <1>5 DEF Woven, OneToOne, Acyclic
<1>7. Sound(tbl)
  BY <1>2, <1>3, <1>4, <1>5, <1>6 DEF Sound, Unvalued, Unique, LiveFirst, NoneFree, Keyed
<1>8. OffArray(tbl, hidden)
  BY <1>4 DEF OffArray
<1>9. map \in [Keys -> Values]
  BY DEF TableInit, Values
<1>10. Answers
  <2> SUFFICES ASSUME NEW key \in Keys PROVE Lookup(tbl, key) = map[key]
    BY DEF Answers
  <2>1. ~InArray(tbl, key)
    BY <1>4 DEF InArray
  <2>2. Lookup(tbl, key) = Absent
    BY <1>4, <1>7, <2>1, GetIs
  <2> QED
    BY <2>2 DEF TableInit
<1> QED
  BY <1>2, <1>7, <1>8, <1>9, <1>10 DEF TableInv, TableInit

LEMMA InvFacts ==
  ASSUME TableInv
  PROVE  /\ Sound(tbl) /\ tbl.stuck = FALSE /\ OffArray(tbl, hidden)
         /\ map \in [Keys -> Values] /\ \A key \in Keys \ hidden : Lookup(tbl, key) = map[key]
BY DEF TableInv, Answers

LEMMA AssignInv ==
  ASSUME TableInv, NEW key \in Keys, NEW x \in Values, Assign(key, x)
  PROVE  TableInv'
<1>1. /\ Sound(tbl) /\ tbl.stuck = FALSE /\ OffArray(tbl, hidden)
      /\ map \in [Keys -> Values] /\ \A k \in Keys \ hidden : Lookup(tbl, k) = map[k]
  BY InvFacts
<1>2. tbl' = luaH_set(tbl, key, x) /\ map' = [map EXCEPT ![key] = x] /\ hidden' = hidden
  BY DEF Assign
<1>3. Sets(tbl, tbl', key, x, hidden)
  BY <1>1, <1>2, luaH_setKeeps
<1>4. /\ Sound(tbl') /\ tbl'.stuck = FALSE /\ OffArray(tbl', hidden)
      /\ Lookup(tbl', key) = x /\ \A k \in Keys \ hidden : k # key => Lookup(tbl', k) = Lookup(tbl, k)
  BY <1>3 DEF Sets
<1>5. map' \in [Keys -> Values] /\ \A k \in Keys : map'[k] = IF k = key THEN x ELSE map[k]
  BY <1>1, <1>2
<1>6. \A k \in Keys \ hidden' : Lookup(tbl', k) = map'[k]
  BY <1>1, <1>2, <1>4, <1>5
<1>7. ASSUME hidden' = {}, at' # NoKey PROVE Kept'
  <2>1. /\ luaH_get(tbl, key) # <<>> /\ at' = at /\ seen' = seen
        /\ lasting' = IF x = Absent THEN lasting \ {key} ELSE lasting
    BY <1>7 DEF Assign
  <2>2. Kept
    BY <1>2, <1>7, <2>1 DEF TableInv
  <2>3. tbl' = StoreAt(tbl, luaH_get(tbl, key), x)
    BY <1>2, <2>1 DEF luaH_set
  <2>4. Stored(tbl, tbl', key, x) /\ SameShape(tbl, tbl')
    BY <1>1, <2>1, <2>3, StoreKeeps
  <2>5. Links(tbl') = Links(tbl) /\ Used(tbl') = Used(tbl) /\ Len(tbl'.array) = Len(tbl.array)
    <3>1. Unvalued(tbl') /\ NoneFree(tbl') /\ Keyed(tbl')
      BY <1>4 DEF Sound
    <3> QED
      BY <1>1, <2>4, <3>1, ShapeSound DEF Stored
  <2>6. \A k \in Keys : findindex(tbl', k) = findindex(tbl, k)
    BY <1>1, <1>4, <2>4, <2>5, SamePlace
  <2>7. lasting' \subseteq Present'
    BY <1>5, <2>1, <2>2 DEF Kept, Present
  <2>8. lasting \subseteq Keys /\ at \in Keys /\ seen \subseteq Keys
    BY <2>2 DEF Kept, Present
  <2>9. at' \in Keys /\ at' \in seen' /\ findindex(tbl', at') # 0
    BY <2>1, <2>2, <2>6 DEF Kept
  <2>10. \A k \in seen' : k \in Keys /\ findindex(tbl', k) <= findindex(tbl', at')
    BY <2>1, <2>2, <2>6, <2>8 DEF Kept
  <2>11. \A k \in lasting' : findindex(tbl', k) <= findindex(tbl', at') => k \in seen'
    BY <2>1, <2>2, <2>6, <2>8 DEF Kept
  <2> QED
    BY <2>7, <2>9, <2>10, <2>11 DEF Kept
<1> QED
  BY <1>2, <1>4, <1>5, <1>6, <1>7 DEF TableInv, Answers

LEMMA NoMemoryInv ==
  ASSUME TableInv, NEW key \in Keys, NoMemoryFor(key)
  PROVE  TableInv'
<1>1. /\ Sound(tbl) /\ tbl.stuck = FALSE /\ OffArray(tbl, hidden)
      /\ map \in [Keys -> Values] /\ \A k \in Keys \ hidden : Lookup(tbl, k) = map[k]
  BY InvFacts
<1>2. at' = NoKey /\ map' = map
  BY DEF NoMemoryFor
<1>3. PICK n : n = computesizes(tbl, key)
  OBVIOUS
<1>4. n \in Nat /\ Len(tbl.array) \in Nat
  BY <1>1, <1>3, computesizesIs, TableFacts DEF Sound
<1>5. getfreepos(tbl) = 0
  BY DEF NoMemoryFor, NeedsRehash, HasPlace
<1>6. PICK m \in Nat : /\ tbl' = Taken(Lengthened(tbl, m), 0)
                       /\ hidden' = hidden \cup {NumKey(i) : i \in Len(tbl.array) + 1 .. m}
  <2>1. CASE n > Len(tbl.array) /\ tbl' = Taken(tbl, 0) /\ hidden' = hidden
    <3>1. PICK A : A = Len(tbl.array)
      OBVIOUS
    <3>2. A \in Nat /\ ~(A > Len(tbl.array)) /\ Len(tbl.array) + 1 .. A = {}
      BY <1>4, <3>1
    <3>3. Lengthened(tbl, A) = tbl
      BY <3>2 DEF Lengthened
    <3>4. hidden' = hidden \cup {NumKey(i) : i \in Len(tbl.array) + 1 .. A}
      BY <2>1, <3>2
    <3> QED
      BY <2>1, <3>2, <3>3, <3>4
  <2>2. CASE /\ tbl' = Taken(Lengthened(tbl, n), 0)
             /\ hidden' = hidden \cup {NumKey(i) : i \in Len(tbl.array) + 1 .. n}
    BY <1>4, <2>2
  <2> QED
    BY <1>3, <2>1, <2>2 DEF NoMemoryFor
<1>7. /\ Sound(tbl') /\ tbl'.stuck = FALSE /\ OffArray(tbl', hidden')
      /\ \A k \in Keys \ hidden' : Lookup(tbl', k) = Lookup(tbl, k)
  <2>1. PICK w : w = Taken(Lengthened(tbl, m), 0)
    OBVIOUS
  <2>2. PICK G : G = hidden \cup Skipped(tbl, m)
    OBVIOUS
  <2>3. m \in Nat /\ Sound(tbl) /\ tbl.stuck = FALSE /\ OffArray(tbl, hidden)
    BY <1>1, <1>6
  <2>4. /\ Sound(w) /\ w.stuck = FALSE /\ OffArray(w, G)
        /\ \A k \in Keys \ G : Lookup(w, k) = Lookup(tbl, k)
    <3>1. Withdrawn(tbl, w, G)
      BY <1>5, <2>1, <2>2, <2>3, FailedKeeps
    <3> QED
      BY <3>1 DEF Withdrawn
  <2>5. tbl' = w /\ hidden' = G
    BY <1>6, <2>1, <2>2 DEF Skipped
  <2> QED
    BY <2>4, <2>5
<1>8. hidden \subseteq hidden'
  BY <1>6
<1> QED
  BY <1>1, <1>2, <1>7, <1>8 DEF TableInv, Answers

LEMMA SetListInv ==
  ASSUME TableInv, NEW n \in KeyNumbers, SetListReserves(n)
  PROVE  TableInv'
<1>1. /\ Sound(tbl) /\ tbl.stuck = FALSE /\ OffArray(tbl, hidden)
      /\ map \in [Keys -> Values] /\ \A k \in Keys \ hidden : Lookup(tbl, k) = map[k]
  BY InvFacts
<1>2. /\ n > Len(tbl.array) /\ tbl' = luaH_resizearray(tbl, n)
      /\ at' = NoKey /\ map' = map /\ hidden' = hidden
  BY DEF SetListReserves
<1>3. n \in Nat
  BY KeyFacts
<1>4. Resizes(tbl, tbl', n, hidden)
  BY <1>1, <1>2, <1>3, luaH_resizearrayKeeps
<1>5. OffArray(tbl', hidden')
  BY <1>4, OffMore DEF Resizes
<1> QED
  BY <1>1, <1>2, <1>4, <1>5 DEF Resizes, TableInv, Answers

LEMMA CollectInv ==
  ASSUME TableInv, Collect
  PROVE  TableInv'
<1>1. /\ Sound(tbl) /\ tbl.stuck = FALSE /\ OffArray(tbl, hidden)
      /\ map \in [Keys -> Values] /\ \A k \in Keys \ hidden : Lookup(tbl, k) = map[k]
  BY InvFacts
<1>2. /\ tbl' = [tbl EXCEPT !.node = [i \in DOMAIN @ |-> DeadNode(@[i])]]
      /\ map' = map /\ hidden' = hidden /\ at' = at /\ seen' = seen /\ lasting' = lasting
  BY DEF Collect
<1>3. /\ Sound(tbl') /\ tbl'.stuck = tbl.stuck /\ tbl'.array = tbl.array /\ SameShape(tbl, tbl')
      /\ Links(tbl') = Links(tbl) /\ Used(tbl') = Used(tbl)
      /\ \A k \in Keys : Lookup(tbl', k) = Lookup(tbl, k)
  BY <1>1, <1>2, DeadKeeps
<1>4. OffArray(tbl', hidden')
  <2> SUFFICES ASSUME NEW i \in Used(tbl), NEW n \in DOMAIN tbl.array, tbl'.node[i].key = NumKey(n)
               PROVE  NumKey(n) \in hidden
    BY <1>2, <1>3 DEF OffArray
  <2>1. i \in DOMAIN tbl.node /\ tbl'.node[i].key \in NodeKeys
    BY <1>3, NodeFacts DEF Used, Sound
  <2>2. NumKey(n) \in Keys
    <3>1. NumKey(n) # NoKey /\ NumKey(n) \notin DeadKeys
      BY DEF NumKey, NoKey, DeadKeys, DeadKey
    <3> QED
      BY <2>1, <3>1 DEF NodeKeys
  <2>3. tbl.node[i].key = NumKey(n)
    BY <1>3, <2>1, <2>2 DEF SameShape
  <2> QED
    BY <1>1, <2>3 DEF OffArray
<1>5. ASSUME hidden' = {}, at' # NoKey PROVE Kept'
  <2>1. Kept
    BY <1>2, <1>5 DEF TableInv
  <2>2. \A k \in Keys : findindex(tbl', k) = findindex(tbl, k)
    BY <1>1, <1>3, SamePlace
  <2>3. at \in Keys /\ seen \subseteq Keys /\ lasting \subseteq Keys
    BY <2>1 DEF Kept, Present
  <2> QED
    BY <1>2, <2>1, <2>2, <2>3 DEF Kept, Present
<1> QED
  BY <1>1, <1>2, <1>3, <1>4, <1>5 DEF TableInv, Answers

\* A traversal goes on after the keys with places up to i, all of them
\* delivered that have lasted.
LEMMA DeliversKeeps ==
  ASSUME NEW tb, Sound(tb), NEW i \in Nat, NEW k \in Keys, Delivers(tb, i, k), k # NoKey,
         NEW S, \A key \in S : key \in Keys /\ findindex(tb, key) <= i,
         NEW T, \A key \in T : key \in Keys /\ Lookup(tb, key) # Absent /\ (findindex(tb, key) <= i => key \in S)
  PROVE  /\ findindex(tb, k) # 0 /\ k \notin S
         /\ \A key \in S \cup {k} : key \in Keys /\ findindex(tb, key) <= findindex(tb, k)
         /\ \A key \in T : findindex(tb, key) <= findindex(tb, k) => key \in S \cup {k}
<1>1. /\ i < findindex(tb, k)
      /\ \A key \in Keys : Lookup(tb, key) # Absent =>
           findindex(tb, key) <= i \/ key = k \/ findindex(tb, k) < findindex(tb, key)
  BY DEF Delivers
<1>2. \A key \in Keys : findindex(tb, key) \in Nat
  BY PlaceNat
<1>3. findindex(tb, k) \in Nat
  BY <1>2
<1>4. ASSUME NEW key \in S PROVE key \in Keys /\ findindex(tb, key) < findindex(tb, k)
  BY <1>1, <1>2, <1>3
<1>5. ASSUME NEW key \in T, findindex(tb, key) <= findindex(tb, k) PROVE key \in S \cup {k}
  <2>1. key \in Keys /\ Lookup(tb, key) # Absent /\ findindex(tb, key) \in Nat
    BY <1>2
  <2>2. findindex(tb, key) <= i \/ key = k
    BY <1>1, <1>3, <1>5, <2>1
  <2> QED
    BY <2>2
<1>6. \A key \in S \cup {k} : key \in Keys /\ findindex(tb, key) <= findindex(tb, k)
  BY <1>2, <1>3, <1>4
<1>7. k \notin S
  BY <1>3, <1>4
<1> QED
  BY <1>1, <1>3, <1>5, <1>6, <1>7

LEMMA BeginInv ==
  ASSUME TableInv, BeginTraversal
  PROVE  TableInv'
<1>1. /\ Sound(tbl) /\ tbl.stuck = FALSE /\ OffArray(tbl, hidden)
      /\ map \in [Keys -> Values] /\ \A k \in Keys \ hidden : Lookup(tbl, k) = map[k]
  BY InvFacts
<1>2. /\ tbl' = tbl /\ map' = map /\ hidden' = hidden /\ lasting' = Present
      /\ at' = luaH_next(tbl, 0) /\ at' # NoKey /\ seen' = {at'}
  BY DEF BeginTraversal
<1>3. ASSUME hidden' = {} PROVE Kept'
  <2>1. OffArray(tbl, {}) /\ \A k \in Keys : Lookup(tbl, k) = map[k]
    BY <1>1, <1>2, <1>3
  <2>2. Delivers(tbl, 0, luaH_next(tbl, 0))
    BY <1>1, <2>1, luaH_nextIs
  <2>3. PICK k : k = at'
    OBVIOUS
  <2>4. Delivers(tbl, 0, k) /\ k # NoKey /\ k \in Keys
    BY <1>2, <2>2, <2>3 DEF Delivers
  <2>5. \A key \in Present : key \in Keys /\ Lookup(tbl, key) # Absent /\ (findindex(tbl, key) <= 0 => key \in {})
    <3> SUFFICES ASSUME NEW key \in Present
                 PROVE  key \in Keys /\ Lookup(tbl, key) # Absent /\ ~(findindex(tbl, key) <= 0)
      OBVIOUS
    <3>1. key \in Keys /\ Lookup(tbl, key) # Absent
      BY <2>1 DEF Present
    <3>2. findindex(tbl, key) \in 1 .. Len(Entries(tbl))
      BY <1>1, <2>1, <3>1, PlaceOfValue
    <3>3. ~(findindex(tbl, key) <= 0)
      BY <3>2
    <3> QED
      BY <3>1, <3>3
  <2>6. /\ findindex(tbl, k) # 0
        /\ \A key \in {} \cup {k} : key \in Keys /\ findindex(tbl, key) <= findindex(tbl, k)
        /\ \A key \in Present : findindex(tbl, key) <= findindex(tbl, k) => key \in {} \cup {k}
    <3>1. PICK S, T, i : S = {} /\ T = Present /\ i = 0
      OBVIOUS
    <3>2. /\ Sound(tbl) /\ i \in Nat /\ k \in Keys /\ Delivers(tbl, i, k) /\ k # NoKey
          /\ \A key \in S : key \in Keys /\ findindex(tbl, key) <= i
      BY <1>1, <2>4, <3>1
    <3>3. \A key \in T : key \in Keys /\ Lookup(tbl, key) # Absent /\ (findindex(tbl, key) <= i => key \in S)
      BY <2>5, <3>1
    <3>4. /\ findindex(tbl, k) # 0 /\ k \notin S
          /\ \A key \in S \cup {k} : key \in Keys /\ findindex(tbl, key) <= findindex(tbl, k)
          /\ \A key \in T : findindex(tbl, key) <= findindex(tbl, k) => key \in S \cup {k}
      BY <3>2, <3>3, DeliversKeeps
    <3> QED
      BY <3>1, <3>4
  <2>7. Present' = Present
    BY <1>2 DEF Present
  <2> QED
    BY <1>2, <2>3, <2>4, <2>6, <2>7 DEF Kept
<1> QED
  BY <1>1, <1>2, <1>3 DEF TableInv, Answers

\* What the traversal delivers next, seen from an invariant state.
LEMMA NextDelivers ==
  ASSUME TableInv, hidden = {}, at # NoKey
  PROVE  LET k == luaH_next(tbl, findindex(tbl, at))
         IN  /\ findindex(tbl, at) # 0 /\ k \notin seen
             /\ k = NoKey => lasting \subseteq seen
             /\ k # NoKey =>
                  /\ k \in Keys /\ findindex(tbl, k) # 0
                  /\ \A key \in seen \cup {k} : key \in Keys /\ findindex(tbl, key) <= findindex(tbl, k)
                  /\ \A key \in lasting : findindex(tbl, key) <= findindex(tbl, k) => key \in seen \cup {k}
<1>1. /\ Sound(tbl) /\ OffArray(tbl, {}) /\ \A key \in Keys : Lookup(tbl, key) = map[key]
  BY InvFacts
<1>2. PICK i, k : i = findindex(tbl, at) /\ k = luaH_next(tbl, findindex(tbl, at))
  OBVIOUS
<1>3. /\ at \in Keys /\ at \in seen /\ i # 0 /\ lasting \subseteq Present
      /\ \A key \in seen : key \in Keys /\ findindex(tbl, key) <= i
      /\ \A key \in lasting : findindex(tbl, key) <= i => key \in seen
  BY <1>2 DEF TableInv, Kept
<1>4. i \in Nat
  BY <1>1, <1>2, <1>3, PlaceNat
<1>5. Delivers(tbl, i, k)
  BY <1>1, <1>2, <1>4, luaH_nextIs
<1>6. \A key \in lasting : key \in Keys /\ Lookup(tbl, key) # Absent /\ (findindex(tbl, key) <= i => key \in seen)
  BY <1>1, <1>3 DEF Present
<1>7. CASE k = NoKey
  <2>1. \A key \in Keys : Lookup(tbl, key) # Absent => findindex(tbl, key) <= i
    BY <1>5, <1>7, KeyFacts DEF Delivers
  <2>2. lasting \subseteq seen
    BY <1>6, <2>1
  <2>3. NoKey \notin seen
    BY <1>3, KeyFacts
  <2> QED
    BY <1>2, <1>3, <1>7, <2>2, <2>3
<1>8. CASE k # NoKey
  <2>1. k \in Keys
    BY <1>5, <1>8 DEF Delivers
  <2>2. /\ findindex(tbl, k) # 0 /\ k \notin seen
        /\ \A key \in seen \cup {k} : key \in Keys /\ findindex(tbl, key) <= findindex(tbl, k)
        /\ \A key \in lasting : findindex(tbl, key) <= findindex(tbl, k) => key \in seen \cup {k}
    BY <1>1, <1>3, <1>4, <1>5, <1>6, <1>8, <2>1, DeliversKeeps
  <2> QED
    BY <1>2, <1>3, <1>8, <2>1, <2>2
<1> QED
  BY <1>7, <1>8

LEMMA ProceedInv ==
  ASSUME TableInv, Proceed
  PROVE  TableInv'
<1>1. /\ Sound(tbl) /\ tbl.stuck = FALSE /\ OffArray(tbl, hidden)
      /\ map \in [Keys -> Values] /\ \A k \in Keys \ hidden : Lookup(tbl, k) = map[k]
  BY InvFacts
<1>2. /\ tbl' = tbl /\ map' = map /\ hidden' = hidden /\ at # NoKey
      /\ at' = luaH_next(tbl, findindex(tbl, at))
      /\ at' # NoKey => seen' = seen \cup {at'} /\ lasting' = lasting
  BY DEF Proceed
<1>3. ASSUME hidden' = {}, at' # NoKey PROVE Kept'
  <2>1. PICK k : k = at'
    OBVIOUS
  <2>2. /\ k \in Keys /\ findindex(tbl, k) # 0
        /\ \A key \in seen \cup {k} : key \in Keys /\ findindex(tbl, key) <= findindex(tbl, k)
        /\ \A key \in lasting : findindex(tbl, key) <= findindex(tbl, k) => key \in seen \cup {k}
    BY <1>2, <1>3, <2>1, NextDelivers
  <2>3. lasting \subseteq Present
    BY <1>2, <1>3 DEF TableInv, Kept
  <2>4. Present' = Present
    BY <1>2 DEF Present
  <2> QED
    BY <1>2, <1>3, <2>1, <2>2, <2>3, <2>4 DEF Kept
<1> QED
  BY <1>1, <1>2, <1>3 DEF TableInv, Answers

LEMMA NextInv ==
  ASSUME TableInv, [TableNext]_tvars
  PROVE  TableInv'
<1>1. CASE UNCHANGED tvars
  BY <1>1 DEF tvars, TableInv, Answers, Kept, Present
<1>2. CASE \E key \in Keys, x \in Contents \cup {Absent} : Assign(key, x)
  BY <1>2, AssignInv DEF Values
<1>3. CASE \E key \in Keys : NoMemoryFor(key)
  BY <1>3, NoMemoryInv
<1>4. CASE \E n \in KeyNumbers : SetListReserves(n)
  BY <1>4, SetListInv
<1> QED
  BY <1>1, <1>2, <1>3, <1>4, BeginInv, ProceedInv, CollectInv DEF TableNext

LEMMA InvIsMap ==
  ASSUME TableInv
  PROVE  TableIsAMap
<1>1. /\ Sound(tbl) /\ tbl.stuck = FALSE /\ Answers
  BY DEF TableInv
<1>2. ASSUME hidden = {} PROVE Bordered
  <2>1. \A key \in Keys : Lookup(tbl, key) = map[key]
    BY <1>2, InvFacts
  <2>2. \A n \in Nat : Lookup(tbl, NumKey(n)) = Mapped(n)
    BY <1>1, <2>1, GetOther, KeyFacts DEF Mapped
  <2>3. PICK n : n = luaH_getn(tbl)
    OBVIOUS
  <2>4. n \in Nat /\ (n = 0 \/ Lookup(tbl, NumKey(n)) # Absent) /\ Lookup(tbl, NumKey(n + 1)) = Absent
    BY <1>1, <2>3, luaH_getnIs DEF IsBorder
  <2>5. (n = 0 \/ Mapped(n) # Absent) /\ Mapped(n + 1) = Absent
    BY <2>2, <2>4
  <2> QED
    BY <2>3, <2>5 DEF Bordered
<1>3. ASSUME hidden = {} PROVE Traversed
  BY <1>3, NextDelivers DEF Traversed
<1> QED
  BY <1>1, <1>2, <1>3 DEF TableIsAMap

\* TableIsAMap, whatever the keys, their hash values and the values: every
\* lookup, the length and a traversal answer as the function that the program
\* has stored, after any assignments, rehashes, failed allocations and
\* collections (lua-5.1/src/ltable.c).
THEOREM TablesAnswer == TableSpec => []TableIsAMap
<1>1. TableInit => TableInv
  BY InitInv
<1>2. TableInv /\ [TableNext]_tvars => TableInv'
  BY NextInv
<1>3. TableInv => TableIsAMap
  BY InvIsMap
<1> QED
  BY <1>1, <1>2, <1>3, PTL DEF TableSpec
=============================================================================
