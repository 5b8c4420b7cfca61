------------------------------- MODULE TabLib -------------------------------
(***************************************************************************)
(* lua-5.1/src/ltablib.c: insert, remove, concat and sort.                 *)
(*                                                                         *)
(* A table is a function of the cells 0 .. TableCells to values, NONE for  *)
(* nil; its length n is fixed when it is read, once in each call.  sort is *)
(* one step for each comparison, because a comparison may be a function of *)
(* the program: it answers anything, whatever it answered before.          *)
(***************************************************************************)
EXTENDS Integers, Sequences, SequencesExt, FiniteSetsExt

CONSTANTS
  TableCells,   \* bound: the last cell of a table
  TabCalls      \* bound: [fn, list, pos, v, order], calls that are made

VARIABLE
  tl    \* [call, pc, a, l, u, i, j, pivot, todo, out]: a call and what it has done

tabVars == <<tl>>

NONE == 0
\* A list ends before the last cell, and concat is asked for cells there are.
\* What is sorted with an order has no holes: a comparison of nil is an error.
ASSUME TabAssumption ==
  /\ TableCells \in Nat
  /\ \A c \in TabCalls :
       /\ c.list \in Seq(Int) /\ Len(c.list) < TableCells
       /\ c.fn = "sort" /\ c.order = "less" => NONE \notin ToSet(c.list)
       /\ c.fn = "concat" => {c.pos, c.v} \subseteq 0 .. TableCells

CellsOf(list) == [k \in 0 .. TableCells |-> IF k \in DOMAIN list THEN list[k] ELSE NONE]
Size == Len(tl.call.list)
Calls(fn) == tl.pc = "called" /\ tl.call.fn = fn

TabInit == tl = [call |-> [fn |-> "none"], pc |-> "idle"]
CallTable ==
  /\ tl.pc = "idle"
  /\ \E c \in TabCalls :
       tl' = [call |-> c, pc |-> "called", a |-> CellsOf(c.list), l |-> 0, u |-> 0, i |-> 0, j |-> 0,
              pivot |-> NONE, todo |-> <<>>, out |-> <<>>]

-----------------------------------------------------------------------------
(* insert, remove and concat                                               *)

\* A position past the end leaves a hole, one before the start moves all.
tinsert ==
  /\ Calls("insert")
  /\ LET pos == tl.call.pos
         e   == Max({Size + 1, pos})
     IN  tl' = [tl EXCEPT !.pc = "done",
                  !.a = [k \in DOMAIN @ |-> IF k = pos THEN tl.call.v
                                            ELSE IF pos < k /\ k <= e THEN @[k - 1] ELSE @[k]]]

\* Whatever the position, the last cell is given up.
tremove ==
  /\ Calls("remove")
  /\ LET pos == tl.call.pos
     IN  tl' = IF Size = 0 THEN [tl EXCEPT !.pc = "done"]
               ELSE [tl EXCEPT !.pc = "done", !.out = <<tl.a[pos]>>,
                       !.a = [k \in DOMAIN @ |-> IF k = Size THEN NONE
                                                 ELSE IF pos <= k /\ k < Size THEN @[k + 1] ELSE @[k]]]

\* The elements from pos to v, and SEP in between.
SEP == -1
Separated(parts) ==
  [k \in 1 .. 2 * Len(parts) - 1 |-> IF k % 2 = 1 THEN parts[(k + 1) \div 2] ELSE SEP]
tconcat ==
  /\ Calls("concat")
  /\ LET from == tl.call.pos
         parts == [k \in 1 .. tl.call.v - from + 1 |-> tl.a[from + k - 1]]
     IN  tl' = IF NONE \in ToSet(parts) THEN [tl EXCEPT !.pc = "failed"]
               ELSE [tl EXCEPT !.pc = "done", !.out = Separated(parts)]

-----------------------------------------------------------------------------
(* sort                                                                    *)

\* What x < y may answer: a comparison of nil is an error.
sort_comp(x, y) ==
  IF tl.call.order = "any" THEN {"true", "false"}
  ELSE IF NONE \in {x, y} THEN {"error"}
  ELSE IF x < y THEN {"true"} ELSE {"false"}
set2(a, i, j) == [a EXCEPT ![i] = a[j], ![j] = a[i]]
Asked(x, y, yes, no) ==
  \E r \in sort_comp(x, y) :
    tl' = CASE r = "true" -> yes [] r = "false" -> no [] r = "error" -> [tl EXCEPT !.pc = "failed"]

sort ==
  /\ Calls("sort")
  /\ tl' = [tl EXCEPT !.pc = "while", !.l = 1, !.u = Size]

\* The end of auxsort(L, j, i): the call around it goes on with the larger part.
AuxsortReturns ==
  /\ tl.pc = "return" \/ (tl.pc = "while" /\ tl.l >= tl.u)
  /\ tl' = IF tl.todo = <<>> THEN [tl EXCEPT !.pc = "done"]
           ELSE [tl EXCEPT !.pc = "while", !.l = Last(tl.todo)[1], !.u = Last(tl.todo)[2], !.todo = Front(@)]

\* a[l], a[(l+u)/2] and a[u] are put in order; then the middle one is the pivot.
EndsCompared ==
  /\ tl.pc = "while" /\ tl.l < tl.u
  /\ LET to == [tl EXCEPT !.pc = IF tl.u - tl.l = 1 THEN "return" ELSE "low"]
     IN  Asked(tl.a[tl.u], tl.a[tl.l], [to EXCEPT !.a = set2(@, tl.l, tl.u)], to)
Middle == (tl.l + tl.u) \div 2
Partitioned(a) ==
  IF tl.u - tl.l = 2 THEN [tl EXCEPT !.pc = "return", !.a = a]
  ELSE [tl EXCEPT !.pc = "up", !.a = set2(a, Middle, tl.u - 1), !.pivot = a[Middle],
                  !.i = tl.l, !.j = tl.u - 1]
LowCompared ==
  /\ tl.pc = "low"
  /\ Asked(tl.a[Middle], tl.a[tl.l], Partitioned(set2(tl.a, Middle, tl.l)), [tl EXCEPT !.pc = "high"])
HighCompared ==
  /\ tl.pc = "high"
  /\ Asked(tl.a[tl.u], tl.a[Middle], Partitioned(set2(tl.a, Middle, tl.u)), Partitioned(tl.a))

\* repeat ++i until a[i] >= P
ScanUp ==
  /\ tl.pc = "up"
  /\ LET i == tl.i + 1
     IN  Asked(tl.a[i], tl.pivot,
               [tl EXCEPT !.pc = IF i > tl.u THEN "failed" ELSE "up", !.i = i],
               [tl EXCEPT !.pc = "down", !.i = i])
\* The part below the pivot, which is at i, and the one above it: the smaller
\* one is next and the larger one is to do.
Halves_OffByOne(t, i) ==
  LET below == <<t.l, i - 2>>
      above == <<i + 1, t.u>>
  IN  IF i - t.l < t.u - i THEN [next |-> below, todo |-> above] ELSE [next |-> above, todo |-> below]
Halves(t, i) ==
  LET below == <<t.l, i - 1>>
      above == <<i + 1, t.u>>
  IN  IF i - t.l < t.u - i THEN [next |-> below, todo |-> above] ELSE [next |-> above, todo |-> below]
\* repeat --j until a[j] <= P; if i and j have met, the pivot goes between.
ScanDown ==
  /\ tl.pc = "down"
  /\ LET j == tl.j - 1
         halves == Halves(tl, tl.i)
         parted == [tl EXCEPT !.pc = "while", !.j = j, !.a = set2(@, tl.u - 1, tl.i),
                      !.l = halves.next[1], !.u = halves.next[2], !.todo = Append(@, halves.todo)]
     IN  Asked(tl.pivot, tl.a[j],
               [tl EXCEPT !.pc = IF j < tl.l THEN "failed" ELSE "down", !.j = j],
               IF j < tl.i THEN parted ELSE [tl EXCEPT !.pc = "up", !.j = j, !.a = set2(@, tl.i, j)])

TabNext ==
  \/ CallTable \/ tinsert \/ tremove \/ tconcat \/ sort
  \/ AuxsortReturns \/ EndsCompared \/ LowCompared \/ HighCompared \/ ScanUp \/ ScanDown
TabSpec == TabInit /\ [][TabNext]_tabVars

-----------------------------------------------------------------------------
(* Properties                                                              *)

Elements(a) == [v \in {a[k] : k \in DOMAIN a} |-> Cardinality({k \in DOMAIN a : a[k] = v})]
Nondecreasing(a, from, to) == \A k \in from .. to - 1 : a[k] <= a[k + 1]

\* Whatever the comparisons answer, at every one of them the table holds what
\* it held, and no cell but the ones beside it has changed.
NothingLost ==
  /\ Elements(tl.a) = Elements(CellsOf(tl.call.list))
  /\ \A k \in Size + 2 .. TableCells : tl.a[k] = NONE
\* The invariant that the source states: a[l..i] <= P <= a[j..u].
PivotBetween ==
  tl.pc \in {"up", "down"} =>
    /\ \A k \in tl.l .. tl.i - (IF tl.pc = "up" THEN 0 ELSE 1) : tl.a[k] <= tl.pivot
    /\ \A k \in tl.j .. tl.u : tl.pivot <= tl.a[k]
    /\ tl.i <= tl.u /\ tl.j >= tl.l
\* With the smaller part first, the calls of auxsort nest no deeper than the
\* logarithm of the size: the stack of C needs no check.
Shallow == tl.todo # <<>> => 2 ^ Len(tl.todo) <= Size
SortIsRight ==
  tl.call.fn = "sort" =>
    /\ NothingLost
    /\ tl.call.order = "less" => /\ tl.pc # "failed" /\ PivotBetween /\ Shallow
                                 /\ tl.pc = "done" => Nondecreasing(tl.a, 1, Size)

\* A position in the list is where insert puts its value and remove takes one;
\* concat has the elements in their order and a separator between any two.
PositionsKept ==
  tl.pc = "done" =>
    LET list == tl.call.list
        pos  == tl.call.pos
    IN  /\ tl.call.fn = "insert" /\ pos \in 1 .. Size + 1 =>
             tl.a = CellsOf(InsertAt(list, pos, tl.call.v))
        /\ tl.call.fn = "remove" /\ pos \in 1 .. Size =>
             tl.out = <<list[pos]>> /\ tl.a = CellsOf(RemoveAt(list, pos))
        /\ tl.call.fn = "concat" =>
             /\ [k \in 1 .. (Len(tl.out) + 1) \div 2 |-> tl.out[2 * k - 1]]
                  = SubSeq(list, pos, tl.call.v)
             /\ \A k \in 1 .. Len(tl.out) \div 2 : tl.out[2 * k] = SEP

(* sort sorts with an order, and with a function that is none it only       *)
(* rearranges the list or fails; insert, remove and concat keep the rest of *)
(* the list in its order (auxsort, sort, tinsert, tremove, tconcat).        *)
TableLibraryRight == SortIsRight /\ PositionsKept
=============================================================================
