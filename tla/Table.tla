-------------------------------- MODULE Table --------------------------------
(***************************************************************************)
(* lua-5.1/src/ltable.c: a Lua table, an array for the keys 1, 2, ... and  *)
(* a hash part whose colliding keys are chained through its free nodes.    *)
(*                                                                         *)
(* map is what a program has stored: the table has to answer as that       *)
(* function does, however it is rehashed.  A program also traverses the    *)
(* table with next, the collector marks keys without a value dead, and an  *)
(* allocation of a rehash may fail.                                        *)
(***************************************************************************)
EXTENDS Integers, Sequences, FiniteSets, SequencesExt, FiniteSetsExt

CONSTANTS
  KeyNumbers, KeyStrings,    \* bound: the keys a program uses
  Hash(_),             \* of a key
  Contents,            \* bound: values, other than Absent
  MaxFaults,           \* bound: failing allocations
  MaxSteps             \* bound: what the program does with the table

ASSUME TableAssumption ==
  /\ IsFiniteSet(KeyNumbers) /\ KeyNumbers # {} /\ KeyNumbers \subseteq Nat \ {0}
  /\ \A n \in KeyNumbers : Hash(<<"num", n>>) \in Nat
  /\ \A s \in KeyStrings : Hash(<<"str", s>>) \in Nat
  /\ MaxFaults \in Nat /\ MaxSteps \in Nat

VARIABLES
  tbl,      \* [array, node, lastfree, stuck]: an empty node stands for
            \* dummynode; stuck: an insertion of a rehash found no place
  map,      \* the value of each key, by the program
  hidden,   \* keys whose value a failed rehash may have hidden
  at,       \* key of the traversal that is under way, or NoKey
  seen,     \* keys it has delivered
  lasting,  \* keys that were there when it began and have been since
  tfaults, tsteps

tvars == <<tbl, map, hidden, at, seen, lasting, tfaults, tsteps>>

Absent == 0
NoKey == <<"nil">>
NumKey(n) == <<"num", n>>
StrKey(s) == <<"str", s>>
Keys == {NumKey(n) : n \in KeyNumbers} \cup {StrKey(s) : s \in KeyStrings}
\* Only strings are collected here.
DeadKey(key) == <<"dead", key[2]>>
Marks(key) == IF key[1] = "str" THEN {key, DeadKey(key)} ELSE {key}
EmptyNode == [key |-> NoKey, val |-> Absent, next |-> 0]
EmptyTable == [array |-> <<>>, node |-> <<>>, lastfree |-> 0, stuck |-> FALSE]

-----------------------------------------------------------------------------
(* Searching                                                               *)

sizenode(tb) == IF tb.node = <<>> THEN 1 ELSE Len(tb.node)
\* Strings take the low bits of their hash, numbers the rest by an odd number.
mainposition(tb, key) ==
  IF key[1] = "str" THEN (Hash(key) % sizenode(tb)) + 1
  ELSE (Hash(key) % (IF sizenode(tb) = 1 THEN 1 ELSE sizenode(tb) - 1)) + 1
\* The nodes of the chain in the order of the links, 0 after the last one; a
\* chain is no longer than the table.
Follow(tb, i) == IF i \in DOMAIN tb.node THEN tb.node[i].next ELSE 0
Chain(tb, key) ==
  LET r[n \in 0 .. Len(tb.node) - 1] == IF n = 0 THEN mainposition(tb, key) ELSE Follow(tb, r[n - 1])
  IN  r
InArray(tb, key) == key[1] = "num" /\ key[2] \in DOMAIN tb.array
\* The first node of the chain whose key is one of S, 0 for none.
Holding(tb, key, S) ==
  LET c == Chain(tb, key)
      held == {n \in DOMAIN c : c[n] \in DOMAIN tb.node /\ tb.node[c[n]].key \in S}
  IN  IF held = {} THEN 0 ELSE c[Min(held)]
\* luaH_get: the place of the key's value, <<>> for none.
luaH_get(tb, key) ==
  LET n == Holding(tb, key, {key})
  IN  IF InArray(tb, key) THEN <<"array", key[2]>>
      ELSE IF n = 0 THEN <<>> ELSE <<"node", n>>
ValueAt(tb, place) ==
  IF place = <<>> THEN Absent
  ELSE IF place[1] = "array" THEN tb.array[place[2]] ELSE tb.node[place[2]].val
Lookup(tb, key) == ValueAt(tb, luaH_get(tb, key))
StoreAt(tb, place, x) ==
  IF place[1] = "array" THEN [tb EXCEPT !.array[place[2]] = x]
  ELSE [tb EXCEPT !.node[place[2]].val = x]

\* luaH_getn: a binary search in the array, or from the array on by doubling.
Halved(tb, p) ==
  LET m == (p[1] + p[2]) \div 2
  IN  IF p[2] - p[1] <= 1 THEN p
      ELSE IF Lookup(tb, NumKey(m)) = Absent THEN <<p[1], m>> ELSE <<m, p[2]>>
Between(tb, p) ==
  LET r[n \in 0 .. p[2] - p[1]] == IF n = 0 THEN p ELSE Halved(tb, r[n - 1])
  IN  r[p[2] - p[1]][1]
Doubled(tb, p) == IF Lookup(tb, NumKey(p[2])) = Absent THEN p ELSE <<p[2], 2 * p[2]>>
\* Max(KeyNumbers) rounds are enough: each leaves another key behind.
unbound_search(tb, j) ==
  LET r[n \in 0 .. Max(KeyNumbers)] == IF n = 0 THEN <<j, j + 1>> ELSE Doubled(tb, r[n - 1])
  IN  Between(tb, r[Max(KeyNumbers)])
luaH_getn(tb) ==
  LET j == Len(tb.array)
  IN  IF j > 0 /\ tb.array[j] = Absent THEN Between(tb, <<0, j>>)
      ELSE IF tb.node = <<>> THEN j ELSE unbound_search(tb, j)

-----------------------------------------------------------------------------
(* Inserting                                                               *)

\* getfreepos: the last free node before lastfree, 0 for none.
getfreepos(tb) == Max({i \in 1 .. tb.lastfree - 1 : tb.node[i].key = NoKey} \cup {0})
Taken(tb, n) == [tb EXCEPT !.lastfree = n]
Previous(tb, key, mp) ==
  CHOOSE i \in Range(Chain(tb, key)) : i # 0 /\ tb.node[i].next = mp
\* The colliding node is out of its main position: it moves to n.
MoveAway_Unlinked(tb, mp, n, key, x) ==
  [tb EXCEPT !.node[n] = tb.node[mp],
             !.node[mp] = [key |-> key, val |-> x, next |-> 0]]
MoveAway(tb, mp, n, key, x) ==
  [tb EXCEPT !.node[Previous(tb, tb.node[mp].key, mp)].next = n,
             !.node[n] = tb.node[mp],
             !.node[mp] = [key |-> key, val |-> x, next |-> 0]]
\* It is in its main position: the new key goes to n, behind it.
ChainAfter(tb, mp, n, key, x) ==
  [tb EXCEPT !.node[n] = [key |-> key, val |-> x, next |-> tb.node[mp].next],
             !.node[mp].next = n]
Collision(tb, mp, n, key, x) ==
  IF mainposition(tb, tb.node[mp].key) # mp THEN MoveAway(Taken(tb, n), mp, n, key, x)
  ELSE ChainAfter(Taken(tb, n), mp, n, key, x)
\* A main position without a value takes the key and keeps its chain.
Direct(tb, key) == tb.node # <<>> /\ tb.node[mainposition(tb, key)].val = Absent
HasPlace(tb, key) == Direct(tb, key) \/ getfreepos(tb) # 0
\* newkey where there is a place, and the assignment of the value.
newkey(tb, key, x) ==
  LET mp == mainposition(tb, key)
  IN  IF Direct(tb, key) THEN [tb EXCEPT !.node[mp].key = key, !.node[mp].val = x]
      ELSE Collision(tb, mp, getfreepos(tb), key, x)
Reinserted(tb, key, x) ==
  IF luaH_get(tb, key) # <<>> THEN StoreAt(tb, luaH_get(tb, key), x)
  ELSE IF HasPlace(tb, key) THEN newkey(tb, key, x) ELSE [tb EXCEPT !.stuck = TRUE]

-----------------------------------------------------------------------------
(* Rehashing                                                               *)

ceillog2(n) == CHOOSE l \in 0 .. n : 2 ^ l >= n /\ \A m \in 0 .. l - 1 : 2 ^ m < n
\* The positive integer keys in use, with those that are in use twice.
countint(key) == key[1] = "num"
UsedNodes(tb) == {i \in DOMAIN tb.node : tb.node[i].val # Absent}
UsedArray(tb) == {i \in DOMAIN tb.array : tb.array[i] # Absent}
CountUpTo(tb, key, n) ==
  Cardinality({i \in UsedArray(tb) : i <= n})
    + Cardinality({i \in UsedNodes(tb) : countint(tb.node[i].key) /\ tb.node[i].key[2] <= n})
    + (IF countint(key) /\ key[2] <= n THEN 1 ELSE 0)
\* computesizes: the largest power of two more than half of which is in use.
Largest == 2 ^ ceillog2(Max(KeyNumbers))
Sizes(tb, key) ==
  {n \in {2 ^ i : i \in 0 .. ceillog2(Largest)} :
     /\ n \div 2 < CountUpTo(tb, key, Largest)
     /\ CountUpTo(tb, key, n) > CountUpTo(tb, key, n \div 2)
     /\ CountUpTo(tb, key, n) > n \div 2
     /\ \A m \in {2 ^ i : i \in 0 .. ceillog2(n)} \ {n} :
          CountUpTo(tb, key, m) < CountUpTo(tb, key, Largest)}
computesizes(tb, key) == Max(Sizes(tb, key) \cup {0})

setarrayvector(tb, size) ==
  [tb EXCEPT !.array = @ \o [i \in 1 .. size - Len(@) |-> Absent]]
setnodevector(tb, size) ==
  LET n == IF size = 0 THEN 0 ELSE 2 ^ ceillog2(size)
  IN  [tb EXCEPT !.node = [i \in 1 .. n |-> EmptyNode], !.lastfree = n + 1]
Shrunk(tb, nasize) == [tb EXCEPT !.array = SubSeq(@, 1, nasize)]
\* What a resize inserts again: the slice of the array that vanishes, then the
\* old nodes from the last on.
Vanishing(tb, nasize) == IF nasize < Len(tb.array) THEN Len(tb.array) - nasize ELSE 0
Moved(tb, nasize) ==
  LET v == Vanishing(tb, nasize)
  IN  [j \in 1 .. v + Len(tb.node) |->
         IF j <= v THEN [key |-> NumKey(nasize + j), val |-> tb.array[nasize + j]]
         ELSE LET e == tb.node[v + Len(tb.node) + 1 - j] IN [key |-> e.key, val |-> e.val]]
Resettled(tb, e) == IF e.val = Absent THEN tb ELSE Reinserted(tb, e.key, e.val)
Lengthened(tb, nasize) == IF nasize > Len(tb.array) THEN setarrayvector(tb, nasize) ELSE tb
\* The parts of the new size, without what has to move.
Resized(tb, nasize, nhsize) ==
  setnodevector(IF nasize < Len(tb.array) THEN Shrunk(tb, nasize) ELSE Lengthened(tb, nasize), nhsize)
resize(tb, nasize, nhsize) ==
  LET list == Moved(tb, nasize)
      r[n \in 0 .. Len(list)] ==
        IF n = 0 THEN Resized(tb, nasize, nhsize) ELSE Resettled(r[n - 1], list[n])
  IN  r[Len(list)]
HashSize(tb, key, nasize) ==
  Cardinality(UsedArray(tb)) + Cardinality(UsedNodes(tb)) + 1 - CountUpTo(tb, key, nasize)
rehash(tb, key) ==
  resize(tb, computesizes(tb, key), HashSize(tb, key, computesizes(tb, key)))
luaH_resizearray(tb, nasize) == resize(tb, nasize, Len(tb.node))

\* luaH_set and the assignment that follows.
luaH_set(tb, key, x) ==
  IF luaH_get(tb, key) # <<>> THEN StoreAt(tb, luaH_get(tb, key), x)
  ELSE IF HasPlace(tb, key) THEN newkey(tb, key, x)
  ELSE Reinserted(rehash(tb, key), key, x)
NeedsRehash(tb, key) == luaH_get(tb, key) = <<>> /\ ~HasPlace(tb, key)

-----------------------------------------------------------------------------
(* Traversing                                                              *)

\* The order of a traversal: the array, then the nodes.
Entries(tb) == [i \in 1 .. Len(tb.array) |-> [key |-> NumKey(i), val |-> tb.array[i]]]
               \o [i \in 1 .. Len(tb.node) |-> [key |-> tb.node[i].key, val |-> tb.node[i].val]]
\* findindex: a dead key still marks its place; 0 is an invalid key.
findindex(tb, key) ==
  LET n == Holding(tb, key, Marks(key))
  IN  IF InArray(tb, key) THEN key[2]
      ELSE IF n = 0 THEN 0 ELSE Len(tb.array) + n
Later(tb, i) == {j \in i + 1 .. Len(Entries(tb)) : Entries(tb)[j].val # Absent}
\* luaH_next after place i: the next key, or NoKey at the end.
luaH_next(tb, i) == IF Later(tb, i) = {} THEN NoKey ELSE Entries(tb)[Min(Later(tb, i))].key

-----------------------------------------------------------------------------
TableInit ==
  /\ tbl = EmptyTable /\ map = [k \in Keys |-> Absent] /\ hidden = {}
  /\ at = NoKey /\ seen = {} /\ lasting = {} /\ tfaults = 0 /\ tsteps = 0

Present == {k \in Keys : map[k] # Absent}
Spends(s) == tsteps < MaxSteps /\ tsteps' = tsteps + s
\* t[key] = x.  A new key ends the traversal: the manual forbids it there.
Assign(key, x) ==
  /\ Spends(1)
  /\ tbl' = luaH_set(tbl, key, x)
  /\ map' = [map EXCEPT ![key] = x]
  /\ IF luaH_get(tbl, key) = <<>> THEN at' = NoKey /\ seen' = {} /\ lasting' = {}
     ELSE /\ lasting' = IF x = Absent THEN lasting \ {key} ELSE lasting
          /\ UNCHANGED <<at, seen>>
  /\ UNCHANGED <<hidden, tfaults>>
\* A rehash finds no memory for the array, or for the nodes when the array has
\* already grown.
NoMemoryFor(key) ==
  /\ Spends(1) /\ NeedsRehash(tbl, key) /\ tfaults < MaxFaults
  /\ LET nasize == computesizes(tbl, key) IN
     \/ nasize > Len(tbl.array) /\ tbl' = Taken(tbl, 0) /\ hidden' = hidden
     \/ /\ HashSize(tbl, key, nasize) > 0
        /\ tbl' = Taken(Lengthened(tbl, nasize), 0)
        /\ hidden' = hidden \cup {NumKey(n) : n \in Len(tbl.array) + 1 .. nasize}
  /\ tfaults' = tfaults + 1 /\ at' = NoKey /\ seen' = {} /\ lasting' = {}
  /\ UNCHANGED map
\* OP_SETLIST makes the array long enough before it stores.
SetListReserves(n) ==
  /\ Spends(1) /\ n > Len(tbl.array) /\ tbl' = luaH_resizearray(tbl, n)
  /\ at' = NoKey /\ seen' = {} /\ lasting' = {} /\ UNCHANGED <<map, hidden, tfaults>>
BeginTraversal ==
  /\ Spends(1) /\ at = NoKey /\ luaH_next(tbl, 0) # NoKey
  /\ at' = luaH_next(tbl, 0) /\ seen' = {at'} /\ lasting' = Present
  /\ UNCHANGED <<tbl, map, hidden, tfaults>>
\* At the end the traversal is forgotten.
Proceed ==
  /\ Spends(0) /\ at # NoKey
  /\ at' = luaH_next(tbl, findindex(tbl, at))
  /\ IF at' = NoKey THEN seen' = {} /\ lasting' = {} ELSE seen' = seen \cup {at'} /\ lasting' = lasting
  /\ UNCHANGED <<tbl, map, hidden, tfaults>>
\* removeentry, for every node of the table.
DeadNode(e) == IF e.val = Absent /\ e.key[1] = "str" THEN [e EXCEPT !.key = DeadKey(@)] ELSE e
Collect ==
  /\ Spends(0)
  /\ tbl' = [tbl EXCEPT !.node = [i \in DOMAIN @ |-> DeadNode(@[i])]]
  /\ tbl' # tbl /\ UNCHANGED <<map, hidden, at, seen, lasting, tfaults>>
TableNext ==
  \/ \E key \in Keys, x \in Contents \cup {Absent} : Assign(key, x)
  \/ \E key \in Keys : NoMemoryFor(key)
  \/ \E n \in KeyNumbers : SetListReserves(n)
  \/ BeginTraversal \/ Proceed \/ Collect
TableSpec == TableInit /\ [][TableNext]_tvars

-----------------------------------------------------------------------------
\* Every key that no failed rehash has hidden has its value, and a rehash finds
\* a place for every key.
Answers == \A key \in Keys \ hidden : Lookup(tbl, key) = map[key]
Mapped(n) == IF NumKey(n) \in Keys THEN map[NumKey(n)] ELSE Absent
\* The length is a border: the last key of a run.
Bordered ==
  LET n == luaH_getn(tbl)
  IN  (n = 0 \/ Mapped(n) # Absent) /\ Mapped(n + 1) = Absent
\* A traversal delivers no key twice, and at its end has delivered all that
\* were there throughout.
Traversed ==
  at # NoKey =>
    /\ findindex(tbl, at) # 0
    /\ luaH_next(tbl, findindex(tbl, at)) \notin seen
    /\ luaH_next(tbl, findindex(tbl, at)) = NoKey => lasting \subseteq seen

(* A table answers like the function from keys to values that the program   *)
(* has stored, whatever array and hash part it has been given, and a        *)
(* traversal that assigns to existing keys misses none and repeats none     *)
(* (luaH_get, luaH_set, luaH_next, luaH_getn).  A rehash that runs out of   *)
(* memory between the two parts hides integer keys, and no others.         *)
TableIsAMap == Answers /\ ~tbl.stuck /\ (hidden = {} => Bordered /\ Traversed)
=============================================================================
