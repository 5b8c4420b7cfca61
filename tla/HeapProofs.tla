----------------------------- MODULE HeapProofs -----------------------------
(***************************************************************************)
(* What holds of the heap for every segment, image, set of requests and    *)
(* number of blocks.  The argument: the only block with a size that malloc *)
(* can use is the arena, because the header of a freed block is one that   *)
(* nobody ever gave a size to.  So blocks are carved off the end of the    *)
(* arena, one below the other, and the headers of freed blocks fall into   *)
(* the last bytes of the block below, which its owner never uses.          *)
(***************************************************************************)
EXTENDS Heap, TLAPS

\* Each block lies in the segment, above the image and above what is left of
\* the arena, and is eight bytes larger than what was asked for.
Placed ==
  \A b \in blocks :
    /\ b.hdr % 8 = 0
    /\ b.hdr >= 8 * ImageUnits
    /\ b.hdr >= 8 * size[Arena]
    /\ b.hdr + 8 * b.units <= Limit
    /\ b.units >= 2
    /\ b.bytes <= 8 * (b.units - 1)

\* No two blocks share a unit.
Apart ==
  \A b1, b2 \in blocks :
    b1 # b2 => \/ b1.hdr + 8 * b1.units <= b2.hdr
               \/ b2.hdr + 8 * b2.units <= b1.hdr

\* The size words that free looks at have never been written.
Blank ==
  /\ \A a \in Addresses : a % 8 = 1 => size[a] = 0
  /\ size[Base] = 0

\* The list only leads to headers that are on it.
Ring ==
  freep # NULL => freep \in Nodes /\ \A a \in Nodes : next[a] \in Nodes

\* The walks of malloc and free never leave the list.
Walk ==
  /\ pc = "search" => prevp \in Nodes /\ p \in Nodes
  /\ pc = "scan" => p \in Nodes

\* The call in progress.
Asked ==
  /\ pc \in {"search", "copy"} =>
       nbytes \in Requests /\ nunits = (nbytes + 7) \div 8 + 1
  /\ pc \in {"copy", "scan"} => old # NULL
  /\ old # NULL => \E b \in Live : b.hdr = old
  /\ freep = NULL => blocks = {} /\ pc = "idle"

Inner   == Placed /\ Apart /\ Blank /\ Ring /\ Walk /\ Asked
HeapInv == TypeOK /\ (pc # "trampled" => Inner)

USE DEF BLOCKSIZ, NULL, Arena, Limit

-----------------------------------------------------------------------------
\* Facts about the constants in the form the steps below use them.
LEMMA Constants ==
  /\ ImageUnits \in Nat /\ ImageUnits >= 2
  /\ ArenaUnits \in Nat /\ ArenaUnits > ImageUnits
  /\ Base \in Nat /\ Base % 8 = 0 /\ 8 <= Base /\ Base < 8 * ImageUnits
  /\ Base \in Addresses /\ Arena \in Addresses
  /\ Requests \subseteq Nat \ {0}
  /\ Addresses \subseteq Nat /\ NULL \notin Addresses
  BY ArenaAssumption, BaseAssumption, RequestAssumption DEF Addresses

\* Rounding up: a block of (n + 7) \div 8 + 1 units has eight bytes to spare.
LEMMA Rounding ==
  ASSUME NEW n \in Requests
  PROVE  /\ BLOCK_ALIGN(n) \in Nat /\ BLOCK_ALIGN(n) >= 2
         /\ BLOCK_ALIGN(n) = (n + 7) \div 8 + 1
         /\ n <= 8 * (BLOCK_ALIGN(n) - 1)
  BY Constants DEF BLOCK_ALIGN

\* The header that free sees starts seven bytes in front of the block.
LEMMA SevenBelow ==
  ASSUME NEW h \in Nat, h % 8 = 0
  PROVE  FreeHeader(h) = h - 7 /\ FreeHeader(h) % 8 = 1
<1>1. FreeHeader(h) = h - 7
  BY DEF FreeHeader, PTR_BLOCK, BLOCK_PTR
<1>2. (h - 7) % 8 = 1
  OBVIOUS
<1> QED
  BY <1>1, <1>2

\* The headers of freed blocks are at addresses at which malloc puts none.
LEMMA NodesOdd ==
  ASSUME TypeOK, Inner, NEW a \in Nodes, a # Arena, a # Base
  PROVE  a % 8 = 1 /\ a >= 8 * ImageUnits - 7 /\ a \in Addresses
<1>1. PICK b \in blocks : a = FreeHeader(b.hdr)
  BY DEF Nodes, Live
<1>2. b.hdr \in Addresses /\ b.hdr % 8 = 0 /\ b.hdr >= 8 * ImageUnits
  BY DEF TypeOK, Inner, Placed
<1>3. b.hdr \in Nat
  BY <1>2, Constants
<1>4. a = b.hdr - 7 /\ a % 8 = 1
  BY <1>1, <1>2, <1>3, SevenBelow
<1> QED
  BY <1>2, <1>4, Constants DEF Addresses

\* Every header on the list other than the arena has size 0.
LEMMA NodesEmpty ==
  ASSUME TypeOK, Inner, NEW a \in Nodes, a # Arena
  PROVE  size[a] = 0
  BY NodesOdd DEF Inner, Blank

\* The first malloc finds a segment that nobody has used.
LEMMA HeapInit == Init => HeapInv
<1> SUFFICES ASSUME Init PROVE HeapInv
  OBVIOUS
<1> USE Constants DEF Init, Residue
<1>1. TypeOK
  BY DEF TypeOK
<1>2. Inner
  BY DEF Inner, Placed, Apart, Blank, Ring, Walk, Asked
<1> QED
  BY <1>1, <1>2 DEF HeapInv

-----------------------------------------------------------------------------
(* malloc                                                                  *)

\* Entering malloc starts the walk on the list, after laying the list down if
\* this is the first call.
LEMMA EnterPreserves ==
  ASSUME HeapInv, pc = "idle", NEW n \in Requests, EnterMalloc(n),
         old' = NULL \/ \E b \in Live : old' = b.hdr
  PROVE  HeapInv'
<1> USE Constants DEF HeapInv
<1>1. /\ nbytes' = n /\ nunits' = BLOCK_ALIGN(n) /\ pc' = "search"
      /\ got' = NULL /\ UNCHANGED <<blocks, copied>>
  BY DEF EnterMalloc
<1>2. nunits' \in Nat /\ nunits' = (n + 7) \div 8 + 1 /\ n \in Nat
  BY <1>1, Rounding
<1>3. CASE freep = NULL
  <2>1. /\ next' = [next EXCEPT ![Arena] = Base, ![Base] = Arena]
        /\ size' = [size EXCEPT ![Arena] = ArenaUnits, ![Base] = 0]
        /\ freep' = Base /\ prevp' = Base /\ p' = Arena
    BY <1>3 DEF EnterMalloc
  <2>2. blocks = {} /\ blocks' = {} /\ old' = NULL
    BY <1>1, <1>3 DEF Inner, Asked, Live
  <2>3. Nodes' = {Arena, Base}
    BY <2>2 DEF Nodes, Live
  <2>4. TypeOK'
    BY <1>1, <1>2, <2>1, <2>2 DEF TypeOK
  <2>5. Blank'
    <3>1. \A a \in Addresses : a % 8 = 1 => a # Arena /\ a # Base
      OBVIOUS
    <3>2. \A a \in Addresses : a # Arena /\ a # Base => size'[a] = size[a]
      BY <2>1 DEF TypeOK
    <3>3. size'[Base] = 0
      BY <2>1 DEF TypeOK
    <3> QED
      BY <3>1, <3>2, <3>3 DEF Inner, Blank
  <2>6. Ring' /\ Walk'
    BY <1>1, <2>1, <2>3 DEF TypeOK, Ring, Walk
  <2>7. Placed' /\ Apart'
    BY <2>2 DEF Placed, Apart
  <2>8. Asked'
    BY <1>1, <1>2, <2>1, <2>2 DEF Asked
  <2> QED
    BY <2>4, <2>5, <2>6, <2>7, <2>8 DEF Inner
<1>4. CASE freep # NULL
  <2>1. prevp' = freep /\ p' = next[freep] /\ UNCHANGED <<next, size, freep>>
    BY <1>4 DEF EnterMalloc, memory
  <2>2. Nodes' = Nodes /\ Live' = Live
    BY <1>1 DEF Nodes, Live
  <2>3. freep \in Nodes /\ next[freep] \in Nodes
    BY <1>4 DEF Inner, Ring
  <2>4. old' \in Addresses \cup {NULL}
    BY DEF TypeOK, Live
  <2>5. TypeOK'
    <3>1. freep \in Addresses /\ next[freep] \in Addresses
      BY <1>4 DEF TypeOK
    <3> QED
      BY <1>1, <1>2, <2>1, <2>4, <3>1 DEF TypeOK
  <2>6. Placed' /\ Apart' /\ Blank' /\ Ring'
    BY <1>1, <2>1, <2>2 DEF Inner, Placed, Apart, Blank, Ring
  <2>7. Walk'
    BY <1>1, <2>1, <2>2, <2>3 DEF Walk
  <2>8. Asked'
    BY <1>1, <1>2, <1>4, <2>1, <2>2 DEF Asked
  <2> QED
    BY <2>5, <2>6, <2>7, <2>8 DEF Inner
<1> QED
  BY <1>3, <1>4

\* What a walk may find big enough is the arena: at least two units are asked
\* for, and no other header has a size.
LEMMA OnlyArena ==
  ASSUME HeapInv, pc = "search", size[p] >= nunits
  PROVE  /\ p = Arena
         /\ nbytes \in Requests /\ nunits \in Nat /\ nunits >= 2
         /\ nbytes <= 8 * (nunits - 1)
<1>1. nbytes \in Requests /\ nunits = BLOCK_ALIGN(nbytes)
  BY Rounding DEF HeapInv, Inner, Asked
<1>2. nunits \in Nat /\ nunits >= 2 /\ nbytes <= 8 * (nunits - 1)
  BY <1>1, Rounding
<1>3. p \in Nodes
  BY DEF HeapInv, Inner, Walk
<1> QED
  BY <1>1, <1>2, <1>3, NodesEmpty DEF HeapInv

\* The exact fit takes the arena itself, and with it the kernel image.
LEMMA TakeExactPreserves == HeapInv /\ TakeExact => HeapInv'
<1> SUFFICES ASSUME HeapInv, TakeExact PROVE HeapInv'
  OBVIOUS
<1> USE Constants DEF TakeExact, HeapInv
<1>a. size[p] >= nunits /\ pc = "search"
  BY DEF TypeOK
<1>1. /\ p = Arena /\ nbytes \in Requests /\ nunits \in Nat
  BY <1>a, OnlyArena
<1>2. pc' = "trampled"
  BY <1>1 DEF Give
<1>3. next' \in [Addresses -> Addresses]
  BY DEF TypeOK
<1>4. blocks' \subseteq [hdr : Addresses, units : Nat, bytes : Requests,
                         live : BOOLEAN]
  <2>1. blocks' = blocks \cup {[hdr |-> Arena, units |-> nunits,
                               bytes |-> nbytes, live |-> TRUE]}
    BY <1>1 DEF Give
  <2>2. [hdr |-> Arena, units |-> nunits, bytes |-> nbytes, live |-> TRUE]
          \in [hdr : Addresses, units : Nat, bytes : Requests, live : BOOLEAN]
    BY <1>1
  <2> QED
    BY <2>1, <2>2 DEF TypeOK
<1> QED
  BY <1>1, <1>2, <1>3, <1>4 DEF TypeOK, Give, call

\* A block cut off the end of the arena lies below all others.
LEMMA TakeTailPreserves == HeapInv /\ TakeTail => HeapInv'
<1> SUFFICES ASSUME HeapInv, TakeTail PROVE HeapInv'
  OBVIOUS
<1> USE Constants DEF HeapInv
<1> DEFINE h == 8 * (size[Arena] - nunits)
           new == [hdr |-> h, units |-> nunits, bytes |-> nbytes,
                   live |-> TRUE]
<1>a. size[p] >= nunits /\ size[p] > nunits /\ pc = "search"
  BY DEF TypeOK, TakeTail
<1>1. /\ p = Arena /\ pc = "search" /\ size[Arena] > nunits
      /\ nbytes \in Requests /\ nunits \in Nat /\ nunits >= 2
      /\ nbytes <= 8 * (nunits - 1)
  BY <1>a, OnlyArena
<1>2. size[Arena] \in Nat /\ size[Arena] <= ArenaUnits
  BY DEF TypeOK
<1>3. h \in Addresses /\ h % 8 = 0 /\ h > 0
  BY <1>1, <1>2 DEF Addresses
<1>4. /\ size' = [size EXCEPT ![Arena] = size[Arena] - nunits, ![h] = nunits]
      /\ UNCHANGED next
      /\ Give(h)
  <2>1. TailBlock(p) = h /\ Remaining(p) = size[Arena] - nunits
    BY <1>1, <1>2 DEF TailBlock, Remaining
  <2> QED
    BY <1>1, <2>1 DEF TakeTail
<1>5. /\ blocks' = blocks \cup {new} /\ freep' = prevp /\ got' = h
      /\ UNCHANGED <<nbytes, nunits, old, prevp, p, copied>>
      /\ pc' \in {"trampled", "idle", "copy"}
  BY <1>4 DEF Give, call, Return
<1>6. /\ size'[Arena] = size[Arena] - nunits
      /\ \A a \in Addresses : a # Arena /\ a # h => size'[a] = size[a]
  BY <1>2, <1>3, <1>4 DEF TypeOK
<1>7. TypeOK'
  <2>1. size' \in [Addresses -> 0 .. ArenaUnits]
    BY <1>1, <1>2, <1>3, <1>4 DEF TypeOK
  <2>2. new \in [hdr : Addresses, units : Nat, bytes : Requests,
                 live : BOOLEAN]
    BY <1>1, <1>3
  <2> QED
    BY <1>3, <1>4, <1>5, <2>1, <2>2 DEF TypeOK
<1>8. ASSUME pc' # "trampled" PROVE Inner'
  <2>1. h >= 8 * ImageUnits
    BY <1>3, <1>4, <1>8 DEF Give
  <2>2. Placed'
    <3>1. \A b \in blocks : b.hdr >= 8 * size[Arena]
      BY <1>1 DEF Inner, Placed
    <3>2. \A b \in blocks : b.hdr \in Nat
      BY Constants DEF TypeOK
    <3> SUFFICES ASSUME NEW b \in blocks'
                 PROVE  /\ b.hdr % 8 = 0
                        /\ b.hdr >= 8 * ImageUnits
                        /\ b.hdr >= 8 * size'[Arena]
                        /\ b.hdr + 8 * b.units <= Limit
                        /\ b.units >= 2
                        /\ b.bytes <= 8 * (b.units - 1)
      BY DEF Placed
    <3>3. CASE b = new
      BY <1>1, <1>2, <1>3, <1>6, <2>1, <3>3
    <3>4. CASE b \in blocks
      BY <1>1, <1>2, <1>6, <3>1, <3>2, <3>4 DEF Inner, Placed
    <3> QED
      BY <1>5, <3>3, <3>4
  <2>3. Apart'
    <3>1. \A b \in blocks : new.hdr + 8 * new.units <= b.hdr
      BY <1>1, <1>2 DEF Inner, Placed
    <3> QED
      BY <1>1, <1>5, <3>1 DEF Inner, Apart
  <2>4. Blank'
    <3>1. Base # h /\ Base # Arena
      BY <1>3, <2>1
    <3>2. \A a \in Addresses : a % 8 = 1 => a # h /\ a # Arena
      BY <1>3
    <3> QED
      BY <1>1, <1>6, <3>1, <3>2 DEF Inner, Blank
  <2>5. Nodes' = Nodes
    <3>1. blocks' \ Live' = blocks \ Live
      BY <1>5 DEF Live
    <3> QED
      BY <3>1 DEF Nodes
  <2>6. prevp \in Nodes
    BY <1>1 DEF Inner, Walk
  <2>7. Ring' /\ Walk'
    BY <1>1, <1>4, <1>5, <1>8, <2>5, <2>6 DEF Inner, Ring, Walk, Asked
  <2>8. Asked'
    <3>1. freep' # NULL
      BY <1>5 DEF TypeOK
    <3>2. pc' = "copy" => old # NULL
      BY <1>4, <1>8 DEF Give, Return
    <3>3. Live \subseteq Live'
      BY <1>5 DEF Live
    <3> QED
      BY <1>1, <1>5, <3>1, <3>2, <3>3 DEF Inner, Asked
  <2> QED
    BY <2>2, <2>3, <2>4, <2>7, <2>8 DEF Inner
<1> QED
  BY <1>7, <1>8

\* Walking on stays on the list.
LEMMA AdvancePreserves == HeapInv /\ Advance => HeapInv'
<1> SUFFICES ASSUME HeapInv, Advance PROVE HeapInv'
  OBVIOUS
<1> USE DEF HeapInv, Advance, memory, call
<1>1. Nodes' = Nodes /\ Live' = Live
  BY DEF Nodes, Live
<1>2. p \in Nodes /\ next[p] \in Nodes /\ freep # NULL
  BY DEF Inner, Walk, Ring, Asked
<1>3. TypeOK'
  BY DEF TypeOK
<1> QED
  BY <1>1, <1>2, <1>3
  DEF Inner, Placed, Apart, Blank, Ring, Walk, Asked

\* Giving up changes nothing.
LEMMA ReturnNullPreserves == HeapInv /\ ReturnNull => HeapInv'
<1> SUFFICES ASSUME HeapInv, ReturnNull PROVE HeapInv'
  OBVIOUS
<1> USE DEF HeapInv, ReturnNull, memory, call, Return
<1>1. Nodes' = Nodes /\ Live' = Live
  BY DEF Nodes, Live
<1>2. TypeOK' /\ freep # NULL
  BY DEF TypeOK, Inner, Asked
<1> QED
  BY <1>1, <1>2 DEF Inner, Placed, Apart, Blank, Ring, Walk, Asked

-----------------------------------------------------------------------------
(* free and realloc                                                        *)

\* Entering free starts the walk at freep, which is on the list.
LEMMA FreePreserves == HeapInv /\ Free => HeapInv'
<1> SUFFICES ASSUME HeapInv, Free PROVE HeapInv'
  OBVIOUS
<1> USE DEF HeapInv, Free, EnterFree, memory
<1>1. PICK b \in Live : old' = b.hdr
  OBVIOUS
<1>2. Nodes' = Nodes /\ Live' = Live
  BY DEF Nodes, Live
<1>3. b \in blocks /\ b.hdr \in Addresses
  BY DEF Live, TypeOK
<1>4. freep # NULL
  BY <1>3 DEF Inner, Asked
<1>5. TypeOK'
  BY <1>1, <1>3, <1>4 DEF TypeOK
<1>6. Asked'
  BY <1>1, <1>2, <1>3, <1>4, Constants DEF Asked
<1>7. Ring' /\ Walk'
  BY <1>2, <1>4 DEF Inner, Ring, Walk
<1>8. Placed' /\ Apart' /\ Blank'
  BY DEF Inner, Placed, Apart, Blank
<1> QED
  BY <1>5, <1>6, <1>7, <1>8 DEF Inner

\* Walking on stays on the list.
LEMMA ScanNextPreserves == HeapInv /\ ScanNext => HeapInv'
<1> SUFFICES ASSUME HeapInv, ScanNext PROVE HeapInv'
  OBVIOUS
<1> USE DEF HeapInv, ScanNext, memory, call
<1>1. Nodes' = Nodes /\ Live' = Live
  BY DEF Nodes, Live
<1>2. p \in Nodes /\ next[p] \in Nodes /\ freep # NULL
  BY DEF Inner, Walk, Ring, Asked
<1>3. TypeOK'
  BY DEF TypeOK
<1> QED
  BY <1>1, <1>2, <1>3
  DEF Inner, Placed, Apart, Blank, Ring, Walk, Asked

\* The copy of realloc changes no header; it goes on to free the old block.
LEMMA CopyPreserves == HeapInv /\ Copy => HeapInv'
<1> SUFFICES ASSUME HeapInv, Copy PROVE HeapInv'
  OBVIOUS
<1> USE DEF HeapInv, Copy, EnterFree, memory, call
<1>1. Nodes' = Nodes /\ Live' = Live
  BY DEF Nodes, Live
<1>2. freep # NULL /\ old # NULL
  BY DEF Inner, Asked
<1>3. copied' \in Nat
  <2>1. PICK b \in Live : b.hdr = old
    BY <1>2 DEF Inner, Asked
  <2>2. b \in blocks /\ b.hdr \in Nat /\ b.hdr % 8 = 0
        /\ b.hdr >= 8 * ImageUnits /\ b.hdr \in Addresses
    BY Constants DEF Live, TypeOK, Inner, Placed
  <2>3. FreeHeader(old) \in Addresses
    BY <2>1, <2>2, SevenBelow, Constants DEF Addresses
  <2>4. size[FreeHeader(old)] \in Nat
    <3>1. size \in [Addresses -> 0 .. ArenaUnits]
      BY DEF TypeOK
    <3> HIDE DEF HeapInv, Copy
    <3>2. size[FreeHeader(old)] \in 0 .. ArenaUnits
      BY <2>3, <3>1
    <3> QED
      BY <3>2
  <2>5. WordSpan \in Nat /\ WordSpan > 0
    <3>1. nbytes \in Requests
      BY DEF Inner, Asked
    <3> QED
      BY <3>1, RequestAssumption, Constants
  <2>6. OldSize(size[FreeHeader(old)]) \in Nat
    <3> DEFINE u == size[FreeHeader(old)]
    <3>1. (u - 1) * 8 \in Int
      BY <2>4
    <3>2. ((u - 1) * 8) % WordSpan \in Nat
      BY <2>5, <3>1
    <3> QED
      BY <3>2 DEF OldSize
  <2> QED
    BY <2>6 DEF TypeOK
<1>4. TypeOK'
  BY <1>2, <1>3 DEF TypeOK
<1> QED
  BY <1>1, <1>2, <1>4
  DEF Inner, Placed, Apart, Blank, Ring, Walk, Asked

\* The header that free links in has size 0 and touches no other on the list,
\* so nothing is ever joined: the block is put on the list and the sizes stay.
LEMMA LinkInserts ==
  ASSUME HeapInv, Link
  PROVE  /\ p \in Nodes /\ next[p] \in Nodes /\ freep # NULL
         /\ FreeHeader(old) \in Addresses /\ FreeHeader(old) \notin Nodes
         /\ \E b \in Live : b.hdr = old
         /\ size' = size
         /\ next' = [next EXCEPT ![FreeHeader(old)] = next[p],
                                 ![p] = FreeHeader(old)]
<1>0. TypeOK /\ Inner
  BY DEF HeapInv, Link
<1> USE Constants, <1>0
<1> DEFINE bp == FreeHeader(old)
<1>1. pc = "scan" /\ old # NULL /\ freep # NULL
  BY DEF Link, Inner, Asked
<1>2. p \in Nodes /\ next[p] \in Nodes
  BY <1>1 DEF Inner, Walk, Ring
<1>3. PICK b \in Live : b.hdr = old
  BY <1>1 DEF Inner, Asked
<1>4. b \in blocks /\ b.live /\ b.hdr \in Nat /\ b.hdr % 8 = 0
      /\ b.hdr >= 8 * ImageUnits /\ b.hdr \in Addresses
  BY <1>3 DEF Live, TypeOK, Inner, Placed
<1>5. bp = old - 7 /\ bp % 8 = 1 /\ bp \in Nat /\ bp \in Addresses
  BY <1>3, <1>4, SevenBelow DEF Addresses
<1>6. bp \notin Nodes
  <2>1. bp # Arena /\ bp # Base
    BY <1>5
  <2>2. ASSUME NEW f \in blocks \ Live PROVE bp # FreeHeader(f.hdr)
    <3>1. f # b /\ f \in blocks
      BY <1>3
    <3>2. f.hdr # b.hdr
      BY <1>4, <3>1 DEF Inner, Apart, Placed, TypeOK
    <3>3. f.hdr \in Nat /\ f.hdr % 8 = 0
      BY <3>1 DEF TypeOK, Inner, Placed
    <3> QED
      BY <1>3, <1>4, <1>5, <3>2, <3>3, SevenBelow
  <2> QED
    BY <2>1, <2>2 DEF Nodes
<1>7. size[bp] = 0
  BY <1>5 DEF Inner, Blank
<1>8. p \in Addresses /\ p \in Nat /\ size[p] \in Nat
  BY DEF TypeOK
<1>9. p + 8 * size[p] # bp
  <2>1. CASE p = Arena
    BY <1>5, <1>8, <2>1
  <2>2. CASE p # Arena
    BY <1>2, <1>5, <1>6, <1>8, <2>2, NodesEmpty
  <2> QED
    BY <2>1, <2>2
<1>10. bp + 8 * size[bp] # next[p]
  BY <1>2, <1>5, <1>6, <1>7
<1>11. /\ size' = [size EXCEPT ![bp] = size[bp], ![p] = size[p]]
       /\ next' = [next EXCEPT ![bp] = next[p], ![p] = bp]
  BY <1>9, <1>10 DEF Link
<1>12. size' = size
  BY <1>5, <1>8, <1>11 DEF TypeOK
<1> QED
  BY <1>1, <1>2, <1>3, <1>5, <1>6, <1>11, <1>12

\* The list gains exactly the header of the block that is freed.
LEMMA LinkNodes ==
  ASSUME HeapInv, Link
  PROVE  Nodes' = Nodes \cup {FreeHeader(old)}
<1> DEFINE bp == FreeHeader(old)
           freed(b) == IF b.hdr = old THEN [b EXCEPT !.live = FALSE] ELSE b
<1>a. \E b \in Live : b.hdr = old
  BY LinkInserts
<1>b. blocks' = {freed(b) : b \in blocks}
  BY DEF Link
<1>c. \A b \in blocks :
        /\ freed(b) \in [hdr : Addresses, units : Nat, bytes : Requests,
                         live : BOOLEAN]
        /\ freed(b).hdr = b.hdr
        /\ freed(b).live <=> b.live /\ b.hdr # old
  BY DEF HeapInv, TypeOK
<1>1. \A h : (\E c \in blocks' : ~c.live /\ c.hdr = h) <=>
            (\E b \in blocks : ~b.live /\ b.hdr = h) \/ h = old
  <2>1. PICK b0 \in blocks : b0.hdr = old
    BY <1>a DEF Live
  <2>2. freed(b0) \in blocks' /\ ~freed(b0).live /\ freed(b0).hdr = old
    BY <1>b, <1>c, <2>1
  <2>3. ASSUME NEW c \in blocks', ~c.live
        PROVE  (\E b \in blocks : ~b.live /\ b.hdr = c.hdr) \/ c.hdr = old
    BY <1>b, <1>c, <2>3
  <2>4. ASSUME NEW b \in blocks, ~b.live
        PROVE  \E c \in blocks' : ~c.live /\ c.hdr = b.hdr
    <3>1. freed(b) \in blocks' /\ ~freed(b).live /\ freed(b).hdr = b.hdr
      BY <1>b, <1>c, <2>4
    <3> QED
      BY <3>1
  <2> QED
    BY <2>2, <2>3, <2>4
<1>2. \A a : a \in Nodes <=> \/ a = Arena \/ a = Base
                          \/ \E b \in blocks : ~b.live /\ FreeHeader(b.hdr) = a
  BY DEF Nodes, Live
<1>3. \A a : a \in Nodes' <=> \/ a = Arena \/ a = Base
                           \/ \E c \in blocks' : ~c.live /\ FreeHeader(c.hdr) = a
  BY DEF Nodes, Live
<1>4. \A a : (\E c \in blocks' : ~c.live /\ FreeHeader(c.hdr) = a) <=>
            (\E b \in blocks : ~b.live /\ FreeHeader(b.hdr) = a) \/ a = bp
  BY <1>1, Zenon
<1> QED
  BY <1>2, <1>3, <1>4

\* Putting a block on the list.
LEMMA LinkPreserves == HeapInv /\ Link => HeapInv'
<1> SUFFICES ASSUME HeapInv, Link PROVE HeapInv'
  OBVIOUS
<1>0. TypeOK /\ Inner
  BY DEF HeapInv, Link
<1> USE Constants, <1>0
<1> DEFINE bp == FreeHeader(old)
           freed(b) == IF b.hdr = old THEN [b EXCEPT !.live = FALSE] ELSE b
<1>1. /\ p \in Nodes /\ next[p] \in Nodes /\ freep # NULL /\ bp \in Addresses
      /\ \E b \in Live : b.hdr = old
      /\ size' = size /\ next' = [next EXCEPT ![bp] = next[p], ![p] = bp]
  BY LinkInserts
<1>2. /\ freep' = p /\ blocks' = {freed(b) : b \in blocks} /\ old' = NULL
      /\ pc' = "idle" /\ UNCHANGED <<nbytes, nunits, prevp, p, got, copied>>
  BY DEF Link
<1>3. p \in Addresses /\ next[p] \in Addresses
  BY DEF TypeOK
<1>4. \A b \in blocks :
        /\ freed(b) \in [hdr : Addresses, units : Nat, bytes : Requests,
                         live : BOOLEAN]
        /\ freed(b).hdr = b.hdr /\ freed(b).units = b.units
        /\ freed(b).bytes = b.bytes
        /\ freed(b).live <=> b.live /\ b.hdr # old
  BY DEF TypeOK
<1>5. TypeOK'
  <2>1. next' \in [Addresses -> Addresses]
    BY <1>1, <1>3 DEF TypeOK
  <2>2. blocks' \subseteq [hdr : Addresses, units : Nat, bytes : Requests,
                          live : BOOLEAN]
    BY <1>2, <1>4
  <2> QED
    BY <1>1, <1>2, <1>3, <2>1, <2>2 DEF TypeOK
<1>6. Placed'
  BY <1>1, <1>2, <1>4 DEF Inner, Placed
<1>7. Apart'
  <2> SUFFICES ASSUME NEW c1 \in blocks', NEW c2 \in blocks', c1 # c2
               PROVE  \/ c1.hdr + 8 * c1.units <= c2.hdr
                      \/ c2.hdr + 8 * c2.units <= c1.hdr
    BY DEF Apart
  <2>1. PICK b1 \in blocks, b2 \in blocks : c1 = freed(b1) /\ c2 = freed(b2)
    BY <1>2
  <2>2. b1 # b2
    BY <2>1
  <2> QED
    BY <1>4, <2>1, <2>2 DEF Inner, Apart
<1>8. Blank'
  BY <1>1 DEF Inner, Blank
<1>9. Nodes' = Nodes \cup {bp}
  BY LinkNodes
<1>10. Ring'
  <2>1. \A a \in Nodes : next[a] \in Nodes
    BY <1>1 DEF Inner, Ring
  <2>2. \A a \in Nodes' : a # p /\ a # bp => next'[a] = next[a]
    <3>1. Nodes \subseteq Addresses
      BY NodesOdd
    <3> QED
      BY <1>1, <1>9, <3>1 DEF TypeOK
  <2>3. next'[p] = bp /\ (bp # p => next'[bp] = next[p])
    BY <1>1, <1>3 DEF TypeOK
  <2>4. \A a \in Nodes' : next'[a] \in Nodes'
    <3> SUFFICES ASSUME NEW a \in Nodes' PROVE next'[a] \in Nodes'
      OBVIOUS
    <3>1. CASE a = p
      BY <1>9, <2>3, <3>1
    <3>2. CASE a = bp /\ a # p
      BY <1>1, <1>9, <2>3, <3>2
    <3>3. CASE a # bp /\ a # p
      BY <1>9, <2>1, <2>2, <3>3
    <3> QED
      BY <3>1, <3>2, <3>3
  <2>5. freep' \in Nodes'
    BY <1>1, <1>2, <1>9
  <2> QED
    BY <2>4, <2>5 DEF Ring
<1>11. Walk'
  BY <1>2 DEF Walk
<1>12. Asked'
  <2>1. freep' # NULL
    BY <1>2, <1>3
  <2> QED
    BY <1>2, <2>1 DEF Asked
<1> QED
  BY <1>5, <1>6, <1>7, <1>8, <1>10, <1>11, <1>12 DEF HeapInv, Inner

-----------------------------------------------------------------------------
(* The theorems                                                            *)

\* Every step preserves the invariant.
LEMMA HeapStep == HeapInv /\ [Next]_vars => HeapInv'
<1> SUFFICES ASSUME HeapInv, [Next]_vars PROVE HeapInv'
  OBVIOUS
<1>1. CASE Malloc
  BY <1>1, EnterPreserves DEF Malloc
<1>2. CASE Realloc
  <2>1. PICK n \in Requests, b \in Live : EnterMalloc(n) /\ old' = b.hdr
    BY <1>2 DEF Realloc
  <2> QED
    BY <1>2, <2>1, EnterPreserves DEF Realloc
<1>3. CASE UNCHANGED vars
  BY <1>3
  DEF vars, memory, call, HeapInv, TypeOK, Inner, Placed, Apart, Blank, Ring,
      Walk, Asked, Nodes, Live
<1> QED
  BY <1>1, <1>2, <1>3, TakeExactPreserves, TakeTailPreserves, AdvancePreserves,
     ReturnNullPreserves, FreePreserves, ScanNextPreserves, CopyPreserves,
     LinkPreserves
  DEF Next, Step

\* The invariant holds of every heap.
LEMMA HeapInvariant == Spec => []HeapInv
  BY HeapInit, HeapStep, PTL DEF Spec

\* For every segment and every sequence of calls, headers and sizes keep their
\* types: no header is read or written outside the segment.
THEOREM HeapTypes == Spec => []TypeOK
<1>1. HeapInv => TypeOK
  BY DEF HeapInv
<1> QED
  BY HeapInvariant, <1>1, PTL

\* For every segment and every sequence of calls: malloc never gives the same
\* byte to two owners, nor one outside the segment or inside the image.
THEOREM HeapDataDisjoint == Spec => []DataDisjoint
<1>1. HeapInv => DataDisjoint
  <2> SUFFICES ASSUME TypeOK, Inner, NEW b \in Live
               PROVE  /\ Data(b) \subseteq 8 * ImageUnits .. Limit - 1
                      /\ \A b2 \in Live : b # b2 => Data(b) \cap Data(b2) = {}
    BY DEF HeapInv, DataDisjoint
  <2> USE Constants DEF Data, BLOCK_PTR
  <2>1. \A c \in Live : /\ c \in blocks /\ c.hdr \in Nat /\ c.bytes \in Nat
                        /\ c.units \in Nat
                        /\ c.hdr >= 8 * ImageUnits
                        /\ c.hdr + 8 * c.units <= Limit
                        /\ c.bytes <= 8 * (c.units - 1)
    BY DEF Live, TypeOK, Inner, Placed
  <2>2. Data(b) \subseteq 8 * ImageUnits .. Limit - 1
    BY <2>1
  <2>3. ASSUME NEW b2 \in Live, b # b2 PROVE Data(b) \cap Data(b2) = {}
    <3>1. \/ b.hdr + 8 * b.units <= b2.hdr
          \/ b2.hdr + 8 * b2.units <= b.hdr
      BY <2>1, <2>3 DEF Inner, Apart
    <3>2. ASSUME NEW x \in Data(b), x \in Data(b2) PROVE FALSE
      BY <2>1, <3>1, <3>2
    <3> QED
      BY <3>2
  <2> QED
    BY <2>2, <2>3
<1> QED
  BY HeapInvariant, <1>1, PTL

\* For every segment and every sequence of calls: the headers on the free list,
\* although they lie astride two blocks, share no byte with live data.
THEOREM HeapListOffData == Spec => []ListOffData
<1>1. HeapInv => ListOffData
  <2> SUFFICES ASSUME TypeOK, Inner, NEW f \in blocks \ Live, NEW b \in Live
               PROVE  Header(f) \cap Data(b) = {}
    BY DEF HeapInv, ListOffData
  <2> USE Constants DEF Header, Data, BLOCK_PTR
  <2>1. f \in blocks /\ b \in blocks /\ f # b
    BY DEF Live
  <2>2. \A c \in blocks : /\ c.hdr \in Nat /\ c.bytes \in Nat /\ c.units \in Nat
                          /\ c.hdr % 8 = 0 /\ c.units >= 2
                          /\ c.bytes <= 8 * (c.units - 1)
    BY DEF TypeOK, Inner, Placed
  <2>3. FreeHeader(f.hdr) = f.hdr - 7
    BY <2>1, <2>2, SevenBelow
  <2>4. \/ f.hdr + 8 * f.units <= b.hdr
        \/ b.hdr + 8 * b.units <= f.hdr
    BY <2>1 DEF Inner, Apart
  <2>5. ASSUME NEW x \in Header(f), x \in Data(b) PROVE FALSE
    BY <2>1, <2>2, <2>3, <2>4, <2>5
  <2> QED
    BY <2>5
<1> QED
  BY HeapInvariant, <1>1, PTL

\* Eight below zero, in unsigned arithmetic.
LEMMA WrapsAround ==
  ASSUME NEW w \in Nat, w >= 8
  PROVE  (-8) % w = w - 8
  OBVIOUS

\* For every segment and every sequence of calls: realloc copies all that both
\* blocks hold, because the unwritten size word makes any old block look as
\* large as can be.
THEOREM HeapReallocKeepsContents == Spec => ReallocKeepsContents
<1>1. HeapInv /\ [Next]_vars =>
        [Copy /\ got # NULL =>
           LET b == BlockAt(old) IN
           copied' >= IF b.bytes < nbytes THEN b.bytes ELSE nbytes]_vars
  <2> SUFFICES ASSUME HeapInv, Copy
               PROVE  LET b == BlockAt(old) IN
                      copied' >= IF b.bytes < nbytes THEN b.bytes ELSE nbytes
    OBVIOUS
  <2>0. TypeOK /\ Inner /\ pc = "copy"
    BY DEF HeapInv, Copy
  <2> USE Constants, <2>0
  <2>1. nbytes \in Requests /\ nbytes \in Nat /\ old # NULL
    BY DEF Inner, Asked
  <2>2. PICK b \in Live : b.hdr = old
    BY <2>1 DEF Inner, Asked
  <2>3. b \in blocks /\ b.hdr \in Nat /\ b.hdr % 8 = 0
        /\ b.hdr >= 8 * ImageUnits /\ b.hdr \in Addresses
    BY <2>2 DEF Live, TypeOK, Inner, Placed
  <2>4. FreeHeader(old) \in Addresses /\ FreeHeader(old) % 8 = 1
    BY <2>2, <2>3, SevenBelow DEF Addresses
  <2>5. size[FreeHeader(old)] = 0
    BY <2>4 DEF Inner, Blank
  <2>6. WordSpan \in Nat /\ nbytes + 8 <= WordSpan
    BY <2>1, RequestAssumption
  <2>7. OldSize(0) = WordSpan - 8
    <3>1. (0 - 1) * 8 = -8 /\ WordSpan >= 8
      BY <2>1, <2>6
    <3>2. OldSize(0) = ((0 - 1) * 8) % WordSpan
      BY DEF OldSize
    <3>3. (-8) % WordSpan = WordSpan - 8
      BY <2>6, <3>1, WrapsAround
    <3> QED
      BY <3>1, <3>2, <3>3
  <2>8. copied' = nbytes
    BY <2>1, <2>5, <2>6, <2>7 DEF Copy
  <2>9. BlockAt(old) \in blocks
    BY <2>2, <2>3 DEF BlockAt
  <2>10. BlockAt(old).bytes \in Nat
    BY <2>9 DEF TypeOK
  <2> QED
    BY <2>1, <2>8, <2>10
<1> QED
  BY HeapInvariant, <1>1, PTL DEF Spec, ReallocKeepsContents
-----------------------------------------------------------------------------
(* The order of the list                                                   *)

\* The successor of a header is the next higher one, or the arena if there is
\* none.
Sorted ==
  freep # NULL =>
    \A a, m \in Nodes :
      /\ next[a] > a => ~(a < m /\ m < next[a])
      /\ next[a] <= a => next[a] = Arena /\ m <= a

\* A walk for memory that the arena has left has not passed the arena yet.
ArenaAhead ==
  pc = "search" /\ size[Arena] >= nunits => p = Arena \/ p > freep

SortedInv == pc # "trampled" => Sorted /\ ArenaAhead

\* Nothing is on the list before the first malloc.
LEMMA SortedInit == Init => SortedInv
  BY DEF Init, SortedInv, Sorted, ArenaAhead

\* The headers on the list are natural numbers, and the arena is the lowest.
LEMMA NodesOrdered ==
  ASSUME TypeOK, Inner
  PROVE  /\ Nodes \subseteq Nat /\ Arena \in Nodes
         /\ \A a \in Nodes : a # Arena => a > Arena
         /\ freep # NULL => freep \in Nat /\ \A a \in Nodes : next[a] \in Nat
<1> USE Constants
<1>1. Nodes \subseteq Nat /\ Arena \in Nodes
  <2>1. \A a \in Nodes : a # Arena /\ a # Base => a \in Addresses
    BY NodesOdd
  <2> QED
    BY <2>1 DEF Nodes
<1>2. freep # NULL => freep \in Nodes /\ \A a \in Nodes : next[a] \in Nodes
  BY DEF Inner, Ring
<1>3. \A a \in Nodes : a # Arena => a > Arena
  BY <1>1
<1>4. freep # NULL => freep \in Nat /\ \A a \in Nodes : next[a] \in Nat
  BY <1>1, <1>2
<1> QED
  BY <1>1, <1>3, <1>4

\* A walk starts behind freep, on a list that is in order.
LEMMA SortedEnter ==
  ASSUME HeapInv, SortedInv, pc = "idle", NEW n \in Requests, EnterMalloc(n)
  PROVE  Sorted' /\ ArenaAhead'
<1>0. TypeOK /\ Inner
  BY DEF HeapInv
<1> USE <1>0, Constants
<1>1. CASE freep = NULL
  <2>1. /\ next' = [next EXCEPT ![Arena] = Base, ![Base] = Arena]
        /\ p' = Arena /\ blocks' = blocks
    BY <1>1 DEF EnterMalloc
  <2>2. blocks = {}
    BY <1>1 DEF Inner, Asked
  <2>3. Nodes' = {Arena, Base}
    BY <2>1, <2>2 DEF Nodes, Live
  <2>4. next'[Arena] = Base /\ next'[Base] = Arena
    BY <2>1 DEF TypeOK
  <2> QED
    BY <2>1, <2>3, <2>4 DEF Sorted, ArenaAhead
<1>2. CASE freep # NULL
  <2>1. /\ UNCHANGED <<next, freep, blocks>> /\ p' = next[freep]
    BY <1>2 DEF EnterMalloc, memory
  <2>2. Nodes' = Nodes
    BY <2>1 DEF Nodes, Live
  <2>3. Sorted
    BY DEF SortedInv
  <2>4. freep \in Nodes /\ freep \in Nat /\ next[freep] \in Nat
    BY <1>2, NodesOrdered DEF Inner, Ring
  <2>5. next[freep] = Arena \/ next[freep] > freep
    BY <1>2, <2>3, <2>4 DEF Sorted
  <2> QED
    BY <2>1, <2>2, <2>3, <2>5 DEF Sorted, ArenaAhead
<1> QED
  BY <1>1, <1>2

\* Walking on goes up, or from the highest header to the arena.
LEMMA SortedAdvance ==
  ASSUME HeapInv, SortedInv, Advance PROVE Sorted' /\ ArenaAhead'
<1>0. TypeOK /\ Inner
  BY DEF HeapInv, Advance
<1> USE <1>0
<1>1. /\ UNCHANGED <<next, size, freep, blocks, nunits>> /\ p' = next[p]
      /\ size[p] < nunits /\ pc = "search"
  BY DEF Advance, memory, call
<1>2. Nodes' = Nodes
  BY <1>1 DEF Nodes, Live
<1>3. Sorted /\ ArenaAhead
  BY <1>1 DEF SortedInv
<1>4. p \in Nodes /\ freep # NULL
  BY <1>1 DEF Inner, Walk, Asked
<1>5. p \in Nat /\ freep \in Nat /\ next[p] \in Nat
  BY <1>4, NodesOrdered
<1>6. next[p] = Arena \/ next[p] > p
  BY <1>3, <1>4, <1>5 DEF Sorted
<1>7. size[Arena] >= nunits => p > freep
  <2>1. size[Arena] \in Nat /\ nunits \in Nat
    BY Constants DEF TypeOK
  <2> QED
    BY <1>1, <1>3, <2>1 DEF ArenaAhead
<1>8. size[Arena] >= nunits => next[p] = Arena \/ next[p] > freep
  BY <1>5, <1>6, <1>7
<1>9. ArenaAhead'
  BY <1>1, <1>8 DEF ArenaAhead
<1> QED
  BY <1>1, <1>2, <1>3, <1>9 DEF Sorted

\* free puts a header between the two that its address lies between.
LEMMA SortedLink ==
  ASSUME HeapInv, SortedInv, Link PROVE Sorted' /\ ArenaAhead'
<1>0. TypeOK /\ Inner /\ Sorted
  BY DEF HeapInv, SortedInv, Link
<1> USE <1>0
<1> DEFINE bp == FreeHeader(old)
<1>1. /\ p \in Nodes /\ next[p] \in Nodes /\ freep # NULL /\ bp \in Addresses
      /\ next' = [next EXCEPT ![bp] = next[p], ![p] = bp]
  BY LinkInserts
<1>2. Nodes' = Nodes \cup {bp} /\ bp \notin Nodes
  BY LinkNodes, LinkInserts
<1>3. Fits(bp, p) /\ pc' = "idle"
  BY DEF Link
<1>4. /\ Nodes \subseteq Nat /\ \A a \in Nodes : next[a] \in Nat
      /\ bp \in Nat /\ p \in Nat /\ next[p] \in Nat /\ bp # p
  BY <1>1, <1>2, NodesOrdered, Constants
<1>5. next'[p] = bp /\ next'[bp] = next[p]
  <2>1. next \in [Addresses -> Addresses] /\ p \in Addresses
    BY DEF TypeOK
  <2> QED
    BY <1>1, <1>4, <2>1
<1>6. \A a \in Nodes : a # p => next'[a] = next[a]
  <2>1. Nodes \subseteq Addresses
    BY NodesOdd, Constants
  <2> QED
    BY <1>1, <1>2, <2>1 DEF TypeOK
<1>7. \/ bp > p /\ bp < next[p]
      \/ bp > p /\ next[p] = Arena /\ \A m \in Nodes : m <= p
  <2>1. CASE bp > p /\ bp < next[p]
    BY <2>1
  <2>2. CASE next[p] <= p
    <3>1. next[p] = Arena /\ \A m \in Nodes : m <= p
      BY <1>1, <2>2 DEF Sorted
    <3> QED
      BY <1>3, <1>4, <2>2, <3>1 DEF Fits
  <2> QED
    BY <1>3, <1>4, <2>1, <2>2 DEF Fits
<1> HIDE DEF bp
<1>8. \A a, m \in Nodes :
        /\ next[a] > a => ~(a < m /\ m < next[a])
        /\ next[a] <= a => next[a] = Arena /\ m <= a
  BY <1>1 DEF Sorted
<1>9. ASSUME NEW a \in Nodes, a # p
      PROVE  /\ next[a] > a => ~(a < bp /\ bp < next[a])
             /\ next[a] <= a => bp <= a
  <2>1. a \in Nat /\ next[a] \in Nat
    BY <1>4
  <2>2. /\ next[a] > a => ~(a < p /\ p < next[a])
        /\ next[a] <= a => p <= a
    BY <1>1, <1>8
  <2>3. next[p] > p => ~(p < a /\ a < next[p])
    BY <1>1, <1>8
  <2>4. next[a] <= a => next[p] <= a
    BY <1>1, <1>8
  <2>5. \/ bp > p /\ bp < next[p]
        \/ bp > p /\ a <= p
    BY <1>7
  <2> QED
    BY <1>4, <1>9, <2>1, <2>2, <2>3, <2>4, <2>5
<1>10. ASSUME NEW a \in Nodes \cup {bp}, NEW m \in Nodes \cup {bp}
       PROVE  /\ next'[a] > a => ~(a < m /\ m < next'[a])
              /\ next'[a] <= a => next'[a] = Arena /\ m <= a
  <2>0. a \in Nat /\ m \in Nat
    BY <1>4
  <2>1. CASE a = p
    <3>1. m \in Nodes => ~(p < m /\ m < bp)
      BY <1>1, <1>4, <1>7, <1>8, <2>0
    <3> QED
      BY <1>4, <1>5, <1>7, <2>0, <2>1, <3>1
  <2>2. CASE a = bp
    <3>1. m \in Nodes => /\ next[p] > p => ~(p < m /\ m < next[p])
                         /\ next[p] <= p => m <= p
      BY <1>1, <1>8
    <3> QED
      BY <1>4, <1>5, <1>7, <2>0, <2>2, <3>1
  <2>3. CASE a \in Nodes /\ a # p
    <3>1. next'[a] = next[a] /\ next[a] \in Nat
      BY <1>4, <1>6, <2>3
    <3> QED
      BY <1>8, <1>9, <2>3, <3>1
  <2> QED
    BY <2>1, <2>2, <2>3
<1>11. Sorted'
  BY <1>2, <1>10 DEF Sorted
<1>12. ArenaAhead'
  BY <1>3 DEF ArenaAhead
<1> QED
  BY <1>11, <1>12

\* Every other step leaves the list as it is.
LEMMA SortedRest ==
  ASSUME HeapInv, SortedInv,
         TakeTail \/ ReturnNull \/ Free \/ ScanNext \/ Copy, pc' # "trampled"
  PROVE  Sorted' /\ ArenaAhead'
<1>1. pc # "trampled"
  BY DEF TakeTail, ReturnNull, Free, ScanNext, Copy
<1>2. UNCHANGED next /\ Nodes' = Nodes
  <2>1. CASE TakeTail
    <3>1. blocks' \ Live' = blocks \ Live
      BY <2>1 DEF TakeTail, Give, Live
    <3> QED
      BY <2>1, <3>1 DEF TakeTail, Nodes
  <2>2. CASE ReturnNull \/ Free \/ ScanNext \/ Copy
    BY <2>2 DEF ReturnNull, Free, ScanNext, Copy, memory, Nodes, Live
  <2> QED
    BY <2>1, <2>2
<1>3. freep # NULL
  BY <1>1 DEF TakeTail, ReturnNull, Free, ScanNext, Copy, HeapInv, Inner, Asked, Live
<1>4. pc' # "search"
  BY DEF TakeTail, ReturnNull, Free, ScanNext, Copy, Give, Return, EnterFree
<1>5. Sorted
  BY <1>1 DEF SortedInv
<1>6. Sorted'
  BY <1>2, <1>3, <1>5 DEF Sorted
<1> QED
  BY <1>4, <1>6 DEF ArenaAhead

\* Every step keeps the list in order.
LEMMA SortedStep == HeapInv /\ SortedInv /\ [Next]_vars => SortedInv'
<1> SUFFICES ASSUME HeapInv, SortedInv, [Next]_vars, pc' # "trampled"
             PROVE  Sorted' /\ ArenaAhead'
  BY DEF SortedInv
<1>1. CASE Malloc \/ Realloc
  BY <1>1, SortedEnter DEF Malloc, Realloc
<1>2. CASE TakeExact
  <2>1. p = Arena
    <3>1. size[p] >= nunits /\ pc = "search"
      BY <1>2, Constants DEF TakeExact, HeapInv, TypeOK
    <3> QED
      BY <3>1, OnlyArena
  <2> QED
    BY <1>2, <2>1, Constants DEF TakeExact, Give
<1>3. CASE UNCHANGED vars
  BY <1>3 DEF vars, memory, call, SortedInv, Sorted, ArenaAhead, Nodes, Live
<1> QED
  BY <1>1, <1>2, <1>3, SortedAdvance, SortedLink, SortedRest DEF Next, Step

\* For every segment and every sequence of calls: between calls the free list
\* is one ring through all of its headers in the order of their addresses.
THEOREM HeapSortedRing == Spec => []SortedRing
<1>1. HeapInv /\ SortedInv => SortedRing
  <2> SUFFICES ASSUME TypeOK, Inner, Sorted, pc = "idle", freep # NULL
               PROVE  /\ freep \in Nodes
                      /\ \A a \in Nodes :
                           IF \E n \in Nodes : n > a
                           THEN next[a] = CHOOSE n \in Nodes :
                                  /\ n > a
                                  /\ \A m \in Nodes : m > a => n <= m
                           ELSE next[a] = Arena
    BY DEF HeapInv, SortedInv, SortedRing
  <2> SUFFICES ASSUME NEW a \in Nodes
               PROVE  /\ freep \in Nodes
                      /\ IF \E n \in Nodes : n > a
                         THEN next[a] = CHOOSE n \in Nodes :
                                /\ n > a
                                /\ \A m \in Nodes : m > a => n <= m
                         ELSE next[a] = Arena
    BY DEF Inner, Ring
  <2>1. freep \in Nodes /\ next[a] \in Nodes
    BY DEF Inner, Ring
  <2>2. Nodes \subseteq Nat /\ a \in Nat /\ next[a] \in Nat
    BY <2>1, NodesOrdered
  <2>3. CASE \E n \in Nodes : n > a
    <3>1. next[a] > a
      <4>1. PICK n \in Nodes : n > a
        BY <2>3
      <4>2. n \in Nat /\ ~(next[a] <= a)
        BY <2>2, <4>1 DEF Sorted
      <4> QED
        BY <2>2, <4>2
    <3>2. \A m \in Nodes : m > a => next[a] <= m
      BY <2>2, <3>1 DEF Sorted
    <3>3. \A n \in Nodes : n > a /\ (\A m \in Nodes : m > a => n <= m)
                            => n = next[a]
      BY <2>1, <2>2, <3>1, <3>2
    <3> QED
      BY <2>1, <2>3, <3>1, <3>2, <3>3
  <2>4. CASE ~ \E n \in Nodes : n > a
    BY <2>1, <2>2, <2>4 DEF Sorted
  <2> QED
    BY <2>1, <2>3, <2>4
<1> QED
  BY HeapInit, HeapStep, SortedInit, SortedStep, <1>1, PTL DEF Spec

\* For every segment and every sequence of calls: malloc returns NULL only if
\* what is left of the arena is too small, wherever the walk began.
THEOREM HeapNullOnlyWhenFull == Spec => NullOnlyWhenFull
<1>1. HeapInv /\ SortedInv /\ [Next]_vars =>
        [ReturnNull => size[Arena] < nunits]_vars
  <2> SUFFICES ASSUME HeapInv, SortedInv, ReturnNull PROVE size[Arena] < nunits
    OBVIOUS
  <2>1. TypeOK /\ ArenaAhead /\ pc = "search" /\ p = freep /\ size[p] < nunits
    BY DEF HeapInv, SortedInv, ReturnNull, Wrapped
  <2>2. size[Arena] \in Nat /\ nunits \in Nat /\ p \in Nat
    BY <2>1, Constants DEF TypeOK
  <2> QED
    BY <2>1, <2>2 DEF ArenaAhead
<1> QED
  BY HeapInit, HeapStep, SortedInit, SortedStep, <1>1, PTL DEF Spec, NullOnlyWhenFull
=============================================================================
