-------------------------------- MODULE Heap --------------------------------
(***************************************************************************)
(* malloc, free and realloc (libc/stdlib.c) over the memory segment that   *)
(* memory_init found.                                                      *)
(*                                                                         *)
(* Addresses are byte offsets from memory_ptr().  A header is eight bytes, *)
(* a next pointer and a size.  BLOCK_PTR adds one BYTE, not one header, to *)
(* the address of a block, and PTR_BLOCK takes off one header: free works  *)
(* on a header that starts seven bytes in front of the one malloc wrote,   *)
(* and whose size word nobody ever wrote.  The model keeps next and size   *)
(* at every address at which the code can see a header.                    *)
(*                                                                         *)
(* The segment also holds the kernel image, at its start: the first Header *)
(* is laid over it, and base lies inside it.  A block carved out of the    *)
(* image overwrites the kernel; the model stops there ("trampled").        *)
(***************************************************************************)
EXTENDS Integers, FiniteSets

CONSTANTS
  ArenaUnits,   \* memory_size() / BLOCKSIZ
  ImageUnits,   \* units of the segment that the kernel image occupies
  Base,         \* offset of the variable base
  Requests,     \* sizes the callers ask for
  WordSpan,     \* 2^32: unsigned int arithmetic is modulo this
  MaxBlocks     \* bound: blocks allocated in one behaviour

BLOCKSIZ == 8

ASSUME ArenaAssumption ==
  /\ ImageUnits \in Nat /\ ImageUnits >= 2
  /\ ArenaUnits \in Nat /\ ArenaUnits > ImageUnits
ASSUME BaseAssumption ==
  /\ Base \in Nat /\ Base % BLOCKSIZ = 0
  /\ BLOCKSIZ <= Base /\ Base <= BLOCKSIZ * (ImageUnits - 1)
\* Lua refuses sizes near 2^32 itself (MAX_SIZET), so rounding up cannot wrap.
ASSUME RequestAssumption ==
  /\ Requests \subseteq Nat \ {0}
  /\ WordSpan \in Nat
  /\ \A n \in Requests : n + BLOCKSIZ <= WordSpan
ASSUME BoundAssumption == MaxBlocks \in Nat

VARIABLES
  next, size,     \* the two words of each header
  freep,          \* start of the free list
  blocks,         \* history: every block that malloc has returned
  pc,             \* idle, search (in malloc), copy (in realloc), scan (in
                  \* free), trampled
  nbytes, nunits, \* the size asked for
  prevp, p,       \* the locals with which malloc and free walk the list
  got,            \* the block the last malloc returned, or NULL
  old,            \* the block being reallocated or freed, or NULL
  copied          \* bytes the last realloc has copied

memory == <<next, size, freep>>
call   == <<nbytes, nunits, old>>
vars   == <<memory, blocks, pc, call, prevp, p, got, copied>>

NULL  == -1
Arena == 0                              \* the header laid over the segment
Limit == BLOCKSIZ * ArenaUnits
Addresses == 0 .. Limit - 1

\* RAM that nothing has written; free takes a block's size from such a word.
Residue == 0

\* Mutant: rounded down.
BLOCK_ALIGN_Down(n) == n \div BLOCKSIZ + 1
\* Units for n bytes and a header.
BLOCK_ALIGN(n) == (n + BLOCKSIZ - 1) \div BLOCKSIZ + 1

BLOCK_PTR(b) == b + 1          \* (void *) b + 1
PTR_BLOCK(a) == a - BLOCKSIZ   \* (Header *) a - 1

\* The header that free and realloc see for the block at address h.
FreeHeader(h) == PTR_BLOCK(BLOCK_PTR(h))

Live == {b \in blocks : b.live}
BlockAt(h) == CHOOSE b \in blocks : b.hdr = h

TypeOK ==
  /\ next \in [Addresses -> Addresses]
  /\ size \in [Addresses -> 0 .. ArenaUnits]
  /\ freep \in Addresses \cup {NULL}
  /\ blocks \subseteq [hdr : Addresses, units : Nat, bytes : Requests,
                       live : BOOLEAN]
  /\ pc \in {"idle", "search", "copy", "scan", "trampled"}
  /\ nbytes \in Nat /\ nunits \in Nat
  /\ prevp \in Addresses /\ p \in Addresses
  /\ got \in Addresses \cup {NULL}
  /\ old \in Addresses \cup {NULL}
  /\ copied \in Nat

Init ==
  /\ next = [a \in Addresses |-> Residue]
  /\ size = [a \in Addresses |-> Residue]
  /\ freep = NULL
  /\ blocks = {}
  /\ pc = "idle"
  /\ nbytes = 0 /\ nunits = 0
  /\ prevp = Arena /\ p = Arena
  /\ got = NULL /\ old = NULL
  /\ copied = 0

-----------------------------------------------------------------------------
(* malloc                                                                  *)

\* The first call lays the header of the whole segment down and links it to
\* base; every call starts its walk behind freep.
EnterMalloc(n) ==
  /\ nbytes' = n
  /\ nunits' = BLOCK_ALIGN(n)
  /\ pc' = "search"
  /\ got' = NULL
  /\ IF freep = NULL
     THEN /\ next' = [next EXCEPT ![Arena] = Base, ![Base] = Arena]
          /\ size' = [size EXCEPT ![Arena] = ArenaUnits, ![Base] = 0]
          /\ freep' = Base /\ prevp' = Base /\ p' = Arena
     ELSE /\ prevp' = freep /\ p' = next[freep]
          /\ UNCHANGED memory
  /\ UNCHANGED <<blocks, copied>>

\* malloc(0) returns NULL and changes nothing, so only n > 0 is a step.
Malloc ==
  /\ pc = "idle"
  /\ Cardinality(blocks) < MaxBlocks
  /\ \E n \in Requests : EnterMalloc(n)
  /\ old' = NULL

\* The end of malloc: back in the caller, or in realloc.
Return == pc' = IF old = NULL THEN "idle" ELSE "copy"

\* The block at h is the caller's; freep moves behind it.
Give(h) ==
  /\ got' = h
  /\ blocks' = blocks \cup
       {[hdr |-> h, units |-> nunits, bytes |-> nbytes, live |-> TRUE]}
  /\ freep' = prevp
  /\ IF h < BLOCKSIZ * ImageUnits THEN pc' = "trampled" ELSE Return
  /\ UNCHANGED <<call, prevp, p, copied>>

TakeExact ==
  /\ pc = "search"
  /\ size[p] = nunits
  /\ next' = [next EXCEPT ![prevp] = next[p]]
  /\ UNCHANGED size
  /\ Give(p)

\* Mutant: the free block is not made smaller.
RemainingAll(q) == size[q]
\* Units left of the free block q, and the address behind them.
Remaining(q) == size[q] - nunits
TailBlock(q) == q + BLOCKSIZ * Remaining(q)

TakeTail ==
  /\ pc = "search"
  /\ size[p] > nunits
  /\ size' = [size EXCEPT ![p] = Remaining(p), ![TailBlock(p)] = nunits]
  /\ UNCHANGED next
  /\ Give(TailBlock(p))

\* Mutant: the walk ends at the highest address.
WrappedAtTop(q) == q >= next[q]
\* Has the walk come back to where it started?
Wrapped(q) == q = freep

Advance ==
  /\ pc = "search"
  /\ size[p] < nunits
  /\ ~Wrapped(p)
  /\ prevp' = p
  /\ p' = next[p]
  /\ UNCHANGED <<memory, blocks, pc, call, got, copied>>

ReturnNull ==
  /\ pc = "search"
  /\ size[p] < nunits
  /\ Wrapped(p)
  /\ Return
  /\ UNCHANGED <<memory, blocks, call, prevp, p, got, copied>>

-----------------------------------------------------------------------------
(* free                                                                    *)

\* for (p = freep; ...
EnterFree ==
  /\ pc' = "scan"
  /\ p' = freep

\* free(ptr) for a live block; realloc(ptr, 0) comes to the same.
Free ==
  /\ pc = "idle"
  /\ \E b \in Live : old' = b.hdr
  /\ EnterFree
  /\ UNCHANGED <<memory, blocks, nbytes, nunits, prevp, got, copied>>

\* Mutant: the place in the list is not searched for.
FitsAnywhere(bp, q) == TRUE
\* Mutant: no case for a block beyond either end of the list.
BetweenOnly(bp, q) == bp > q /\ bp < next[q]
\* bp belongs between q and its successor, or q is the last block of the list
\* and bp lies beyond one end of it.
Fits(bp, q) ==
  \/ bp > q /\ bp < next[q]
  \/ q >= next[q] /\ (bp > q \/ bp < next[q])

ScanNext ==
  /\ pc = "scan"
  /\ ~Fits(FreeHeader(old), p)
  /\ p' = next[p]
  /\ UNCHANGED <<memory, blocks, pc, call, prevp, got, copied>>

\* Insert the block behind p, joining it to its neighbours in memory.
Link ==
  LET bp    == FreeHeader(old)
      after == next[p]
      upper == bp + BLOCKSIZ * size[bp] = after
      bsize == IF upper THEN size[bp] + size[after] ELSE size[bp]
      bnext == IF upper THEN next[after] ELSE after
      lower == p + BLOCKSIZ * size[p] = bp
  IN  /\ pc = "scan"
      /\ Fits(bp, p)
      /\ size' = [size EXCEPT ![bp] = bsize,
                              ![p] = IF lower THEN @ + bsize ELSE @]
      /\ next' = [next EXCEPT ![bp] = bnext,
                              ![p] = IF lower THEN bnext ELSE bp]
      /\ freep' = p
      /\ blocks' = {IF b.hdr = old THEN [b EXCEPT !.live = FALSE] ELSE b :
                      b \in blocks}
      /\ old' = NULL
      /\ pc' = "idle"
      /\ UNCHANGED <<nbytes, nunits, prevp, p, got, copied>>

-----------------------------------------------------------------------------
(* realloc                                                                 *)

\* realloc(ptr, n) for a live block: a malloc, a copy and a free.
Realloc ==
  /\ pc = "idle"
  /\ Cardinality(blocks) < MaxBlocks
  /\ \E n \in Requests, b \in Live : EnterMalloc(n) /\ old' = b.hdr

\* Mutant: the sizes are signed.
OldSizeSigned(units) == (units - 1) * BLOCKSIZ
\* Mutant: the subtraction saturates instead of wrapping.
OldSizeSaturated(units) ==
  IF units = 0 THEN 0 ELSE ((units - 1) * BLOCKSIZ) % WordSpan
\* The bytes realloc takes a block of so many units to hold: unsigned int, so
\* a size word of 0 makes it as large as can be.
OldSize(units) == ((units - 1) * BLOCKSIZ) % WordSpan

\* memcpy and memset write the new block, or, when malloc has failed, memory
\* at address 0, which is outside the segment; then the old block is freed.
Copy ==
  LET bsize == OldSize(size[FreeHeader(old)])
  IN  /\ pc = "copy"
      /\ copied' = IF nbytes > bsize THEN bsize ELSE nbytes
      /\ EnterFree
      /\ UNCHANGED <<memory, blocks, call, prevp, got>>

-----------------------------------------------------------------------------
Step == TakeExact \/ TakeTail \/ Advance \/ ReturnNull \/ ScanNext \/ Link \/ Copy

Next == Malloc \/ Free \/ Realloc \/ Step

Spec == Init /\ [][Next]_vars

\* A call runs until it returns.
FairSpec == Spec /\ WF_vars(Step)

-----------------------------------------------------------------------------
(* Properties                                                              *)

\* The bytes of a block that its owner may use.
Data(b)  == BLOCK_PTR(b.hdr) .. BLOCK_PTR(b.hdr) + b.bytes - 1

\* The bytes of the header that free has put on the list for a block.
Header(b) == FreeHeader(b.hdr) .. FreeHeader(b.hdr) + BLOCKSIZ - 1

\* malloc never gives memory away twice: the bytes that two callers may use
\* are different, in the segment, above the kernel, and off the first header.
DataDisjoint ==
  pc # "trampled" =>
    \A b \in Live :
      /\ Data(b) \subseteq BLOCKSIZ * ImageUnits .. Limit - 1
      /\ \A b2 \in Live : b # b2 => Data(b) \cap Data(b2) = {}

\* The headers on which free builds its list lie astride two blocks.  They
\* still never share a byte with the data of any live block, so neither does
\* the list damage data nor does data damage the list.
ListOffData ==
  pc # "trampled" =>
    \A f \in blocks \ Live, b \in Live :
      Header(f) \cap Data(b) = {}

\* Headers that should be on the list.
Nodes == {Arena, Base} \cup {FreeHeader(b.hdr) : b \in blocks \ Live}

\* Between calls the free list is one ring through all of its headers, in the
\* order of their addresses: no header is lost and the arena can be found.
SortedRing ==
  pc = "idle" /\ freep # NULL =>
    /\ freep \in Nodes
    /\ \A a \in Nodes :
         IF \E n \in Nodes : n > a
         THEN next[a] = CHOOSE n \in Nodes :
                /\ n > a
                /\ \A m \in Nodes : m > a => n <= m
         ELSE next[a] = Arena

\* malloc returns NULL only if the unallocated part of the arena, wherever it
\* is on the list and wherever the walk started, is too small.
NullOnlyWhenFull == [][ReturnNull => size[Arena] < nunits]_vars

\* realloc carries the contents over: although it reads the old block's size
\* from a word that was never written, it copies as much as both blocks hold.
ReallocKeepsContents ==
  [][Copy /\ got # NULL =>
       LET b == BlockAt(old) IN
       copied' >= IF b.bytes < nbytes THEN b.bytes ELSE nbytes]_vars

\* Every call returns: the walks of malloc and free round the ring end.
CallsReturn == pc # "idle" ~> pc \in {"idle", "trampled"}

\* free is documented to "put block ap in free list": a malloc that gives up
\* because there are "no blocks left" should not have passed over a freed
\* block large enough for it.
FreedIsReusable ==
  [][ReturnNull => \A b \in blocks \ Live : b.units < nunits]_vars

\* lmem.c relies on it that "any reallocation to an equal or smaller size
\* cannot fail!".
ShrinkNeverFails ==
  [][ReturnNull /\ old # NULL => nbytes > BlockAt(old).bytes]_vars
=============================================================================
