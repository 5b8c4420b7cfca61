------------------------------- MODULE StrLib -------------------------------
(***************************************************************************)
(* libc/string.c, the string helpers of kernel/stream.c, and the two       *)
(* places in Lua whose meaning hangs on them: the order of strings         *)
(* (lvm.c) and luaL_gsub (lauxlib.c), which expands package.path.          *)
(*                                                                         *)
(* A C string is the sequence of its bytes without the terminator.  A      *)
(* pointer into it is an offset, NULL is -1.  char is signed on x86.       *)
(* Functions that only read are operators; functions that write are        *)
(* actions on an array of MemSize bytes.  A behaviour is one call, chosen  *)
(* from bounded inputs, or the calls of strtok that take a string apart.   *)
(***************************************************************************)
EXTENDS Integers, Sequences, SequencesExt, FiniteSetsExt

CONSTANTS
  Chars,      \* bytes other than NUL, at least one above 127
  MaxStr,     \* bound: length of a string
  MemSize,    \* bytes of the array
  WordSize    \* sizeof(long)

ASSUME CharsAssumption == Chars \subseteq 1 .. 255 /\ Chars # {}
ASSUME SizesAssumption == MaxStr \in Nat /\ MemSize \in Nat /\ WordSize \in Nat \ {0}

VARIABLES
  strCall,    \* the call: [fn, a, b, d, s, n]: strings, or offsets of
              \* the destination and the source, and a length
  strMem,     \* the array
  tokLast,    \* static char *last of strtok: an offset into tokBuf, or NULL
  tokBuf,     \* the string strtok takes apart
  tokens      \* history: the tokens strtok has returned

strVars == <<strCall, strMem, tokLast, tokBuf, tokens>>

NUL == 0
NULL == -1
CStrings   == BoundedSeq(Chars, MaxStr)
LuaStrings == BoundedSeq(Chars \cup {NUL}, MaxStr)   \* may contain NUL
NoStrCall  == [fn |-> "none", a |-> <<>>, b |-> <<>>, d |-> 0, s |-> 0, n |-> 0]

Signed(c) == IF c > 127 THEN c - 256 ELSE c
At(s, i) == IF i < Len(s) THEN s[i + 1] ELSE NUL
From(s, i) == SubSeq(s, i + 1, Len(s))
Upto(s, i) == SubSeq(s, 1, i)
\* Loops that walk a string stop at the first offset with a property.
FirstOffset(n, P(_)) ==
  IF \E i \in 0 .. n - 1 : P(i) THEN Min({i \in 0 .. n - 1 : P(i)}) ELSE n

-----------------------------------------------------------------------------
(* Comparison                                                              *)

\* The comparison of unequal lengths tests the same condition twice: the
\* branch for a longer first string is never taken.
strcmp_Fixed(a, b) ==
  LET m == Min({Len(a), Len(b)})
      i == FirstOffset(m, LAMBDA j : At(a, j) # At(b, j))
  IN  Signed(At(a, i)) - Signed(At(b, i))
strcmp(a, b) ==
  LET m == Min({Len(a), Len(b)})
      i == FirstOffset(m, LAMBDA j : At(a, j) # At(b, j))
  IN  IF i < m THEN Signed(At(a, i)) - Signed(At(b, i))
      ELSE IF i = Len(a) /\ i < Len(b) THEN 0 - Signed(At(b, i))
      ELSE 0
strncmp(a, b, n) ==
  LET i == FirstOffset(n, LAMBDA j : At(a, j) # At(b, j) \/ At(a, j) = NUL)
  IN  IF i = n THEN 0 ELSE At(a, i) - At(b, i)

\* strcoll is strcmp.  l and r may contain NUL; offsets only grow, and
\* nothing keeps them inside the strings.
CStr(s) == Upto(s, FirstOffset(Len(s), LAMBDA j : At(s, j) = NUL))
Outside == 1000   \* goes on reading behind r: any result
RECURSIVE l_strcmp(_, _)
l_strcmp(l, r) ==
  LET temp == strcmp(CStr(l), CStr(r))
      len  == Len(CStr(l))
  IN  IF temp # 0 THEN temp
      ELSE IF len = Len(r) THEN IF len = Len(l) THEN 0 ELSE 1
      ELSE IF len = Len(l) THEN -1
      ELSE IF len + 1 > Len(r) THEN Outside
      ELSE l_strcmp(From(l, len + 1), From(r, len + 1))
LuaLess(l, r) == l_strcmp(l, r) < 0

-----------------------------------------------------------------------------
(* Searching.  memchr compares unsigned bytes with an int, the others      *)
(* signed chars.                                                           *)

Found(i, n) == IF i = n THEN NULL ELSE i
memchr_Signed(s, c, n) == Found(FirstOffset(n, LAMBDA j : Signed(At(s, j)) = c), n)
memchr(s, c, n) == Found(FirstOffset(n, LAMBDA j : At(s, j) = c), n)
strchr(s, c) ==
  Found(FirstOffset(Len(s) + 1, LAMBDA j : Signed(At(s, j)) = c), Len(s) + 1)
strrchr(s, c) ==
  Max({NULL} \cup {j \in 0 .. Len(s) : Signed(At(s, j)) = c})
strcspn(s, set) == FirstOffset(Len(s), LAMBDA j : At(s, j) \in Range(set))
strspn(s, set) == FirstOffset(Len(s), LAMBDA j : At(s, j) \notin Range(set))
strpbrk(s, set) == Found(strcspn(s, set), Len(s))
\* The test is the wrong way round: the first tail that does not begin with
\* the string looked for is returned.
strstr_Fixed(s, p) ==
  LET n == Len(s) - Len(p) + 1
  IN  IF n <= 0 THEN NULL
      ELSE Found(FirstOffset(n, LAMBDA j : strcmp(From(s, j), p) = 0), n)
strstr(s, p) ==
  LET n == Len(s) - Len(p) + 1
  IN  IF n <= 0 THEN NULL
      ELSE Found(FirstOffset(n, LAMBDA j : strcmp(From(s, j), p) # 0), n)

RECURSIVE luaL_gsub(_, _, _)
luaL_gsub(s, p, r) ==
  LET wild == strstr(s, p)
  IN  IF wild = NULL THEN s
      ELSE Upto(s, wild) \o r \o luaL_gsub(From(s, wild + Len(p)), p, r)

-----------------------------------------------------------------------------
(* Copying: byte by byte, in the order of the source.                      *)

CopyInOrder(m, d, s, order) ==
  FoldLeft(LAMBDA mem, i : [mem EXCEPT ![d + i] = mem[s + i]], m, order)
Forwards(n) == [i \in 1 .. n |-> i - 1]
memcpy(m, d, s, n) == CopyInOrder(m, d, s, Forwards(n))
\* Downwards by words when everything is aligned.
Words(m, d, s, order) ==
  FoldLeft(LAMBDA mem, w :
             [i \in DOMAIN mem |->
                IF i - d \in w * WordSize .. w * WordSize + WordSize - 1
                THEN mem[s + i - d] ELSE mem[i]],
           m, order)
memmove_Forwards(m, d, s, n) == memcpy(m, d, s, n)
memmove(m, d, s, n) ==
  IF d < s THEN memcpy(m, d, s, n)
  ELSE IF \A x \in {d, s, n} : x % WordSize = 0
       THEN Words(m, d, s, Reverse(Forwards(n \div WordSize)))
       ELSE CopyInOrder(m, d, s, Reverse(Forwards(n)))

strlen(m, p) == Min({n \in 0 .. MemSize - p - 1 : m[p + n] = NUL})
memset(m, d, v, n) ==
  [i \in DOMAIN m |-> IF i \in d .. d + n - 1 THEN v ELSE m[i]]
strcpy(m, d, s) == memcpy(m, d, s, strlen(m, s) + 1)
strcat(m, d, s) == strcpy(m, d + strlen(m, d), s)
\* strncpy pads what is left of n with NUL; nothing left, no terminator.
strncpy(m, d, s, n) ==
  LET l == Min({strlen(m, s), n})
  IN  memset(memcpy(m, d, s, l), d + l, NUL, n - l)
strncat_Terminates(m, d, s, n) ==
  memset(strncpy(m, d + strlen(m, d), s, n), d + strlen(m, d) + n, NUL, 1)
strncat(m, d, s, n) == strncpy(m, d + strlen(m, d), s, n)
\* strlcpy and strlcat always terminate when there is any room.
strlcpy(m, d, s, n) ==
  LET l == Min({strlen(m, s), n - 1})
  IN  IF n = 0 THEN m ELSE memset(memcpy(m, d, s, l), d + l, NUL, 1)
strlcat(m, d, s, n) ==
  LET dlen == Min({strlen(m, d), n})
  IN  strlcpy(m, d + dlen, s, n - dlen)

-----------------------------------------------------------------------------
(* strtok: writes NUL behind the token and remembers where to go on.       *)

\* Where the next token begins and ends; NUL stops both scans.
TokStart(s, p, delim) ==
  p + FirstOffset(Len(s) - p, LAMBDA j : At(s, p + j) \notin Range(delim))
TokEnd(s, p, delim) ==
  p + FirstOffset(Len(s) - p, LAMBDA j : At(s, p + j) \in Range(delim) \cup {NUL})
Resume_AtDelimiter(s, w) == IF w = Len(s) THEN NULL ELSE w
Resume(s, w) == IF w = Len(s) THEN NULL ELSE w + 1
strtok ==
  /\ strCall.fn = "strtok" /\ tokLast # NULL
  /\ LET start == TokStart(tokBuf, tokLast, strCall.b)
         end   == TokEnd(tokBuf, start, strCall.b)
     IN  IF At(tokBuf, start) = NUL
         THEN tokLast' = NULL /\ UNCHANGED <<tokBuf, tokens>>
         ELSE /\ tokens' = Append(tokens, SubSeq(tokBuf, start + 1, end))
              /\ tokLast' = Resume(tokBuf, end)
              /\ tokBuf' = IF end = Len(tokBuf) THEN tokBuf
                           ELSE ReplaceAt(tokBuf, end + 1, NUL)
  /\ UNCHANGED <<strCall, strMem>>

-----------------------------------------------------------------------------
StrInit ==
  /\ strCall = NoStrCall
  /\ strMem = [i \in 0 .. MemSize - 1 |-> i + 1]
  /\ tokLast = NULL /\ tokBuf = <<>> /\ tokens = <<>>

Called(fn, a, b) ==
  /\ strCall.fn = "none"
  /\ strCall' = [NoStrCall EXCEPT !.fn = fn, !.a = a, !.b = b]
CalledAt(fn, d, s, n) ==
  /\ strCall.fn = "none"
  /\ strCall' = [NoStrCall EXCEPT !.fn = fn, !.d = d, !.s = s, !.n = n]

\* Functions that only read: the invariants look at their results.
CallRead ==
  /\ \/ \E a, b \in CStrings : Called("read", a, b)
     \/ \E a, b \in LuaStrings : Called("order", a, b)
  /\ UNCHANGED <<strMem, tokLast, tokBuf, tokens>>

CallStrtok ==
  /\ \E a, b \in CStrings : Called("strtok", a, b) /\ tokBuf' = a
  /\ tokLast' = 0
  /\ UNCHANGED <<strMem, tokens>>

CallMemmove ==
  /\ \E d, s, n \in 0 .. MemSize :
       /\ d + n <= MemSize /\ s + n <= MemSize
       /\ CalledAt("memmove", d, s, n)
       /\ strMem' = memmove(strMem, d, s, n)
  /\ UNCHANGED <<tokLast, tokBuf, tokens>>

\* A string of length a in a buffer in the lower half of the array, one of
\* length b in the upper half.
Src == MemSize \div 2
TwoStrings(a, b) == [strMem EXCEPT ![a] = NUL, ![Src + b] = NUL]
CallCat ==
  /\ \E a \in 0 .. 2, b \in 0 .. MemSize - Src - 1, n \in 0 .. Src :
       LET m == TwoStrings(a, b)
       IN  \/ /\ a + b + 1 <= Src /\ CalledAt("strcat", a, b, n)
              /\ strMem' = strcat(m, 0, Src)
           \/ /\ a + n + 1 <= Src /\ CalledAt("strncat", a, b, n)
              /\ strMem' = strncat(m, 0, Src, n)
           \/ CalledAt("strlcat", a, b, n) /\ strMem' = strlcat(m, 0, Src, n)
  /\ UNCHANGED <<tokLast, tokBuf, tokens>>

StrNext == CallRead \/ CallStrtok \/ strtok \/ CallMemmove \/ CallCat
StrSpec == StrInit /\ [][StrNext]_strVars

-----------------------------------------------------------------------------
(* What callers get.                                                       *)

ProperPrefix(a, b) == IsPrefix(a, b) /\ a # b

\* strcmp tells strings apart by their first difference, but takes a string
\* for equal to every prefix of it that is given second: fopen finds a file
\* by any prefix of its name.
StrcmpBlindToPrefixes ==
  strCall.fn = "read" =>
    LET a == strCall.a
        b == strCall.b
    IN  /\ (strcmp(a, b) = 0) <=> IsPrefix(b, a)
        /\ ~IsPrefix(a, b) /\ ~IsPrefix(b, a)
             => ((strcmp(a, b) < 0) <=> (strcmp(b, a) > 0))

\* The order of Lua strings without NUL: each of two strings is less than the
\* other exactly if one is the beginning of the other (and the longer one
\* goes on with a byte below 128), so table.sort has no order to sort by.
\* With NULs, only the left string's can lead the comparison out of the right.
TailMakesBothLess ==
  strCall.fn = "order" =>
    LET a == strCall.a
        b == strCall.b
    IN  IF NUL \in Range(a) \cup Range(b)
        THEN l_strcmp(a, b) = Outside => NUL \in Range(a)
        ELSE ProperPrefix(a, b) =>
               /\ LuaLess(b, a)
               /\ LuaLess(a, b) <=> Signed(b[Len(a) + 1]) > 0

\* luaL_gsub with a pattern of one byte keeps that byte and replaces every
\* other one: "?.lua" never names the file that require is looking for.
GsubReplacesTheRest ==
  strCall.fn = "read" /\ Len(strCall.b) = 1 =>
    \A r \in BoundedSeq(Chars, 1) :
      luaL_gsub(strCall.a, strCall.b, r) =
        FlattenSeq([i \in DOMAIN strCall.a |->
                      IF strCall.a[i] = strCall.b[1] THEN strCall.b ELSE r])

\* Searches find the first place (strrchr the last).  A byte above 127 is
\* found by strchr under its signed value, by memchr only under its unsigned
\* one: lmemfind, which passes a char, never finds it.
SearchesFindFirst ==
  strCall.fn = "read" =>
    \A c \in Chars :
      LET s     == strCall.a
          at    == {i \in 0 .. Len(s) - 1 : s[i + 1] = c}
          first == IF at = {} THEN NULL ELSE Min(at)
      IN  /\ strchr(s, Signed(c)) = first /\ memchr(s, c, Len(s)) = first
          /\ strrchr(s, Signed(c)) = Max({NULL} \cup at)
          /\ c > 127 => memchr(s, Signed(c), Len(s)) = NULL
          /\ strpbrk(s, <<c>>) = first
          /\ strspn(s, <<c>>) + strcspn(From(s, strspn(s, <<c>>)), <<c>>)
               <= Len(s)

\* memmove moves, however source and destination overlap and are aligned.
MemmoveMoves ==
  strCall.fn = "memmove" =>
    \A i \in DOMAIN strMem :
      strMem[i] = IF i - strCall.d \in 0 .. strCall.n - 1
                  THEN i - strCall.d + strCall.s + 1 ELSE i + 1

\* Concatenation ends in a NUL within its bound; strncat's does not when the
\* source is as long as the bound, and luaO_chunkid goes on behind it.
CatKeepsString ==
  LET a == strCall.d
      b == strCall.s
      n == strCall.n
      ends == {i \in 0 .. Src - 1 : strMem[i] = NUL}
  IN  /\ strCall.fn = "strcat" => Min(ends) = a + b
      /\ strCall.fn = "strlcat" => Min(ends) = IF n <= a THEN a ELSE Min({a + b, n - 1})
      /\ strCall.fn = "strncat" => (ends # {}) = (n = 0 \/ b < n)

\* strtok ends up with the maximal runs of bytes that are not delimiters.
Delimited(i) == \/ i \in {0, Len(strCall.a) + 1}
                \/ strCall.a[i] \in Range(strCall.b)
Fields ==
  {<<i, j>> \in (0 .. MaxStr + 1) \X (0 .. MaxStr + 1) :
     /\ j <= Len(strCall.a) + 1 /\ i + 1 < j
     /\ Delimited(i) /\ Delimited(j)
     /\ \A k \in i + 1 .. j - 1 : ~Delimited(k)}
TokensAreTheFields ==
  strCall.fn = "strtok" /\ tokLast = NULL =>
    tokens = [k \in 1 .. Cardinality(Fields) |->
                LET f == SetToSortSeq(Fields, LAMBDA x, y : x[1] < y[1])[k]
                IN  SubSeq(strCall.a, f[1] + 1, f[2] - 1)]
\* What the functions that only read return.
ReadsAreRight ==
  /\ StrcmpBlindToPrefixes /\ TailMakesBothLess
  /\ GsubReplacesTheRest /\ SearchesFindFirst
\* What the functions that write leave in memory.
WritesAreRight == MemmoveMoves /\ CatKeepsString /\ TokensAreTheFields

\* The functions of string.c and etc.c give what their callers rely on, with
\* the differences from the standard functions that those callers meet.
StringsAreRight == ReadsAreRight /\ WritesAreRight
=============================================================================
