------------------------------ MODULE Numerals ------------------------------
(***************************************************************************)
(* Numbers from text: strtoul and strtod of libc/etc.c, and luaO_str2d of  *)
(* Lua, by which tonumber, arithmetic on strings and the lexer read them;  *)
(* tonumber with another base than 10 goes to strtoul.                     *)
(*                                                                         *)
(* Text is a sequence of one-character strings; reading behind it yields   *)
(* NUL.  A double is <<neg, mantissa, exponent>>, the exact decimal.       *)
(* A pointer is the text it points to.  strtod returns without setting     *)
(* endptr when it finds no digit or the exponent is out of range, and      *)
(* luaO_str2d then looks at whatever its variable pointed to before.       *)
(***************************************************************************)
EXTENDS Integers, Sequences, SequencesExt, FiniteSetsExt

CONSTANTS
  LongWidth,              \* bits of an unsigned long
  DBL_MIN_EXP, DBL_MAX_EXP,
  NumTexts,               \* bound: numerals [space, sign, int, point, frac, mark, esign, exp, rest]
  NumBases,               \* bound: bases given to tonumber
  OldPointers             \* texts the uninitialised endptr may point to

ASSUME LongWidthAssumption == LongWidth \in Nat \ {0}
ASSUME ExpAssumption == DBL_MIN_EXP \in Int /\ DBL_MAX_EXP \in Int

VARIABLES
  numCall,    \* the numeral, in parts
  numOk,      \* the conversion succeeded
  numResult,  \* the number
  numBase,    \* the base given to tonumber
  numOld      \* what endptr pointed to before the call

numVars == <<numCall, numOk, numResult, numBase, numOld>>

NumEnd == "\\0"
First(s) == IF s = <<>> THEN NumEnd ELSE s[1]
Rest(s, n) == SubSeq(s, n + 1, Len(s))
Run(s, set) == SelectInSeq(s \o <<NumEnd>>, LAMBDA c : c \notin set) - 1
Lead(s, set) == SubSeq(s, 1, Run(s, set))

Decimals == <<"0", "1", "2", "3", "4", "5", "6", "7", "8", "9">>
Letters  == <<"a", "b", "c", "d", "e", "f", "x", "z">>   \* stand for all
Capitals == <<"A", "B", "C", "D", "E", "F", "X", "Z">>
Digits   == Range(Decimals)
LetterValue == <<10, 11, 12, 13, 14, 15, 33, 35>>
CharValue(c) ==
  IF c \in Digits THEN CHOOSE i \in 0 .. 9 : Decimals[i + 1] = c
  ELSE LetterValue[CHOOSE i \in 1 .. 8 : c \in {Letters[i], Capitals[i]}]
Alnum == Digits \cup Range(Letters) \cup Range(Capitals)
Spaces == {" ", "\t", "\n"}
InBase(ds, base) == FoldLeft(LAMBDA n, c : n * base + CharValue(c), 0, ds)

-----------------------------------------------------------------------------
ULONG_MAX == 2 ^ LongWidth - 1

\* One more digit.  any is -1 after an overflow that was noticed: the test
\* needs a last digit above cutlim, whatever acc is.
Accumulate_Parenthesised(st, c, base) ==
  IF st.any < 0 THEN st
  ELSE IF \/ st.acc > ULONG_MAX \div base
          \/ st.acc = ULONG_MAX \div base /\ c > ULONG_MAX % base
  THEN [acc |-> ULONG_MAX, any |-> -1]
  ELSE [acc |-> st.acc * base + c, any |-> 1]
Accumulate(st, c, base) ==
  IF st.any < 0 THEN st
  ELSE IF st.acc >= ULONG_MAX \div base /\ c > ULONG_MAX % base
  THEN [acc |-> ULONG_MAX, any |-> -1]
  ELSE [acc |-> (st.acc * base + c) % (ULONG_MAX + 1), any |-> 1]

Converted(nptr, neg, rest, ds, st) ==
  [value  |-> IF neg /\ st.any > 0 THEN (0 - st.acc) % (ULONG_MAX + 1) ELSE st.acc,
   endptr |-> IF st.any = 0 THEN nptr ELSE Rest(rest, Len(ds))]
FromDigits(nptr, neg, rest, ds, base) ==
  Converted(nptr, neg, rest, ds,
            FoldLeft(LAMBDA a, c : Accumulate(a, CharValue(c), base),
                     [acc |-> 0, any |-> 0], ds))
InDigits(nptr, neg, s, base) ==
  FromDigits(nptr, neg, s, Lead(s, {c \in Alnum : CharValue(c) < base}), base)
Prefixed(s, base) ==
  /\ base \in {0, 16} /\ First(s) = "0" /\ First(Rest(s, 1)) \in {"x", "X"}
Unsigned(nptr, neg, s, base) ==
  CASE Prefixed(s, base) -> InDigits(nptr, neg, Rest(s, 2), 16)
    [] ~Prefixed(s, base) /\ base # 0 -> InDigits(nptr, neg, s, base)
    [] OTHER -> InDigits(nptr, neg, s, IF First(s) = "0" THEN 8 ELSE 10)
Signs == {"-", "+"}
Blanked(s) == Rest(s, Run(s, Spaces))
AfterSign(s) == IF First(s) \in Signs THEN Tail(s) ELSE s
strtoul(nptr, base) ==
  Unsigned(nptr, First(Blanked(nptr)) = "-", AfterSign(Blanked(nptr)), base)

Significand(int, rest) ==
  LET frac == Lead(Tail(rest), Digits)
  IN  IF First(rest) # "." THEN [int |-> int, frac |-> <<>>, rest |-> rest]
      ELSE [int |-> int, frac |-> frac, rest |-> Rest(rest, 1 + Len(frac))]
\* An exponent mark counts even if no digit follows it.
ExponentDigits(neg, s) ==
  LET n == Lead(s, Digits)
  IN  [value |-> IF neg THEN 0 - InBase(n, 10) ELSE InBase(n, 10), rest |-> Rest(s, Len(n))]
Exponent(s) ==
  IF First(s) \in {"e", "E"} THEN ExponentDigits(First(Tail(s)) = "-", AfterSign(Tail(s)))
  ELSE [value |-> 0, rest |-> s]
\* set tells whether endptr was set.
Double(neg, m, expo, rest) ==
  IF m.int \o m.frac = <<>> THEN [set |-> FALSE, value |-> <<FALSE, 0, 0>>]
  ELSE IF expo < DBL_MIN_EXP \/ expo > DBL_MAX_EXP
  THEN [set |-> FALSE, value |-> <<"HUGE_VAL">>]
  ELSE [set |-> TRUE, value |-> <<neg, InBase(m.int \o m.frac, 10), expo>>, endptr |-> rest]
WithExponent(neg, m, e) == Double(neg, m, e.value - Len(m.frac), e.rest)
FromSignificand(neg, m) == WithExponent(neg, m, Exponent(m.rest))
FromInt(neg, s, int) == FromSignificand(neg, Significand(int, Rest(s, Len(int))))
FromSigned(neg, s) == FromInt(neg, s, Lead(s, Digits))
strtod(str) == FromSigned(First(Blanked(str)) = "-", AfterSign(Blanked(str)))

\* The test endptr = s comes after strtod, which never sets endptr to s: only
\* an old pointer to the same place makes it true.
SamePlace == <<"s">>
NumEnds(s) == Blanked(s) = <<>>
luaO_str2d_Checked(s, old) ==
  IF ~strtod(s).set THEN [ok |-> FALSE, result |-> strtod(s).value]
  ELSE [ok |-> NumEnds(strtod(s).endptr), result |-> strtod(s).value]
\* The end of the decimal is looked at for an x, wherever it is.
Str2d(d, same, end, u) ==
  IF same THEN [ok |-> FALSE, result |-> d.value]
  ELSE IF First(end) \in {"x", "X"} THEN [ok |-> NumEnds(u.endptr), result |-> <<FALSE, u.value, 0>>]
  ELSE [ok |-> NumEnds(end), result |-> d.value]
PointerAfter(d, old) == IF d.set THEN d.endptr ELSE old
Read2d(s, old, d) == Str2d(d, ~d.set /\ old = SamePlace, PointerAfter(d, old), strtoul(s, 16))
luaO_str2d(s, old) == Read2d(s, old, strtod(s))

-----------------------------------------------------------------------------
\* A numeral may be hexadecimal: then mark is "x" and exp its digits.
TextOf(t) == t.space \o t.sign \o t.int \o t.point \o t.frac \o t.mark
               \o t.esign \o t.exp \o t.rest

luaB_tonumber(s, base, old) ==
  IF base = 10 THEN luaO_str2d(s, old)
  ELSE [ok     |-> strtoul(s, base).endptr # s /\ NumEnds(strtoul(s, base).endptr),
        result |-> <<FALSE, strtoul(s, base).value, 0>>]

NoNumeral == [space |-> <<>>, sign |-> <<>>, int |-> <<>>, point |-> <<>>, frac |-> <<>>,
              mark |-> <<>>, esign |-> <<>>, exp |-> <<>>, rest |-> <<"none">>]
NumInit == /\ numCall = NoNumeral /\ numOk = FALSE /\ numResult = <<>>
           /\ numBase = 10 /\ numOld = <<>>
NumConvert ==
  /\ numCall = NoNumeral
  /\ numCall' \in NumTexts /\ numBase' \in NumBases /\ numOld' \in OldPointers
  /\ \E r \in {luaB_tonumber(TextOf(numCall'), numBase', numOld')} :
       numOk' = r.ok /\ numResult' = r.result
NumNext == NumConvert
NumSpec == NumInit /\ [][NumNext]_numVars

-----------------------------------------------------------------------------
\* Whether the text is a numeral, and which, by its parts.
Clean(t) == Range(t.rest) \subseteq Spaces
Hexadecimal(t) == t.mark \in {<<"x">>, <<"X">>}
IsDecimal(t) == t.int \o t.frac # <<>> /\ ~Hexadecimal(t)
IsHex(t) == /\ Hexadecimal(t) /\ t.int = <<"0">> /\ t.exp # <<>>
            /\ t.point = <<>> /\ t.sign = <<>>
Integral(t) == t.point \o t.frac \o t.mark = <<>> /\ t.int # <<>>
DecimalOf(t) ==
  <<t.sign = <<"-">>, InBase(t.int \o t.frac, 10),
    (IF t.esign = <<"-">> THEN 0 - InBase(t.exp, 10) ELSE InBase(t.exp, 10))
      - Len(t.frac)>>
InRange(t) == DecimalOf(t)[3] \in DBL_MIN_EXP .. DBL_MAX_EXP
Modulo(n) == n % (ULONG_MAX + 1)

\* tonumber(s).  A decimal numeral is read exactly, and refused if anything
\* but space follows.  A hexadecimal one that does not fit is cut to its last
\* digits without notice.  What has no digits, or an exponent out of range,
\* is taken for a number whenever the old pointer happens to lead to the end
\* of some string; if it leads to an x, hexadecimal letters are one.
DecimalsRead ==
  LET t == numCall IN
  numBase = 10 /\ t # NoNumeral =>
    /\ IsDecimal(t) /\ InRange(t) =>
         /\ Clean(t) => numOk /\ numResult = DecimalOf(t)
         /\ ~Clean(t) /\ t.rest[1] \notin {"x", "X"} => ~numOk
    /\ IsHex(t) => /\ numOk <=> Clean(t)
                   /\ Clean(t) => numResult = <<FALSE, Modulo(InBase(t.exp, 16)), 0>>
    /\ (t.int \o t.frac = <<>> \/ (IsDecimal(t) /\ ~InRange(t))) /\ numOk =>
         \/ First(numOld) \notin Alnum
         \/ First(numOld) \in {"x", "X"} /\ Range(strtoul(TextOf(t), 16).endptr) \subseteq Spaces
    /\ t.int \o t.frac = <<>> /\ numOld = <<>> => numOk

\* tonumber(s, base).  A numeral that fits is read exactly; of one that does
\* not, either the largest number is made or the number is cut to its last
\* bits, which in a base that is a power of two is always so.
BasesRead ==
  LET t    == numCall
      base == numBase
      n    == InBase(t.int, base)
  IN  numBase # 10 /\ Integral(t) /\ (\A i \in DOMAIN t.int : CharValue(t.int[i]) < base) =>
        /\ numOk <=> Clean(t)
        /\ Clean(t) =>
             \/ n > ULONG_MAX /\ base = 10 /\ numResult = <<FALSE, ULONG_MAX, 0>>
             \/ numResult = <<FALSE, Modulo(IF t.sign = <<"-">> THEN 0 - n ELSE n), 0>>
NumeralsRead == DecimalsRead /\ BasesRead
=============================================================================
