------------------------------- MODULE Format -------------------------------
(***************************************************************************)
(* Formatted output: the bytestreams, the printf conversions and vformat   *)
(* of kernel/stream.c, and vsprintf of libc/stdio.c.                       *)
(*                                                                         *)
(* Text is a sequence of symbols, one-character strings mostly; NUL ends   *)
(* it, "?" is a byte from outside an array, and "#DE" the divide fault,    *)
(* which halts the machine.  An int is its pattern of Width bits.  A       *)
(* double is the rational [neg, num, den]; the logarithm of a power of     *)
(* ten, which rounding may put on either side, is kept out of the inputs.  *)
(*                                                                         *)
(* A call gets its numbers in args (an int is [neg |-> FALSE, num, den |-> *)
(* 1]) and its string or character, at most one, in text.                  *)
(*                                                                         *)
(* A behaviour is one call.  Nothing ends the text in the buffer of a      *)
(* conversion: RAM that was in use before still holds old bytes there.     *)
(***************************************************************************)
EXTENDS Integers, Sequences, SequencesExt, FiniteSetsExt

CONSTANTS
  Width,       \* bits of an int
  MexpLimit,   \* 1000000000: where %g turns to an exponent
  FmtCalls     \* bound: set of calls [fn, format, args, text]

ASSUME WidthAssumption == Width \in Nat \ {0} /\ MexpLimit \in Nat

VARIABLES
  fmtCall,     \* the call
  fmtOut,      \* what it put on the stream or into the string
  fmtStale     \* old bytes found behind the text of a conversion

fmtVars == <<fmtCall, fmtOut, fmtStale>>

TwoTo(n) == 2 ^ n
SignedInt(p) == IF p >= TwoTo(Width - 1) THEN p - TwoTo(Width) ELSE p
Pattern(i) == i % TwoTo(Width)
CQuot(a, b) == IF a >= 0 THEN a \div b ELSE 0 - ((0 - a) \div b)
FmtNUL == "\\0"
NullText == <<"NULL">>
FmtNoCall == [fn |-> "none", format |-> <<>>, args |-> <<>>, text |-> <<>>]

Lower == <<"0", "1", "2", "3", "4", "5", "6", "7", "8", "9",
           "a", "b", "c", "d", "e", "f">>
Upper == [Lower EXCEPT ![11] = "A", ![12] = "B", ![13] = "C",
                       ![14] = "D", ![15] = "E", ![16] = "F"]
IsDigit(c) == c \in {Lower[i] : i \in 1 .. 10}
DigitValue(c) == (CHOOSE i \in 1 .. 16 : c \in {Lower[i], Upper[i]}) - 1

\* The leading digits of a text, and the number they make.
DigitRun(s) == SelectInSeq(s \o <<"end">>, LAMBDA c : ~IsDigit(c)) - 1
atoi(s) == FoldLeft(LAMBDA sum, c : Pattern(sum * 10 + DigitValue(c)), 0,
                    SubSeq(s, 1, DigitRun(s)))

-----------------------------------------------------------------------------
(* Integers                                                                *)

Base(flags) == IF "OCTAL" \in flags THEN 8 ELSE IF "HEX" \in flags THEN 16 ELSE 10
DigitTable(flags) == IF "UPPER" \in flags THEN Upper ELSE Lower
AltPrefix(flags) ==
  IF "ALT" \notin flags THEN <<>>
  ELSE IF "OCTAL" \in flags THEN <<"0">>
  ELSE IF "HEX" \in flags THEN <<"0", IF "UPPER" \in flags THEN "X" ELSE "x">>
  ELSE <<>>
Sign(flags) == IF "SIGN" \in flags THEN <<"+">> ELSE <<>>

\* The divisor grows until one more factor would pass the value.  Both sides
\* of the comparison are signed, and the product wraps.
RECURSIVE GrowDivisor(_, _, _, _)
GrowDivisor(i, divisor, value, base) ==
  IF i = 16 \/ SignedInt(Pattern(divisor * base)) > SignedInt(value)
  THEN <<i, divisor>>
  ELSE GrowDivisor(i + 1, Pattern(divisor * base), value, base)

\* Digits from the top; an index below zero reads in front of the table.
RECURSIVE TopDown(_, _, _, _, _)
TopDown(i, divisor, value, base, table) ==
  IF i < 0 THEN <<>>
  ELSE IF divisor = 0 THEN <<"#DE">>
  ELSE LET q     == SignedInt(value \div divisor)
           index == q - base * CQuot(q, base)
       IN  <<IF index < 0 THEN "?" ELSE table[index + 1]>>
             \o TopDown(i - 1, Pattern(CQuot(SignedInt(divisor), base)),
                        value, base, table)

stream_putuint_Unsigned(value, flags) ==
  IF value = 0 THEN <<"0">>
  ELSE LET base == Base(flags)
           top  == Max({i \in 0 .. Width \div 3 : base ^ i <= value})
       IN  Sign(flags) \o AltPrefix(flags)
             \o TopDown(top, base ^ top, value, base, DigitTable(flags))
stream_putuint(value, flags) ==
  IF value = 0 THEN <<"0">>
  ELSE LET base == Base(flags)
           top  == GrowDivisor(0, 1, value, base)
       IN  Sign(flags) \o AltPrefix(flags)
             \o TopDown(top[1], top[2], value, base, DigitTable(flags))

Negate(value) == Pattern(0 - value)
stream_putint(value, flags) ==
  IF SignedInt(value) < 0
  THEN <<"-">> \o stream_putuint(Negate(value), flags)
  ELSE stream_putuint(value, flags)

\* Digits from the bottom, into 15 cells.
RECURSIVE BottomUp(_, _, _)
BottomUp(value, base, table) ==
  IF value = 0 THEN <<>>
  ELSE BottomUp(value \div base, base, table) \o <<table[(value % base) + 1]>>
__format_uint(value, flags) ==
  IF value = 0 THEN <<"0">>
  ELSE AltPrefix(flags) \o Sign(flags)
         \o BottomUp(value, Base(flags), DigitTable(flags))
__format_int(value, flags) ==
  IF SignedInt(value) < 0
  THEN <<"-">> \o __format_uint(Negate(value), flags)
  ELSE __format_uint(value, flags)

-----------------------------------------------------------------------------
(* Doubles                                                                 *)

\* The digits behind the point: at least one, then until nothing is left,
\* cut off at the precision.
RECURSIVE FracDigits(_, _, _, _)
FracDigits(num, den, exact, precision) ==
  IF precision = 0 THEN <<>>
  ELSE <<Lower[(num * 10) \div den + 1]>>
         \o IF exact /\ (num * 10) % den = 0 THEN <<>>
            ELSE FracDigits((num * 10) % den, den, exact, precision - 1)
__format_double_frac(num, den, flags, precision) ==
  FracDigits(num, den, ~({"ALT", "MEXP"} \subseteq flags), precision)

\* What the conversion of a double to int yields: beyond the range, INT_MIN.
ToInt(neg, n) ==
  IF n < TwoTo(Width - 1) THEN Pattern(IF neg THEN 0 - n ELSE n)
  ELSE TwoTo(Width - 1)

\* The fixed form.  modfl has split the value when it is compared with
\* 2000000000, so __format_double_int is never reached.
FixedDouble(v, flags, precision) ==
  LET i    == v.num \div v.den
      frac == v.num % v.den
  IN  (IF i = 0 /\ frac # 0 /\ v.neg THEN <<"-">> ELSE <<>>)
        \o __format_int(ToInt(v.neg, i), flags)
        \o IF frac = 0 /\ "ALT" \notin flags THEN <<>>
           ELSE <<".">> \o __format_double_frac(frac, v.den, flags, precision)

\* log10 of a positive value lies strictly between Decade and Decade + 1.
Below(v, e) == IF e >= 0 THEN 10 ^ e * v.den < v.num ELSE v.den < v.num * 10 ^ (0 - e)
Decade(v) == Max({e \in -3 .. 6 : Below(v, e)})
\* floorl of it is one too low below -1, and 0 between -1 and 0; (int) of it
\* is cut towards zero.
FloorLog(v) == IF Decade(v) >= 0 THEN Decade(v)
               ELSE IF Decade(v) = -1 THEN 0 ELSE Decade(v)
TruncLog(v) == IF Decade(v) >= 0 THEN Decade(v) ELSE Decade(v) + 1
Scaled(v, e) == IF e >= 0 THEN [v EXCEPT !.den = @ * 10 ^ e]
                ELSE [v EXCEPT !.num = @ * 10 ^ (0 - e)]
ExpSymbol(flags) == IF "UPPER" \in flags THEN "E" ELSE "e"
\* No logarithm: minus infinity or NaN takes the place of the mantissa.
NoLog(v, flags) ==
  <<IF v.num = 0 THEN IF "UPPER" \in flags THEN "NAN" ELSE "nan"
    ELSE IF "UPPER" \in flags THEN "-INF" ELSE "-inf">>
ExpDouble(v, flags, precision) ==
  IF v.neg \/ v.num = 0
  THEN NoLog(v, flags) \o <<ExpSymbol(flags)>>
         \o __format_int(TwoTo(Width - 1), flags \cup {"SIGN"})
  ELSE FixedDouble(Scaled(v, FloorLog(v)), flags \ {"EXP"}, precision)
         \o <<ExpSymbol(flags)>>
         \o __format_int(Pattern(TruncLog(v)), flags \cup {"SIGN"})

__format_double(v, flags, precision) ==
  IF "EXP" \in flags \/ ("MEXP" \in flags /\ ~v.neg /\ v.num > MexpLimit * v.den)
  THEN ExpDouble(v, flags, precision)
  ELSE FixedDouble(v, flags, precision)

-----------------------------------------------------------------------------
(* One conversion                                                          *)

FlagOf == [c \in {"+", "-", "#", "0"} |->
             CASE c = "+" -> "SIGN" [] c = "-" -> "LEFT"
               [] c = "#" -> "ALT" [] c = "0" -> "ZERO"]
\* Conversion letters: the type and the flags they imply.
Types ==
  [c \in {"i", "d", "u", "F", "f", "G", "g", "E", "e", "X", "x", "p", "O", "o",
          "s", "c", "%"} |->
     [type |-> CASE c \in {"i", "d"} -> "INT"
                 [] c \in {"u", "X", "x", "p", "O", "o"} -> "UINT"
                 [] c \in {"F", "f", "G", "g", "E", "e"} -> "DOUBLE"
                 [] c = "s" -> "STRING" [] c = "c" -> "CHAR"
                 [] c = "%" -> "LITERAL",
      flags |-> (IF c \in {"F", "G", "E", "X", "O"} THEN {"UPPER"} ELSE {})
                  \cup (IF c \in {"X", "x", "p"} THEN {"HEX"}
                        ELSE IF c \in {"O", "o"} THEN {"OCTAL"}
                        ELSE IF c \in {"E", "e"} THEN {"EXP"}
                        ELSE IF c \in {"G", "g"} THEN {"MEXP"} ELSE {})]]

\* The parser walks down the format: s is what is left of it.
Next1(s) == IF s = <<>> THEN FmtNUL ELSE s[1]
Drop(s, n) == SubSeq(s, n + 1, Len(s))
FlagRun(s) == SelectInSeq(s \o <<FmtNUL>>, LAMBDA c : c \notin DOMAIN FlagOf) - 1
\* A number, or an asterisk, which takes an argument.
Number(s, args, default) ==
  IF Next1(s) = "*" THEN [value |-> args[1].num, s |-> Tail(s), args |-> Tail(args)]
  ELSE [value |-> IF DigitRun(s) = 0 THEN default ELSE atoi(s),
        s |-> Drop(s, DigitRun(s)), args |-> args]
\* h, hh, l, ll, L and j make no difference to the conversions made here.
LengthRun(s) ==
  IF Next1(s) \in {"h", "l"} THEN IF Next1(Tail(s)) = s[1] THEN 2 ELSE 1
  ELSE IF Next1(s) \in {"L", "j"} THEN 1 ELSE 0

\* What a conversion specification says.  type is "NONE" for one that is not
\* understood: z and t are among them.
Understood(s, given, width, prec, known, letter) ==
  [type      |-> IF known THEN letter.type ELSE "NONE",
   flags     |-> given \cup letter.flags,
   width     |-> width.value,
   precision |-> prec.value,
   rest      |-> IF known THEN letter.rest ELSE Tail(s),
   args      |-> prec.args]
Letter(s) == IF Next1(s) \in DOMAIN Types
             THEN [type |-> Types[s[1]].type, flags |-> Types[s[1]].flags, rest |-> Tail(s)]
             ELSE [type |-> "NONE", flags |-> {}, rest |-> s]
Typed(s, given, width, prec, blank, letter) ==
  Understood(s, given, width, prec, ~blank /\ letter.type # "NONE", letter)
WithPrecision(s, given, width, prec) ==
  Typed(s, given, width, prec,
        Next1(width.s) = "." /\ prec.s = Tail(width.s),   \* a point and no precision
        Letter(Drop(prec.s, LengthRun(prec.s))))
WithWidth(s, given, width) ==
  WithPrecision(s, given, width,
                IF Next1(width.s) = "." THEN Number(Tail(width.s), width.args, 6)
                ELSE [width EXCEPT !.value = 6])
WithFlags(s, args, n) ==
  WithWidth(s, {FlagOf[s[i]] : i \in 2 .. 1 + n}, Number(Drop(Tail(s), n), args, 0))
ParseArg(s, args) == WithFlags(s, args, FlagRun(Tail(s)))

\* The buffer after the conversion, and the arguments that are left.
Body(p, text) ==
  CASE p.type = "STRING" -> IF text = NullText THEN <<"(null)">> ELSE text
    [] p.type = "CHAR" -> text
    [] p.type = "LITERAL" -> <<"%">>
    [] p.type = "INT" -> stream_putint(p.args[1].num, p.flags)
    [] p.type = "UINT" -> stream_putuint(p.args[1].num, p.flags)
    [] p.type = "DOUBLE" -> __format_double(p.args[1], p.flags, p.precision)
ArgsAfter(p) == IF p.type \in {"INT", "UINT", "DOUBLE"} THEN Tail(p.args) ELSE p.args

\* flen is one less than the length (no terminator was put), and for an empty
\* text it wraps around: no width is greater.
Padding_Exact(body, p) ==
  [i \in 1 .. Max({0, p.width - Len(body)}) |-> IF "ZERO" \in p.flags THEN "0" ELSE " "]
Padding(body, p) ==
  [i \in 1 .. IF body = <<>> THEN 0 ELSE Max({0, p.width - (Len(body) - 1)}) |->
     IF "ZERO" \in p.flags THEN "0" ELSE " "]
\* The buffer is printed up to the first NUL, old bytes and all.
CText(s) == SubSeq(s, 1, SelectInSeq(s \o <<FmtNUL>>, LAMBDA c : c = FmtNUL) - 1)
Aligned(p, body, stale) ==
  IF "#DE" \in Range(body) THEN <<"#DE">>
  ELSE IF "LEFT" \in p.flags THEN CText(body \o stale) \o Padding(body, p)
  ELSE Padding(body, p) \o CText(body \o stale)
stream_format_arg(p, string, stale) == Aligned(p, Body(p, string), stale)

\* A specification that is not understood loses its percent sign; the rest of
\* it is printed as it stands.
RECURSIVE stream_vformat(_, _, _, _)
Continued(text, p, string, stale) ==
  IF text = <<"#DE">> THEN text
  ELSE text \o stream_vformat(p.rest, ArgsAfter(p), string, stale)
Formatted(p, string, stale) ==
  Continued(IF p.type = "NONE" THEN <<>> ELSE stream_format_arg(p, string, stale),
            p, string, stale)
stream_vformat(s, args, string, stale) ==
  IF s = <<>> THEN <<>>
  ELSE IF s[1] # "%" THEN <<s[1]>> \o stream_vformat(Tail(s), args, string, stale)
  ELSE Formatted(ParseArg(s, args), string, stale)

-----------------------------------------------------------------------------
(* Calls                                                                   *)

\* sprintf copies the text up to its first NUL; printf puts it as it comes.
Emitted(fn, text) == IF fn = "sprintf" THEN CText(text) ELSE text

FmtInit == fmtCall = FmtNoCall /\ fmtOut = <<>> /\ fmtStale = <<>>

FormatCall ==
  /\ fmtCall = FmtNoCall
  /\ fmtCall' \in FmtCalls
  /\ fmtStale' \in {<<>>, <<"?">>}
  /\ fmtOut' = Emitted(fmtCall'.fn,
                       stream_vformat(fmtCall'.format, fmtCall'.args,
                                      fmtCall'.text, fmtStale'))
FmtNext == FormatCall
FmtSpec == FmtInit /\ [][FmtNext]_fmtVars

-----------------------------------------------------------------------------
(* What is printed                                                         *)

\* p is what the call says, if it is one conversion and nothing else.
Conversions ==
  IF fmtCall.format = <<>> \/ Next1(fmtCall.format) # "%" THEN {}
  ELSE {p \in {ParseArg(fmtCall.format, fmtCall.args)} : p.type # "NONE" /\ p.rest = <<>>}
Negative(p) == p.type = "INT" /\ SignedInt(p.args[1].num) < 0
Magnitude(p) == IF Negative(p) THEN Negate(p.args[1].num) ELSE p.args[1].num
NumberIn(digits, base) ==
  FoldLeft(LAMBDA n, d : IF d = "?" THEN n ELSE n * base + DigitValue(d), 0, digits)

\* The largest power of the base that fits into Width bits is the last good
\* divisor, unless one more factor wraps to a number above it.
FirstWrong(base) ==
  LET power == Max({base ^ i : i \in {j \in 0 .. Width \div 3 : base ^ j < TwoTo(Width)}})
      wrap  == Pattern(power * base)
  IN  IF wrap > power /\ wrap < TwoTo(Width - 1) THEN wrap ELSE power

\* An integer is printed with its sign, its prefix and its digits, without
\* leading zeros, up to the first magnitude at which the divisor of
\* stream_putuint wraps.  From there on the machine halts in a divide fault,
\* and from half the range on a single symbol is printed.
IntegersPrinted ==
  \A p \in Conversions : p.type \in {"INT", "UINT"} /\ p.width = 0 =>
    LET base == Base(p.flags)
        lead == (IF Negative(p) THEN <<"-">> ELSE <<>>)
                  \o IF Magnitude(p) = 0 THEN <<>>
                     ELSE Sign(p.flags) \o AltPrefix(p.flags)
        text == SubSeq(fmtOut, 1, Len(fmtOut) - Len(fmtStale))
        digits == Drop(text, Len(lead))
    IN  IF Magnitude(p) >= TwoTo(Width - 1) THEN Len(digits) = 1
        ELSE IF Magnitude(p) >= FirstWrong(base) THEN fmtOut = <<"#DE">>
        ELSE /\ IsPrefix(lead, text)
             /\ NumberIn(digits, base) = Magnitude(p)
             /\ digits[1] = "0" => Len(digits) = 1

\* A double in fixed form is cut off, never rounded, at the precision; it
\* ends where nothing is left.  A value that no int can hold is printed as
\* the smallest int.
DoublesPrinted ==
  \A p \in Conversions : p.type = "DOUBLE" /\ p.width = 0 /\ fmtStale = <<>>
  /\ p.flags \cap {"EXP", "SIGN", "ALT"} = {} =>
    LET v     == p.args[1]
        whole == v.num \div v.den
        frac  == v.num % v.den
        point == SelectInSeq(fmtOut \o <<".">>, LAMBDA c : c = ".")
        head  == SubSeq(fmtOut, 1, point - 1)
        tail  == Drop(fmtOut, point)
        shown == NumberIn(tail, 10)
    IN  "e" \notin Range(fmtOut) =>
          /\ (Next1(fmtOut) = "-") <=> ((v.neg /\ v.num # 0) \/ whole >= TwoTo(Width - 1))
          /\ NumberIn(SelectSeq(head, LAMBDA c : c # "-"), 10)
               = IF whole >= TwoTo(Width - 1) THEN TwoTo(Width - 1) ELSE whole
          /\ (tail = <<>>) <=> (frac = 0 \/ p.precision = 0)
          /\ Len(tail) <= p.precision
          /\ shown * v.den <= frac * 10 ^ Len(tail)
          /\ frac * 10 ^ Len(tail) < (shown + 1) * v.den
          /\ Len(tail) < p.precision => shown * v.den = frac * 10 ^ Len(tail)
NumbersPrinted == IntegersPrinted /\ DoublesPrinted

\* A text no longer than its field makes the field one symbol wider than
\* asked for; an empty text is not padded at all.  Old bytes of the heap stand
\* behind the text, inside the field.
FieldIsOneTooWide ==
  \A p \in Conversions : fmtOut # <<"#DE">> /\ fmtCall.fn = "printf" =>
    LET body == Body(p, fmtCall.text)
        fill == IF body = <<>> \/ Len(body) > p.width THEN 0
                ELSE p.width + 1 - Len(body)
    IN  /\ Len(fmtOut) = fill + Len(body) + Len(fmtStale)
        /\ body \o fmtStale =
             IF "LEFT" \in p.flags
             THEN SubSeq(fmtOut, 1, Len(fmtOut) - fill) ELSE Drop(fmtOut, fill)
        /\ fill > 0 => LET pad == IF "LEFT" \in p.flags
                                  THEN Drop(fmtOut, Len(fmtOut) - fill)
                                  ELSE SubSeq(fmtOut, 1, fill)
                       IN  Range(pad) = {IF "ZERO" \in p.flags THEN "0" ELSE " "}

\* A conversion of printf shows its argument, in a field one too wide.
ConversionsPrinted == NumbersPrinted /\ FieldIsOneTooWide
=============================================================================
