--------------------------------- MODULE Lex ---------------------------------
(***************************************************************************)
(* lua-5.1/src/llex.c: from the text of a program to its tokens.           *)
(*                                                                         *)
(* A token is <<kind, value, line>>, line being the line the reader is on   *)
(* when the token has been read; keywords and symbols are their own kind.   *)
(* The text read ahead is not kept: a token that cannot be read ends the    *)
(* sequence with a token "bad" whose value is the message.                 *)
(***************************************************************************)
EXTENDS Code

CONSTANT CharOf(_)  \* the character with a code

\* Declared ahead.
RECURSIVE LongBody(_, _), StringBody(_, _), llex(_), Tokens(_)

Characters(s) == {SubSeq(s, i, i) : i \in 1 .. Len(s)}
Digits == Characters("0123456789")
Alpha == Characters("abcdefghijklmnopqrstuvwxyzABCDEFGHIJKLMNOPQRSTUVWXYZ_")
Newlines == {"\n", "\r"}
Reserved == {"and", "break", "do", "else", "elseif", "end", "false", "for", "function", "if", "in",
             "local", "nil", "not", "or", "repeat", "return", "then", "true", "until", "while"}

\* The reader ls: the text z, the position of the current character, the
\* line, and the text saved so far.
EOZ == "EOZ"
At(z, i) == IF i <= Len(z) THEN SubSeq(z, i, i) ELSE EOZ
Current(ls) == At(ls.z, ls.i)
\* The first position from i on whose character is not in S.
Past(z, i, S) ==
  CHOOSE j \in i .. Len(z) + 1 : At(z, j) \notin S /\ \A m \in i .. j - 1 : At(z, m) \in S
SavedTo(ls, j) == [ls EXCEPT !.i = j, !.buff = @ \o SubSeq(ls.z, ls.i, j - 1)]
Skipped(ls, n) == [ls EXCEPT !.i = @ + n]
inclinenumber(ls) ==
  LET pair == At(ls.z, ls.i + 1) \in Newlines \ {Current(ls)}
  IN  [ls EXCEPT !.i = @ + (IF pair THEN 2 ELSE 1), !.line = @ + 1]
Tok3(kind, value, ls) == [tok |-> <<kind, value, ls.line>>, ls |-> ls]
luaX_lexerror(ls, what) == Tok3("bad", what, ls)

\* Where a numeral ends, and whether it is one.
check_next(z, i, set) == IF At(z, i) \in set THEN i + 1 ELSE i
NumeralEnd(z, i) ==
  LET mantissa == Past(z, i, Digits \cup {"."})
      exponent == check_next(z, mantissa, {"E", "e"})
      sign == IF exponent = mantissa THEN mantissa ELSE check_next(z, exponent, {"+", "-"})
  IN  Past(z, sign, Digits \cup Alpha)
read_numeral(ls) ==
  LET l == SavedTo(ls, NumeralEnd(ls.z, ls.i + 1))
  IN  IF NumeralOf(l.buff) = Nil THEN luaX_lexerror(l, "malformed number")
      ELSE Tok3("number", NumeralOf(l.buff)[2], l)

\* A bracket and equal signs: their number if the same bracket follows.
SepEnd(ls) == Past(ls.z, ls.i + 1, {"="})
skip_sep(ls) ==
  LET count == SepEnd(ls) - ls.i - 1
  IN  IF At(ls.z, SepEnd(ls)) = Current(ls) THEN count ELSE -count - 1
\* LUA_COMPAT_LSTR is 1: an inner [[ is refused.
LongBody(ls, sep) ==
  LET c == Current(ls)
      new == [inclinenumber(ls) EXCEPT !.buff = @ \o "\n"]
  IN  CASE c = EOZ -> luaX_lexerror(ls, "unfinished long string")
        [] c = "[" /\ skip_sep(ls) = 0 /\ sep = 0 -> luaX_lexerror(ls, "nesting")
        [] c = "[" /\ skip_sep(ls) = sep /\ sep # 0 -> LongBody(SavedTo(ls, SepEnd(ls) + 1), sep)
        [] c = "]" /\ skip_sep(ls) = sep -> Tok3("string", ls.buff, [ls EXCEPT !.i = SepEnd(ls) + 1])
        [] c \in {"[", "]"} /\ skip_sep(ls) # sep -> LongBody(SavedTo(ls, SepEnd(ls)), sep)
        [] c \in Newlines -> LongBody(new, sep)
        [] OTHER -> LongBody(SavedTo(ls, ls.i + 1), sep)
read_long_string(ls, sep) ==
  LET l == Skipped(ls, sep + 2)
  IN  LongBody(IF Current(l) \in Newlines THEN inclinenumber(l) ELSE l, sep)

Escapes == ("a" :> 7 @@ "b" :> 8 @@ "f" :> 12 @@ "n" :> 10 @@ "r" :> 13 @@ "t" :> 9 @@ "v" :> 11)
DigitOf(c) == CHOOSE d \in 0 .. 9 : ToString(d) = c
\* At most three digits behind a backslash.
EscapeEnd(ls) == Min({Past(ls.z, ls.i, Digits), ls.i + 3})
EscapeCode(ls) == FoldLeftDomain(LAMBDA c, k : 10 * c + DigitOf(At(ls.z, ls.i + k - 1)), 0,
                                 [k \in 1 .. EscapeEnd(ls) - ls.i |-> k])
Escaped(ls, n, code) == [ls EXCEPT !.i = @ + n, !.buff = @ \o CharOf(code)]
StringBody(ls0, del) ==
  LET c  == Current(ls0)
      ls == Skipped(ls0, 1)
      e  == Current(ls)
  IN  CASE c = del -> Tok3("string", ls0.buff, ls)
        [] c = EOZ \/ c \in Newlines -> luaX_lexerror(ls0, "unfinished string")
        [] c = "\\" /\ e \in DOMAIN Escapes -> StringBody(Escaped(ls, 1, Escapes[e]), del)
        [] c = "\\" /\ e \in Newlines ->
             StringBody([inclinenumber(ls) EXCEPT !.buff = @ \o "\n"], del)
        [] c = "\\" /\ e = EOZ -> StringBody(ls, del)
        [] c = "\\" /\ e \in Digits ->
             IF EscapeCode(ls) > 255 THEN luaX_lexerror(ls, "escape sequence too large")
             ELSE StringBody(Escaped(ls, EscapeEnd(ls) - ls.i, EscapeCode(ls)), del)
        [] c = "\\" /\ e \notin DOMAIN Escapes \cup Newlines \cup Digits \cup {EOZ} ->
             StringBody(SavedTo(ls, ls.i + 1), del)
        [] OTHER -> StringBody(SavedTo(ls0, ls0.i + 1), del)
read_string(ls) == StringBody(Skipped(ls, 1), Current(ls))

\* Comments: a long one is read as a long string is.
ShortComment(ls) ==
  [ls EXCEPT !.i = CHOOSE j \in ls.i .. Len(ls.z) + 1 :
     At(ls.z, j) \in Newlines \cup {EOZ}
       /\ \A m \in ls.i .. j - 1 : At(ls.z, m) \notin Newlines]
AfterComment(ls) ==
  LET long == read_long_string(ls, skip_sep(ls))
  IN  IF ~(Current(ls) = "[" /\ skip_sep(ls) >= 0) THEN llex(ShortComment(ls))
      ELSE IF long.tok[1] = "bad" THEN long
      ELSE llex([long.ls EXCEPT !.buff = ""])

Symbol(ls, s) == Tok3(s, "", Skipped(ls, Len(s)))
\* A symbol that another = makes a different one.
OrEqual(ls, c) == Symbol(ls, IF At(ls.z, ls.i + 1) = "=" THEN c \o "=" ELSE c)
Dots(ls) ==
  LET two == At(ls.z, ls.i + 1) = "."
  IN  IF two /\ At(ls.z, ls.i + 2) = "." THEN Symbol(ls, "...")
      ELSE IF two THEN Symbol(ls, "..")
      ELSE IF At(ls.z, ls.i + 1) \in Digits THEN read_numeral(ls)
      ELSE Symbol(ls, ".")
Bracket(ls) ==
  IF skip_sep(ls) >= 0 THEN read_long_string(ls, skip_sep(ls))
  ELSE IF skip_sep(ls) = -1 THEN Symbol(ls, "[")
  ELSE luaX_lexerror(ls, "invalid long string delimiter")
Name(ls) ==
  LET l == SavedTo(ls, Past(ls.z, ls.i, Digits \cup Alpha))
  IN  IF l.buff \in Reserved THEN Tok3(l.buff, "", l) ELSE Tok3("name", l.buff, l)
llex(ls) ==
  LET c == Current(ls) IN
  CASE c \in Newlines -> llex(inclinenumber(ls))
    [] c = "-" -> IF At(ls.z, ls.i + 1) = "-" THEN AfterComment(Skipped(ls, 2)) ELSE Symbol(ls, "-")
    [] c = "[" -> Bracket(ls)
    [] c \in {"=", "<", ">", "~"} -> OrEqual(ls, c)
    [] c \in {"\"", "'"} -> read_string(ls)
    [] c = "." -> Dots(ls)
    [] c = EOZ -> Tok3("eos", "", ls)
    [] c \in {" ", "\t", "\f"} -> llex(Skipped(ls, 1))
    [] c \in Digits -> read_numeral(ls)
    [] c \in Alpha -> Name(ls)
    [] OTHER -> Symbol(ls, c)

\* What luaX_next delivers, one after the other.
Tokens(ls) ==
  LET t == llex([ls EXCEPT !.buff = ""])
  IN  IF t.tok[1] \in {"eos", "bad"} THEN <<t.tok>> ELSE <<t.tok>> \o Tokens(t.ls)
luaX_setinput(text) == [z |-> text, i |-> 1, line |-> 1, buff |-> ""]
=============================================================================
