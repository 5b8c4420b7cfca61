------------------------------ MODULE StrMatch ------------------------------
(***************************************************************************)
(* lua-5.1/src/lstrlib.c: pattern matching, and find, match, gmatch and    *)
(* gsub above it.                                                          *)
(*                                                                         *)
(* Texts are strings, pointers into them count from 0, and the NUL behind  *)
(* a text is NOCHAR.  A function that moves the MatchState ms on returns   *)
(* it with the pointer it found, as a record M(at, ms): at is NOWHERE when *)
(* there is no match, and ERROR when luaL_error leaves them all.           *)
(***************************************************************************)
EXTENDS Integers, Sequences, SequencesExt, FiniteSetsExt

CONSTANTS
  LUA_MAXCAPTURES,
  MatchCalls    \* bound: [fn, src, pat, init, plain, repl, max, meant], calls that are made

ASSUME MatchAssumption == LUA_MAXCAPTURES \in Nat

VARIABLE
  pm    \* [call, pc, at, n, out, text]: a call, where it is and what it has given

smVars == <<pm>>

NOWHERE == -1
ERROR == -2
NOCHAR == ""
CAP_UNFINISHED == -1
CAP_POSITION == -2

RECURSIVE match(_, _, _), SetEnd(_, _), Listed(_, _, _, _), Fewer(_, _, _, _),
  min_expand(_, _, _, _), Search(_, _, _, _), FirstFrom(_, _, _, _), Filled(_, _, _, _, _)

-----------------------------------------------------------------------------
(* Characters                                                              *)

CharAt(text, i) == IF i \in 0 .. Len(text) - 1 THEN SubSeq(text, i + 1, i + 1) ELSE NOCHAR
Piece(text, from, to) == SubSeq(text, from + 1, to)
Ascii == " !\"#$%&'()*+,-./0123456789:;<=>?@ABCDEFGHIJKLMNOPQRSTUVWXYZ[\\]^_"
LowerCase == "abcdefghijklmnopqrstuvwxyz{|}"
Codes(chars, first) == [c \in {CharAt(chars, i) : i \in 0 .. Len(chars) - 1} |->
                          first + CHOOSE i \in 0 .. Len(chars) - 1 : CharAt(chars, i) = c]
Code == Codes(Ascii, 32) @@ Codes(LowerCase, 97) @@ (NOCHAR :> 0)
Between(lo, c, hi) == Code[lo] <= Code[c] /\ Code[c] <= Code[hi]
DigitChars == {CharAt("0123456789", i) : i \in 0 .. 9}
SmallLetters == {CharAt(LowerCase, i) : i \in 0 .. 25}
CapitalLetters == {CharAt(Ascii, i) : i \in 33 .. 58}
isdigit(c) == c \in DigitChars
islower(c) == c \in SmallLetters
isupper(c) == c \in CapitalLetters
isalpha(c) == c \in SmallLetters \cup CapitalLetters
isalnum(c) == c \in SmallLetters \cup CapitalLetters \cup DigitChars
isxdigit(c) == c \in DigitChars \cup {"a", "b", "c", "d", "e", "f", "A", "B", "C", "D", "E", "F"}
tolower(c) == IF isupper(c) THEN CharAt(LowerCase, Code[c] - Code["A"]) ELSE c
LowerClasses == {"a", "c", "d", "l", "p", "s", "u", "w", "x", "z"}
InClass(c, cl) ==
  CASE cl = "a" -> isalpha(c)
    [] cl = "c" -> c = NOCHAR
    [] cl = "d" -> isdigit(c)
    [] cl = "l" -> islower(c)
    [] cl = "p" -> Code[c] > 32 /\ ~isalnum(c)
    [] cl = "s" -> c = " "
    [] cl = "u" -> isupper(c)
    [] cl = "w" -> isalnum(c)
    [] cl = "x" -> isxdigit(c)
    [] cl = "z" -> c = NOCHAR
match_class(c, cl) ==
  IF tolower(cl) \in LowerClasses THEN InClass(c, tolower(cl)) <=> islower(cl) ELSE c = cl

-----------------------------------------------------------------------------
(* The MatchState, and single items                                        *)

M(at, ms) == [at |-> at, ms |-> ms]
S(ms, s) == CharAt(ms.src, s)
P(ms, p) == CharAt(ms.pat, p)
End(ms) == Len(ms.src)
Ready(ms) == [ms EXCEPT !.level = 0]

SetEnd(ms, p) ==
  LET next == IF P(ms, p) = "%" /\ P(ms, p + 1) # NOCHAR THEN p + 2 ELSE p + 1
  IN  IF P(ms, p) = NOCHAR THEN ERROR ELSE IF P(ms, next) = "]" THEN next + 1 ELSE SetEnd(ms, next)
classend(ms, p) ==
  CASE P(ms, p) = "%" -> IF P(ms, p + 1) = NOCHAR THEN ERROR ELSE p + 2
    [] P(ms, p) = "[" -> SetEnd(ms, IF P(ms, p + 1) = "^" THEN p + 2 ELSE p + 1)
    [] OTHER -> p + 1

Listed(ms, c, p, ec) ==
  /\ p < ec
  /\ IF P(ms, p) = "%" THEN match_class(c, P(ms, p + 1)) \/ Listed(ms, c, p + 2, ec)
     ELSE IF P(ms, p + 1) = "-" /\ p + 2 < ec
     THEN Between(P(ms, p), c, P(ms, p + 2)) \/ Listed(ms, c, p + 3, ec)
     ELSE P(ms, p) = c \/ Listed(ms, c, p + 1, ec)
matchbracketclass(ms, c, p, ec) ==
  IF P(ms, p + 1) = "^" THEN ~Listed(ms, c, p + 2, ec) ELSE Listed(ms, c, p + 1, ec)
singlematch(ms, c, p, ep) ==
  CASE P(ms, p) = "." -> TRUE
    [] P(ms, p) = "%" -> match_class(c, P(ms, p + 1))
    [] P(ms, p) = "[" -> matchbracketclass(ms, c, p, ep - 1)
    [] OTHER -> P(ms, p) = c
Matches(ms, s, p, ep) == s < End(ms) /\ singlematch(ms, S(ms, s), p, ep)

\* What closes what opens at s.
matchbalance(ms, s, p) ==
  LET Count(c, t) == Cardinality({k \in s + 1 .. t : S(ms, k) = c})
      b == P(ms, p)
      e == P(ms, p + 1)
      Cont(t) == 1 - Count(e, t) + (IF b = e THEN 0 ELSE Count(b, t))
      ends == {t \in s + 1 .. End(ms) - 1 : Cont(t) = 0}
  IN  IF b = NOCHAR \/ e = NOCHAR THEN ERROR
      ELSE IF S(ms, s) # b \/ ends = {} THEN NOWHERE ELSE Min(ends) + 1

-----------------------------------------------------------------------------
(* Captures                                                                *)

Unfinished(ms) == {l \in 0 .. ms.level - 1 : ms.capture[l + 1].len = CAP_UNFINISHED}
check_capture(ms, digit) ==
  LET l == Code[digit] - Code["1"]
  IN  IF l \in (0 .. ms.level - 1) \ Unfinished(ms) THEN l ELSE ERROR
capture_to_close(ms) == IF Unfinished(ms) = {} THEN ERROR ELSE Max(Unfinished(ms))

start_capture(ms, s, p, what) ==
  LET opened == [ms EXCEPT !.capture = SubSeq(@, 1, ms.level) \o <<[init |-> s, len |-> what]>>,
                           !.level = @ + 1]
      res == match(opened, s, p)
  IN  IF ms.level >= LUA_MAXCAPTURES THEN M(ERROR, ms)
      ELSE IF res.at = NOWHERE THEN [res EXCEPT !.ms.level = @ - 1] ELSE res

\* A failed attempt that leaves its capture closed.
end_capture_Kept(ms, s, p) ==
  LET l == capture_to_close(ms)
  IN  IF l = ERROR THEN M(ERROR, ms)
      ELSE match([ms EXCEPT !.capture[l + 1].len = s - ms.capture[l + 1].init], s, p)
end_capture(ms, s, p) ==
  LET l   == capture_to_close(ms)
      res == match([ms EXCEPT !.capture[l + 1].len = s - ms.capture[l + 1].init], s, p)
  IN  IF l = ERROR THEN M(ERROR, ms)
      ELSE IF res.at = NOWHERE THEN [res EXCEPT !.ms.capture[l + 1].len = CAP_UNFINISHED]
      ELSE res

\* The length of a position capture is (size_t) -2.
match_capture(ms, s, digit) ==
  LET l   == check_capture(ms, digit)
      cap == ms.capture[l + 1]
  IN  IF l = ERROR THEN ERROR
      ELSE IF /\ cap.len >= 0 /\ End(ms) - s >= cap.len
              /\ Piece(ms.src, cap.init, cap.init + cap.len) = Piece(ms.src, s, s + cap.len)
           THEN s + cap.len ELSE NOWHERE

-----------------------------------------------------------------------------
(* match                                                                   *)

Fewer(ms, s, i, ep) ==
  LET res == match(ms, s + i, ep + 1)
  IN  IF res.at # NOWHERE \/ i = 0 THEN res ELSE Fewer(res.ms, s, i - 1, ep)
max_expand(ms, s, p, ep) ==
  Fewer(ms, s, Max({i \in 0 .. End(ms) - s : \A k \in 0 .. i - 1 : Matches(ms, s + k, p, ep)}), ep)
min_expand(ms, s, p, ep) ==
  LET res == match(ms, s, ep + 1)
  IN  IF res.at = NOWHERE /\ Matches(ms, s, p, ep) THEN min_expand(res.ms, s + 1, p, ep) ELSE res
optional(ms, s, ep) ==
  LET res == match(ms, s + 1, ep + 1)
  IN  IF res.at # NOWHERE THEN res ELSE match(res.ms, s, ep + 1)

Goes(s, ms, p) == IF s \in {NOWHERE, ERROR} THEN M(s, ms) ELSE match(ms, s, p)
Frontier(ms, s, p) ==
  LET ep == classend(ms, p)
      previous == IF s = 0 THEN NOCHAR ELSE S(ms, s - 1)
  IN  IF P(ms, p) # "[" \/ ep = ERROR THEN M(ERROR, ms)
      ELSE IF matchbracketclass(ms, previous, p, ep - 1) \/ ~matchbracketclass(ms, S(ms, s), p, ep - 1)
      THEN M(NOWHERE, ms) ELSE match(ms, s, ep)
PatternItem(ms, s, p) ==
  LET ep == classend(ms, p)
      m  == Matches(ms, s, p, ep)
      suffix == P(ms, ep)
  IN  CASE ep = ERROR -> M(ERROR, ms)
        [] suffix = "?" -> IF m THEN optional(ms, s, ep) ELSE match(ms, s, ep + 1)
        [] suffix = "*" -> max_expand(ms, s, p, ep)
        [] suffix = "+" -> IF m THEN max_expand(ms, s + 1, p, ep) ELSE M(NOWHERE, ms)
        [] suffix = "-" -> min_expand(ms, s, p, ep)
        [] OTHER -> IF m THEN match(ms, s + 1, ep) ELSE M(NOWHERE, ms)
match(ms, s, p) ==
  LET c == P(ms, p)
      next == P(ms, p + 1)
  IN  CASE c = "(" /\ next = ")" -> start_capture(ms, s, p + 2, CAP_POSITION)
        [] c = "(" /\ next # ")" -> start_capture(ms, s, p + 1, CAP_UNFINISHED)
        [] c = ")" -> end_capture(ms, s, p + 1)
        [] c = "%" /\ next = "b" -> Goes(matchbalance(ms, s, p + 2), ms, p + 4)
        [] c = "%" /\ next = "f" -> Frontier(ms, s, p + 2)
        [] c = "%" /\ isdigit(next) -> Goes(match_capture(ms, s, next), ms, p + 2)
        [] c = NOCHAR -> M(s, ms)
        [] c = "$" /\ next = NOCHAR -> M(IF s = End(ms) THEN s ELSE NOWHERE, ms)
        [] OTHER -> PatternItem(ms, s, p)

-----------------------------------------------------------------------------
(* Results                                                                 *)

Str(text) == <<"str", text>>
Num(n) == <<"num", n>>
Nil == <<"nil">>
Error == <<"error">>
push_onecapture(ms, i, s, e) ==
  LET cap == ms.capture[i + 1]
  IN  CASE i >= ms.level -> IF i = 0 THEN Str(Piece(ms.src, s, e)) ELSE Error
        [] i < ms.level /\ cap.len = CAP_UNFINISHED -> Error
        [] i < ms.level /\ cap.len = CAP_POSITION -> Num(cap.init + 1)
        [] OTHER -> Str(Piece(ms.src, cap.init, cap.init + cap.len))
Levels(ms, whole) == IF ms.level = 0 /\ whole THEN 1 ELSE ms.level
\* whole is s # NOWHERE.
push_captures(ms, s, e, whole) ==
  LET pushed == [i \in 1 .. Levels(ms, whole) |-> push_onecapture(ms, i - 1, s, e)]
  IN  IF Error \in ToSet(pushed) THEN <<Error>> ELSE pushed

posrelat(pos, len) == IF pos >= 0 THEN pos ELSE len + pos + 1
SPECIALS == {"^", "$", "*", "+", "?", ".", "(", "[", "%", "-"}

\* l1 places are left to look at.
Search(s1, from, l1, s2) ==
  LET hits == {i \in from .. from + l1 - 1 : CharAt(s1, i) = CharAt(s2, 0)}
      init == Min(hits) + 1
  IN  IF hits = {} THEN NOWHERE
      ELSE IF Piece(s1, init, init + Len(s2) - 1) = Piece(s2, 1, Len(s2)) THEN init - 1
      ELSE Search(s1, init, l1 - (init - from), s2)
lmemfind(s1, from, s2) ==
  LET l1 == Len(s1) - from
  IN  IF s2 = "" THEN from ELSE IF Len(s2) > l1 THEN NOWHERE
      ELSE Search(s1, from, l1 - (Len(s2) - 1), s2)

\* The first place from s on where the pattern from p on matches, as [from, M].
FirstFrom(ms, s, p, anchor) ==
  LET res == match(Ready(ms), s, p)
  IN  IF res.at # NOWHERE \/ anchor \/ s >= End(ms) THEN [from |-> s, at |-> res.at, ms |-> res.ms]
      ELSE FirstFrom(ms, s + 1, p, anchor)
MatchState(call) == [src |-> call.src, pat |-> call.pat, level |-> 0, capture |-> <<>>]
Anchored(call) == CharAt(call.pat, 0) = "^"
Start(call) == IF Anchored(call) THEN 1 ELSE 0

PlainFound(at, len) == IF at = NOWHERE THEN <<Nil>> ELSE <<Num(at + 1), Num(at + len)>>
FindResult(call, r) ==
  CASE r.at = ERROR -> <<Error>>
    [] r.at = NOWHERE  -> <<Nil>>
    [] r.at >= 0 /\ call.fn = "find" ->
         LET captures == push_captures(r.ms, r.from, r.at, FALSE)
         IN  IF captures = <<Error>> THEN captures ELSE <<Num(r.from + 1), Num(r.at)>> \o captures
    [] OTHER -> push_captures(r.ms, r.from, r.at, TRUE)
str_find_aux(call) ==
  LET from == posrelat(call.init, Len(call.src)) - 1
      init == IF from < 0 THEN 0 ELSE IF from > Len(call.src) THEN Len(call.src) ELSE from
      plain == call.plain \/ \A i \in 0 .. Len(call.pat) - 1 : CharAt(call.pat, i) \notin SPECIALS
  IN  IF call.fn = "find" /\ plain
      THEN PlainFound(lmemfind(call.src, init, call.pat), Len(call.pat))
      ELSE FindResult(call, FirstFrom(MatchState(call), init, Start(call), Anchored(call)))

-----------------------------------------------------------------------------
(* What gsub puts in                                                       *)

\* The text that a value adds, and TRUE if all went well.
Added(text, value) ==
  [ok |-> value # Error, text |-> IF value[1] = "str" THEN text \o value[2]
                                  ELSE IF value[1] = "num" THEN text \o ToString(value[2]) ELSE text]
Filled(ms, news, i, r, acc) ==
  LET c == CharAt(news, i)
      next == CharAt(news, i + 1)
      value == IF ~isdigit(next) THEN Str(next)
               ELSE IF next = "0" THEN Str(Piece(ms.src, r.s, r.e))
               ELSE push_onecapture(ms, Code[next] - Code["1"], r.s, r.e)
  IN  IF i >= Len(news) \/ ~acc.ok THEN acc
      ELSE IF c # "%" THEN Filled(ms, news, i + 1, r, Added(acc.text, Str(c)))
      ELSE Filled(ms, news, i + 2, r, Added(acc.text, value))
add_s(ms, text, s, e, news) == Filled(ms, news, 0, [s |-> s, e |-> e], [ok |-> TRUE, text |-> text])
\* A value that is used: nothing keeps the text, and a table cannot be added.
Used(ms, text, s, e, value) ==
  IF value \in {Nil, <<"false">>} THEN Added(text, Str(Piece(ms.src, s, e)))
  ELSE IF value[1] \in {"str", "num"} THEN Added(text, value)
  ELSE Added(text, Error)
Field(map, key) == IF \E x \in map : x[1] = key THEN (CHOOSE x \in map : x[1] = key)[2] ELSE Nil
add_value(ms, text, s, e, repl) ==
  CASE repl.kind = "string"   -> add_s(ms, text, s, e, repl.text)
    [] repl.kind = "table"    -> Used(ms, text, s, e, Field(repl.map, push_onecapture(ms, 0, s, e)))
    [] repl.kind = "function" -> Used(ms, text, s, e, Last(push_captures(ms, s, e, TRUE)))

-----------------------------------------------------------------------------
(* Calls                                                                   *)

SmInit == pm = [call |-> [fn |-> "none"], pc |-> "idle"]
CallMatch ==
  /\ pm.pc = "idle"
  /\ \E c \in MatchCalls :
       pm' = [call |-> c, pc |-> "called", at |-> 0, n |-> 0, out |-> <<>>, text |-> ""]

Runs(fns) == pm.pc = "called" /\ pm.call.fn \in fns

Find ==
  /\ Runs({"find", "match"})
  /\ pm' = [pm EXCEPT !.pc = "done", !.out = str_find_aux(pm.call)]

\* The iterator of gmatch is called once more; the pattern has no anchor.
gmatch_aux ==
  /\ Runs({"gmatch"})
  /\ IF pm.at > Len(pm.call.src) THEN pm' = [pm EXCEPT !.pc = "done"]
     ELSE \E r \in {FirstFrom(MatchState(pm.call), pm.at, 0, FALSE)} :
          \E captures \in {IF r.at >= 0 THEN push_captures(r.ms, r.from, r.at, TRUE) ELSE <<>>} :
            pm' = IF r.at = NOWHERE THEN [pm EXCEPT !.pc = "done"]
                  ELSE IF r.at = ERROR \/ captures = <<Error>> THEN [pm EXCEPT !.pc = "failed"]
                  ELSE [pm EXCEPT !.at = IF r.at = r.from THEN r.at + 1 ELSE r.at, !.n = @ + 1,
                                  !.out = Append(@, captures)]

Behind(src, at) == Piece(src, at, Len(src))
\* One round of the loop of gsub: e is what matched and added what came of it.
Substitute(call, e, added) ==
  LET at   == IF e.at > pm.at THEN e.at ELSE pm.at + 1
      text == IF e.at > pm.at THEN added.text ELSE added.text \o CharAt(call.src, pm.at)
      n    == IF e.at >= 0 THEN pm.n + 1 ELSE pm.n
      over == (e.at <= pm.at /\ pm.at >= Len(call.src)) \/ Anchored(call)
  IN  IF ~added.ok THEN [pm EXCEPT !.pc = "failed"]
      ELSE IF over THEN [pm EXCEPT !.pc = "done", !.n = n, !.text = text \o Behind(call.src, at)]
      ELSE [pm EXCEPT !.at = at, !.n = n, !.text = text]
str_gsub ==
  /\ Runs({"gsub"})
  /\ LET call == pm.call
     IN  IF pm.n >= call.max
         THEN pm' = [pm EXCEPT !.pc = "done", !.text = @ \o Behind(call.src, pm.at)]
         ELSE \E e \in {match(MatchState(call), pm.at, Start(call))} :
              \E added \in {IF e.at >= 0 THEN add_value(e.ms, pm.text, pm.at, e.at, call.repl)
                            ELSE [ok |-> e.at = NOWHERE, text |-> pm.text]} :
                pm' = Substitute(call, e, added)

SmNext == CallMatch \/ Find \/ gmatch_aux \/ str_gsub
=============================================================================
