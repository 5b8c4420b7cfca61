------------------------------ MODULE Patterns ------------------------------
(***************************************************************************)
(* What patterns mean by the manual of Lua, and module StrMatch checked    *)
(* against it.                                                             *)
(*                                                                         *)
(* A pattern is [anchor, items].  Its items are single characters of a     *)
(* class [text, has], so many times as the suffix allows, and what else    *)
(* there is.  Ways lists all the ways in which items match from a place    *)
(* on, in the order in which the manual prefers them.                      *)
(***************************************************************************)
EXTENDS StrMatch

One(class, suffix) == [k |-> "one", class |-> class, suffix |-> suffix, n |-> 0]
Other(k, class, n) == [k |-> k, class |-> class, suffix |-> "", n |-> n]
NoClass == [text |-> "", has |-> {}]
Opening == Other("open", NoClass, 0)
Closing == Other("close", NoClass, 0)
Position == Other("position", NoClass, 0)
Dollar == Other("end", NoClass, 0)
BackReference(n) == Other("back", NoClass, n)
\* class.text is the two characters.
Balance(x, y) == Other("balance", [text |-> x \o y, has |-> {}], 0)
FrontierOf(class) == Other("frontier", class, 0)

ItemText(it) ==
  CASE it.k = "one"      -> it.class.text \o it.suffix
    [] it.k = "open"     -> "("
    [] it.k = "close"    -> ")"
    [] it.k = "position" -> "()"
    [] it.k = "end"      -> "$"
    [] it.k = "back"     -> "%" \o ToString(it.n)
    [] it.k = "balance"  -> "%b" \o it.class.text
    [] it.k = "frontier" -> "%f" \o it.class.text
PatternText(pattern) ==
  FoldLeft(LAMBDA text, it : text \o ItemText(it), IF pattern.anchor THEN "^" ELSE "", pattern.items)

\* How often a suffix lets an item match that could match up to most times.
Counts(suffix, most) ==
  LET down == [i \in 1 .. most + 1 |-> most + 1 - i]
  IN  CASE suffix = "*" -> down
        [] suffix = "+" -> Front(down)
        [] suffix = "-" -> Reverse(down)
        [] suffix = "?" -> IF most > 0 THEN <<1, 0>> ELSE <<0>>
        [] suffix = ""  -> IF most > 0 THEN <<1>> ELSE <<>>

\* Captures are [from, to], to = -1 while open and -2 for a position.
Opened(caps) == {i \in DOMAIN caps : caps[i].to = -1}
Within(src, cap) == Piece(src, cap.from, cap.to)
RECURSIVE Ways(_, _, _, _)
Ways(items, src, s, caps) ==
  LET it   == Head(items)
      rest == Tail(items)
      Has(i) == i < Len(src) /\ CharAt(src, i) \in it.class.has
      most == Max({n \in 0 .. Len(src) - s : \A i \in s .. s + n - 1 : Has(i)})
      counts == Counts(it.suffix, most)
      Open(t) == Cardinality({i \in s .. t : CharAt(src, i) = CharAt(it.class.text, 0)})
      Shut(t) == Cardinality({i \in s + 1 .. t : CharAt(src, i) = CharAt(it.class.text, 1)})
      balances == {t \in s + 1 .. Len(src) - 1 : IF CharAt(it.class.text, 0) = CharAt(it.class.text, 1)
                                                  THEN Shut(t) = 1 ELSE Shut(t) = Open(t)}
      If(test, to, c) == IF test THEN Ways(rest, src, to, c) ELSE <<>>
  IN  IF items = <<>> THEN <<[to |-> s, caps |-> caps]>>
      ELSE CASE it.k = "one" ->
                  FlattenSeq([i \in DOMAIN counts |-> Ways(rest, src, s + counts[i], caps)])
             [] it.k = "open"  -> Ways(rest, src, s, Append(caps, [from |-> s, to |-> -1]))
             [] it.k = "close" -> Ways(rest, src, s, [caps EXCEPT ![Max(Opened(caps))].to = s])
             [] it.k = "position" -> Ways(rest, src, s, Append(caps, [from |-> s, to |-> -2]))
             [] it.k = "end"   -> If(s = Len(src), s, caps)
             [] it.k = "back"  ->
                  LET text == Within(src, caps[it.n])
                  IN  If(caps[it.n].to # -2 /\ text = Piece(src, s, Min({s + Len(text), Len(src)})),
                         s + Len(text), caps)
             [] it.k = "balance" ->
                  If(CharAt(src, s) = CharAt(it.class.text, 0) /\ balances # {}, Min(balances) + 1, caps)
             [] it.k = "frontier" ->
                  If(CharAt(src, s) \in it.class.has /\ CharAt(src, s - 1) \notin it.class.has, s, caps)

-----------------------------------------------------------------------------
(* The first match from a place on, and all matches                        *)

MatchesFrom(pattern, src, at) ==
  LET starts == {s \in at .. Len(src) : (pattern.anchor => s = at) /\ Ways(pattern.items, src, s, <<>>) # <<>>}
  IN  IF starts = {} THEN <<>>
      ELSE <<[from |-> Min(starts)] @@ Head(Ways(pattern.items, src, Min(starts), <<>>))>>
RECURSIVE AllMatches(_, _, _)
AllMatches(pattern, src, at) ==
  LET m == MatchesFrom(pattern, src, at)
  IN  IF m = <<>> THEN <<>>
      ELSE m \o AllMatches(pattern, src, IF m[1].to = m[1].from THEN m[1].to + 1 ELSE m[1].to)
Captured(src, m) ==
  [i \in DOMAIN m.caps |-> IF m.caps[i].to = -2 THEN Num(m.caps[i].from + 1) ELSE Str(Within(src, m.caps[i]))]
CapturedValues(src, m) == IF m.caps = <<>> THEN <<Str(Within(src, m))>> ELSE Captured(src, m)

\* What a replacement makes of a match: a number stands for a capture.
Replacement(repl, src, m) ==
  LET Text(v) == IF v[1] = "num" THEN ToString(v[2]) ELSE v[2]
      Inserted(n) == IF n = 0 THEN Within(src, m) ELSE Text(CapturedValues(src, m)[n])
      kept == Within(src, m)
      value == Field(repl.map, CapturedValues(src, m)[1])
  IN  CASE repl.kind = "string"   ->
             FoldLeft(LAMBDA text, x : text \o (IF x[1] = "num" THEN Inserted(x[2]) ELSE x[2]), "", repl.pieces)
        [] repl.kind = "table"    -> IF value = Nil THEN kept ELSE Text(value)
        [] repl.kind = "function" -> Text(Last(CapturedValues(src, m)))
Substituted(call, ms) ==
  LET step(acc, m) == [text |-> acc.text \o Piece(call.src, acc.at, m.from) \o Replacement(call.repl, call.src, m),
                       at |-> m.to]
      all == FoldLeft(step, [text |-> "", at |-> 0], ms)
  IN  all.text \o Behind(call.src, all.at)

-----------------------------------------------------------------------------
\* Where find and match begin.
FromFor(call) ==
  Min({Len(call.src), Max({0, IF call.init >= 0 THEN call.init - 1 ELSE Len(call.src) + call.init})})
Expected(call) ==
  LET m == MatchesFrom(call.meant, call.src, FromFor(call))
  IN  IF m = <<>> THEN <<Nil>>
      ELSE (IF call.fn = "find" THEN <<Num(m[1].from + 1), Num(m[1].to)>> \o Captured(call.src, m[1])
            ELSE CapturedValues(call.src, m[1]))
SubstitutedMatches(call) ==
  LET all == IF call.meant.anchor THEN MatchesFrom(call.meant, call.src, 0)
             ELSE AllMatches(call.meant, call.src, 0)
  IN  SubSeq(all, 1, Min({call.max, Len(all)}))

(* find, match, gmatch and gsub find the leftmost match that the manual     *)
(* prefers, with the captures of that match and of no attempt before it;    *)
(* they go on behind it or, if it is empty, one character on, and gsub puts *)
(* the replacements in between what it keeps (match, start_capture,        *)
(* end_capture, max_expand, str_gsub).  Malformed patterns are refused.     *)
MatchesAreRight ==
  LET call == pm.call
  IN  pm.pc \in {"done", "failed"} =>
        IF call.meant.wrong THEN pm.pc = "failed" \/ pm.out = <<Error>>
        ELSE /\ pm.pc = "done"
             /\ CASE call.fn \in {"find", "match"} -> pm.out = Expected(call)
                  [] call.fn = "gmatch" ->
                       LET all == AllMatches(call.meant, call.src, 0)
                       IN  pm.out = [i \in DOMAIN all |-> CapturedValues(call.src, all[i])]
                  [] call.fn = "gsub" ->
                       LET ms == SubstitutedMatches(call)
                       IN  pm.n = Len(ms) /\ pm.text = Substituted(call, ms)
=============================================================================
