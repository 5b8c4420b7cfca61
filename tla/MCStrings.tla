------------------------------ MODULE MCStrings ------------------------------
(***************************************************************************)
(* Instances for modules Patterns and TabLib: the calls that are made.     *)
(***************************************************************************)
EXTENDS Patterns, TabLib

-----------------------------------------------------------------------------
(* Characters and classes                                                  *)

Cls(text, has) == [text |-> text, has |-> has]
LettersAB == {"a", "b"}
Everything == {"a", "b", "1", "-", "]", ".", "^", "$", "%", NOCHAR}
A == Cls("a", {"a"})
B == Cls("b", {"b"})
AnyChar == Cls(".", Everything \ {NOCHAR})
CharClasses ==
  {A, AnyChar, Cls("%a", LettersAB), Cls("%A", Everything \ LettersAB),
   Cls("%.", {"."}), Cls("$", {"$"}), Cls("^", {"^"}), Cls("%u", {}),
   Cls("%w", LettersAB \cup {"1"}), Cls("%P", LettersAB \cup {"1", NOCHAR}),
   Cls("[ab]", LettersAB), Cls("[^a]", Everything \ {"a"}), Cls("[a-b]", LettersAB),
   Cls("[%d-a]", {"1", "-", "a"}), Cls("[^%a-]", Everything \ {"a", "b", "-"}),
   Cls("[]]", {"]"}), Cls("[^]a]", Everything \ {"a", "]"}),
   Cls("[a-]", {"a", "-"}), Cls("[%]b]", {"]", "b"}), Cls("]", {"]"})}

-----------------------------------------------------------------------------
(* Patterns                                                                *)

PatternOf(anchor, items) == [anchor |-> anchor, items |-> items, wrong |-> FALSE]
\* One class and its suffix, alone or with something behind.  ^ is no class
\* where the pattern starts, and $ is none where it ends.
Singles ==
  {p \in {PatternOf(an, <<One(c, q)>> \o more) :
            an \in BOOLEAN, c \in CharClasses, q \in {"", "*", "+", "-", "?"},
            more \in {<<>>, <<One(A, "")>>, <<Dollar>>}} :
     /\ IF p.anchor THEN Len(p.items) = 1 ELSE p.items[1].class.text # "^"
     /\ Len(p.items) > 1 \/ p.items[1].suffix # "" \/ p.items[1].class.text # "$"}
Simple == {One(A, ""), One(AnyChar, "*"), One(AnyChar, "-"), One(B, "?"), One(Cls("%a", LettersAB), "+")}
Few == {One(AnyChar, "*"), One(AnyChar, "-"), One(B, "?"), One(A, "")}
Structured ==
  {<<Opening, x, Closing, y, BackReference(1)>> : x \in Simple, y \in Simple}
  \cup {<<Opening, x, Opening, y, Closing, z, Closing>> : x \in Few, y \in Few, z \in Few}
  \cup {<<Opening, x, Closing, Opening, y, Closing, z>> : x \in Few, y \in Few, z \in Few}
  \cup {<<x, Position, y, BackReference(1)>> : x \in Simple, y \in Simple}
  \cup {<<Opening, x, Position, Closing, y, Dollar>> : x \in Simple, y \in Simple}
  \cup {<<x, Balance("a", "b"), y>> : x \in Simple, y \in Simple}
  \cup {<<x, Balance("b", "b")>> : x \in Simple}
  \cup {<<FrontierOf(c), x, Opening, FrontierOf(d), Closing>> :
          c \in {Cls("[a]", {"a"}), Cls("[^b]", Everything \ {"b"})}, x \in Simple,
          d \in {Cls("[%z]", {NOCHAR}), Cls("[b]", {"b"})}}
Literals == {<<>>, <<One(A, "")>>, <<One(A, ""), One(B, "")>>, <<One(A, ""), One(B, ""), One(A, "")>>}
Malformed ==
  {"%", "[a", "[%", "[%]", "[]", "[^]", "%fa", "%b", "%ba", ")", "(", "(()", "a)", "%1", "%0",
   "(a%1)", "(a)%2", "((a)", "()()()()"}

-----------------------------------------------------------------------------
(* Calls of find, match, gmatch and gsub                                   *)

NoRepl == [kind |-> "string", text |-> "", pieces |-> <<>>, map |-> {}]
Repls ==
  {[NoRepl EXCEPT !.text = "<%0%%>", !.pieces = <<Str("<"), Num(0), Str("%"), Str(">")>>],
   [NoRepl EXCEPT !.text = "%1", !.pieces = <<Num(1)>>],
   [NoRepl EXCEPT !.kind = "table", !.map = {<<Str("a"), Num(7)>>, <<Str(""), Str("e")>>}],
   [NoRepl EXCEPT !.kind = "function"]}
MatchCall(fn, src, pattern, init) ==
  [fn |-> fn, src |-> src, pat |-> PatternText(pattern), init |-> init, plain |-> FALSE,
   repl |-> NoRepl, max |-> 9, meant |-> pattern]
WrongCall(fn, pat) ==
  [MatchCall(fn, "ab", PatternOf(FALSE, <<>>), 1)
     EXCEPT !.pat = pat, !.meant.wrong = TRUE, !.repl.text = "%1"]
MCMatchCalls ==
  {MatchCall("find", s, p, 1) : s \in {"", "1a", "aa1b", "]a.", "^$a-"}, p \in Singles}
  \cup {MatchCall("find", s, PatternOf(FALSE, p), i) :
          s \in {"", "a", "aabab", "abaaba"}, p \in Literals, i \in {-9, -2, 0, 1, 2, 9}}
  \cup {[MatchCall("find", s, PatternOf(FALSE, <<One(Cls("%.", {"."}), "")>>), 1)
           EXCEPT !.plain = TRUE, !.pat = "."] : s \in {"a.", "a"}}
  \cup {MatchCall("match", s, PatternOf(FALSE, p), i) :
          s \in {"aba", "abaabb"}, p \in Structured, i \in {1, 2}}
  \cup {MatchCall("gmatch", s, PatternOf(FALSE, p), 1) :
          s \in {"", "b", "abaab", "bbab"},
          p \in {q \in Structured : Len(q) <= 5} \cup {<<x>> : x \in Simple} \cup {<<>>}}
  \cup {[MatchCall("gsub", s, PatternOf(an, p), 1) EXCEPT !.repl = r, !.max = max] :
          an \in BOOLEAN, max \in {0, 1, 9}, s \in {"", "babb"}, r \in Repls,
          p \in {<<x>> : x \in Simple} \cup {<<x, Opening, y, Closing>> : x \in Few, y \in Few}
                \cup {<<x, Position, Opening, y, Closing>> : x \in Few, y \in Few}}
  \cup {WrongCall(fn, p) : fn \in {"match", "gmatch", "gsub"}, p \in Malformed}

-----------------------------------------------------------------------------
(* Calls of sort, insert, remove and concat                                *)

Lists(most) == UNION {[1 .. n -> 1 .. 3] : n \in 0 .. most}
TableCall(fn, list, pos, v, order) ==
  [fn |-> fn, list |-> list, pos |-> pos, v |-> v, order |-> order]
\* sort with < of every list, and with any answers of a list with no equal ones.
MCTabCalls ==
  {TableCall("sort", list, 0, 0, "less") : list \in Lists(4) \cup [1 .. 6 -> 1 .. 2]}
  \cup {TableCall("sort", [k \in 1 .. n |-> k], 0, 0, "any") : n \in 0 .. 4}
  \cup {TableCall("insert", list, pos, 4, "less") : list \in Lists(2), pos \in 0 .. 5}
  \cup {TableCall("remove", list, pos, 0, "less") : list \in Lists(3), pos \in 0 .. 4}
  \cup {TableCall("concat", <<1, 2, 3>>, from, to, "less") : from \in 0 .. 4, to \in 0 .. 4}
=============================================================================
