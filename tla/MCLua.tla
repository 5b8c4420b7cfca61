------------------------------- MODULE MCLua --------------------------------
(***************************************************************************)
(* Programs for modules Vm and Lua, compiled by module Parser: what the    *)
(* hand-written ones show is noted with them, that of the expressions is    *)
(* what module Meaning says.                                               *)
(***************************************************************************)
EXTENDS Lua, Parser, Meaning

-----------------------------------------------------------------------------
(* Programs                                                                *)

\* The compiler is module Parser's.
MCCompile(text) == LET fs == luaY_parser(text) IN fs

\* The numerals of the programs, and the characters they name by a code.
Numbers == (0 .. 40) \cup {256}
OddNumerals == ("0x10" :> 16 @@ "1e1" :> 10 @@ "5." :> 5)
MCNumeralOf(s) ==
  IF \E n \in Numbers : ToString(n) = s THEN Num(CHOOSE n \in Numbers : ToString(n) = s)
  ELSE IF s \in DOMAIN OddNumerals THEN Num(OddNumerals[s]) ELSE Nil
MCCharOf(c) == CASE c = 10 -> "\n" [] c = 65 -> "A" [] OTHER -> "?"
MCStrLess(l, r) == <<l, r>> \in {<<"a", "b">>, <<"", "a">>, <<"", "b">>}
MCNumText(n) == ToString(n)

\* What a program shows, or "rejected"; ? is any value, * any outcome.
Outcome(words) ==
  LET toks == Front(Tokens(luaX_setinput(words)))
      Meant(k) == CASE k[1] = "number" -> Num(k[2])
                    [] k[1] = "string" -> Str(k[2])
                    [] k[1] = "nil" -> Nil
                    [] k[1] \in {"true", "false"} -> Bool(k[1] = "true")
                    [] k[1] = "name" -> <<k[2]>>
                    [] OTHER -> <<k[1]>>
  IN  <<>> \o [i \in DOMAIN toks |-> Meant(toks[i])]
SourceOf(lines) == FoldLeft(LAMBDA s, l : s \o l \o "\n", "", lines)
Program(lines, words, faults) ==
  [text |-> SourceOf(lines), out |-> Outcome(words), faults |-> faults]

\* Each call of counter has an n of its own, which outlives it.
Counters ==
  Program(<<"local function counter() local n = 0 return function() n = n + 1 return n end end",
    "local a = counter() emit(a(), a(), counter()())">>,
    "1 2 1", 0)
\* Each turn of a loop has variables of its own; break closes them.
LoopVariables ==
  Program(<<"local t = {}",
    "for i = 1, 3 do t[i] = function() i = i + 1 return i end if i == 2 then break end end",
    "emit(t[1](), t[1](), t[2](), t[3])",
    "local k = 0",
    "while k < 2 do local j = k t[k] = function() return j end k = k + 1 end",
    "emit(t[0](), t[1]())",
    "local r = 0",
    "repeat local d = r >= 1 t[r] = function() return d end r = r + 1 until d",
    "emit(t[0](), t[1]())">>,
    "2 3 3 nil 0 1 false true", 0)
\* Two closures and their function share a variable, open and closed.
SharedUpvalue ==
  Program(<<"local function f() local x = 1",
    "  local function get() return x end",
    "  local function set(v) x = v end",
    "  set(5) emit(x) x = 6 emit(get()) return get, set end",
    "local get, set = f() set(7) emit(get())",
    "do local a, b = 1, 2 emit(a, b) get = function() return b end end",
    "local c, d = 8, 9 emit(get())">>,
    "5 6 7 1 2 2", 0)
\* The targets of an assignment are evaluated before it is made.
Conflict ==
  Program(<<"local i, t = 1, {} local u = t",
    "i, t[i] = i + 1, 20 emit(i, u[1], u[2])",
    "t, t.x = 3, 4 emit(u.x, t)",
    "local a, b, c = 1 emit(a, b, c)",
    "a, b = b, a emit(a, b)",
    "a, b, c = (function() return 5, 6, 7, 8 end)() emit(a, b, c)",
    "a, b = 1, 2, emit(9) emit(a, b)",
    "local m, j = {}, 1 local n = m",
    "m[j], j = 5, 2 emit(n[1], n[2], j)",
    "m.y, m = 8, 9 emit(n.y, m)">>,
    "2 20 nil 4 3 1 nil nil nil 1 5 6 7 9 1 2 5 nil 2 8 9", 0)
\* Extra arguments, by ... and by arg.
Varargs ==
  Program(<<"local function f(a, ...) local b, c = ... return a, b, c, ... end",
    "emit(f(1)) emit(f(1, 2)) emit((f(1, 2, 3)))",
    "local function g(...) return arg.n, arg[1] end",
    "emit(g(4, 5))",
    "local function h(...) return {...} end",
    "emit(#h(1, 2, 3))">>,
    "1 nil nil 1 2 nil 2 1 2 4 3", 0)
\* Constructors in batches; methods.
Tables ==
  Program(<<"local t = {1, 2, 3, x = 4, 5, 6, 7, 8, 9, (function() return 10, 11 end)()}",
    "emit(#t, t[3], t.x, t[9], t[10])",
    "local o = {v = 1} function o:inc(d) self.v = self.v + d return self end",
    "emit(o:inc(2):inc(3).v)",
    "o.p = {q = {}} function o.p.q.r(x) return x end emit(o.p.q.r(5))">>,
    "10 3 4 10 11 6 5", 0)
\* Numeric and generic loops.
Loops ==
  Program(<<"for i = 3, 1, 0 - 1 do emit(i) end",
    "for i = '4', 5 do emit(i) end",
    "for i = 2, 1 do emit(9) end",
    "for a, b in (function(s, c) if c < s then return c + 1, c end end), 2, 0 do emit(a, b) end",
    "local n = 0 while true do n = n + 1 if n == 3 then break elseif n == 1 then emit('a') else emit('b') end end",
    "repeat local z = n n = n - 1 until z == 2 emit(n)">>,
    "3 2 1 4 5 1 0 2 1 'a' 'b' 1", 0)
\* Indexing, arithmetic and calls by metamethods.
Metamethods ==
  Program(<<"local m = {} local t = setmetatable({}, m)",
    "m.__index = function(t, k) return k end emit(t.a, t[2])",
    "m.__index = {b = 3} emit(t.b, t.a)",
    "m.__newindex = function(t, k, v) emit(k, v) end t.c = 1 emit(t.c)",
    "m.__newindex = m t.d = 2 emit(m.d)",
    "m.__add = function(x, y) return 7 end emit(t + 1, 1 + t)",
    "m.__call = function(self, x, y) return y, x end emit(t(1, 2))",
    "m.__concat = function(x, y) return 'b' end emit(1 .. t, 'a' .. 2 .. t)",
    "m.__unm = function(x) return 8 end emit(-t)">>,
    "'a' 2 3 nil 'c' 1 nil 2 7 7 2 1 'b' 'ab' 8", 0)
\* Comparison by metamethods, and what is known of their absence.
Comparisons ==
  Program(<<"local m = {} local a, b = setmetatable({}, m), setmetatable({}, m)",
    "emit(a == b) m.__eq = function() return 1 end emit(a == b, a ~= b)",
    "m.__lt = function(x, y) return x == a end",
    "emit(pcall(function() return a < {} end))",
    "m.__eq = nil emit(a < b, a > b, a <= b, b >= a, a == b)",
    "m.__le = function() return nil end emit(a <= b, not (a <= b))",
    "emit(a.x) m.__index = {x = 5} emit(a.x) m.__index = nil emit(a.x)",
    "emit('a' < 'b', 'a' <= '', 1 <= 1, 'a' >= 'a')">>,
    "false true false false ? true false true true false false true nil 5 nil true false true true", 0)
\* Errors close upvalues and leave the frames behind.
Protected ==
  Program(<<"local g",
    "local function f(x) local y = x g = function() y = y + 1 return y end",
    "  if x > 1 then error('a') end return x end",
    "emit(pcall(f, 1)) emit(pcall(f, 2)) emit(g(), g())",
    "emit(pcall(pcall, error, 'b'))",
    "emit(pcall(function() local z = 3 pcall(function() z = 4 error() end) return z end))",
    "emit((pcall(1)), (pcall(function() return nil + 1 end)))",
    "emit(pcall(emit, 6))">>,
    "true 1 false 'a' 3 4 true false 'b' true 4 false false 6 true", 0)
\* Values go in and out; a coroutine ends, fails or dies.
Coroutines ==
  Program(<<"local co = create(function(a, b) local c = yield(a + b) emit(c) local d, e = yield(c, 1) return d, e, 9 end)",
    "emit(status(co)) emit(resume(co, 1, 2)) emit(status(co)) emit(resume(co, 5)) emit(resume(co, 7, 8)) emit(status(co)) emit(resume(co))",
    "local bad bad = create(function() emit(status(bad)) emit(resume(bad)) error('b') end)",
    "emit(resume(bad)) emit(resume(bad)) emit(status(bad))">>,
    "'suspended' true 3 'suspended' 5 true 5 1 true 7 8 9 'dead' false 'dead' 'running' false 'non-suspended' false 'b' false 'dead' 'dead'", 0)
\* A coroutine runs a coroutine; upvalues of a suspended one stay open.
Generators ==
  Program(<<"local x",
    "local function gen(n) return create(function() local i = 0",
    "  x = function() i = i + 10 return i end",
    "  while i < n do i = i + 1 yield(i) end end) end",
    "local outer = create(function() local inner = gen(12)",
    "  while true do local ok, v = resume(inner) if not v then return 'a' end yield(v) end end)",
    "emit(resume(outer)) emit(x()) emit(resume(outer)) emit(resume(outer)) emit(resume(outer))",
    "local a a = create(function() local b = create(function() emit(status(a)) emit(resume(a)) return yield(1) end)",
    "  emit(resume(b)) emit(status(b)) return resume(b, 2) end)",
    "emit(resume(a))">>,
    "true 1 11 true 12 true 'a' false 'dead' 'normal' false 'non-suspended' true 1 'suspended' true true 2", 0)
\* A yield does not cross a C function: it is an error in the coroutine.
YieldAcross ==
  Program(<<"local co = create(function() emit(pcall(yield, 1)) local t = setmetatable({}, {__index = function() return yield(2) end})",
    "  emit((pcall(function() return t.x end))) yield(3) return t.x end)",
    "emit(resume(co)) emit((resume(co))) emit(status(co))">>,
    "false ? false true 3 false 'dead'", 0)
\* A tail call takes the frame of its caller.
TailCalls ==
  Program(<<"local function loop(n, k) local f = function() return n end if n > 12 then return k(n, f()) end return loop(n + 1, k) end",
    "emit(loop(0, function(...) return ... end))",
    "local function back() return pcall(error, 'a') end emit(back())",
    "local function none() return end emit(none(), (none()))">>,
    "13 13 false 'a' nil nil", 0)
\* Endless recursion is an error that can be handled.
Overflow ==
  Program(<<"local n = 0 local function down() n = n + 1 down() end",
    "emit((pcall(down))) emit(n > 9) n = 0 emit((pcall(down)))",
    "local function catch() local ok, m = pcall(catch) return m end emit((catch() == nil))">>,
    "false true false false", 0)
\* Recursion through C functions is an error too.
CStack ==
  Program(<<"local t = {} setmetatable(t, {__index = function(t, k) return t[k] end})",
    "emit((pcall(function() return t.x end)))",
    "local u = setmetatable({}, t) t.__index = u emit((pcall(function() return u.y end)))",
    "u = {} setmetatable(t, nil) setmetatable(u, {__newindex = u}) emit((pcall(function() u.z = 1 end)))">>,
    "false false false", 0)
\* An allocation fails.
Memory ==
  Program(<<"local t = {} emit(pcall(function() local x = 5 local f = function() return x end t.f = f local s = 'a' .. x",
    "  return {s} end)) if t.f then emit(t.f()) end">>,
    "*", 1)
\* Priorities, folding, and strings as numbers.
Arithmetic ==
  Program(<<"emit(1 + 2 * 3 ^ 2, -2 ^ 2 + 8, 7 % 4 - 1, '4' + 1, (1 + 2) * 3, 2 ^ 2 ^ 3 == 256, 6 / 3)",
    "local x = 3 emit(x * 2 + 1, x - 1 - 1, -x + 9, #'a', not x, not not nil, 1 .. 2 == 12, x .. x .. '')",
    "emit(1 < 2 == true, 'a' .. '' == 'a' and 1 or 2, nil == false)">>,
    "19 4 2 5 9 true 2 7 1 6 1 false false false '33' true 1 false", 0)
\* Globals and many constants.
GlobalNames ==
  Program(<<"x = 1 y = 2 function f(a) z = a return x, y, z end emit(f(10), 11, 12, 13, 14, 'a', 'b', '4')",
    "local t = {a = 20, b = 21, c = 22, d = 23} emit(t.d - 20, t.c - 19, t.b == 26, t.a < 27)">>,
    "1 11 12 13 14 'a' 'b' '4' 3 3 false true", 0)
\* Comments, long strings, escapes, numerals and the ends of lines.
Lexical ==
  Program(<<"--[[ a comment ]] emit('\\65\\'\\z' == \"A'z\", #\"\\\"\") -- [[ not long",
    "--[==[ ]] ]=] -- ]==] emit([[",
    "a]b]], [=[a]]b]=], 0x10, 1e1, 1 ..2, 5.)",
    "emit(#'a\\",
    "b', 'a\\nb' == [[a",
    "b]]) --",
    "emit(1~=2, 3<=3, 4-- 5",
    ")",
    "local f = emit local t = { f",
    "(6) } if t.x then --[[]]",
    "end">>,
    "true 1 'a]b' 'a]]b' 16 10 '12' 5 3 true true true 4 6", 0)
HandWritten ==
  {Counters, LoopVariables, SharedUpvalue, Conflict, Varargs, Tables, Loops, Metamethods,
  Comparisons, Protected, Coroutines, Generators, YieldAcross, TailCalls, Overflow, CStack,
  Memory, Arithmetic, GlobalNames, Lexical}
\* Expressions, as an argument, as a condition and in an assignment.
Leaves == {Leaf("nil", Nil), Leaf("1", Num(1)), Leaf("x", Bool(FALSE)), Leaf("y", Num(2))}
Expressions == Sided(Leaves) \cup Balanced(Leaves \ {Leaf("nil", Nil)})
Shown(e) ==
  [text |-> "local x, y = false, 2 emit(" \o TextFor(e) \o ") if " \o TextFor(e)
      \o " then emit(1) else emit(2) end x = " \o TextFor(e) \o " emit(x)",
   out |-> <<Value(e), Num(IF Falsy(Value(e)) THEN 2 ELSE 1), Value(e)>>, faults |-> 0]
Wrong ==
  {"x = ", "emit\n(1)", "f()\n(g)()", "x = 3x", "x = 1..2", "x = 'a", "x = 'a\nb'",
   "x = [[a", "--[==[ ]=]", "x = [[ [[ ]] ]]", "x = [=a", "x = '\\300'", "break",
   "for i = 1 do end", "x + 1", "f() = 1", "x = ...1", "function f() return ... end",
   "local function f(x, ) end", "if x then", "end", "return 1 x = 2",
   "while x do break y() end",
   "local a, b, c, d, e, f, g, h, i, j, k, l, m, n, o, p, q, r, s, t, u",
   "x = ((((((((((((1))))))))))))", "x = {1, 2", "x = not", "a.b:c = 1", "x = ~1",
   "x = 1 = 2", "local a.b = 1", "x = {f\n(1)} emit\n(2)",
   "local a, b, c, d, e = 1 x = function() return a, b, c, d, e end", "x = f'a\\",
   "for a, 1 in b do end", "for a do end", "goto x", "a.1 = 2"}
Refused(text) == [text |-> text, out |-> <<(<<"rejected">>)>>, faults |-> 0]
MCPrograms ==
  LET sought == HandWritten \cup {Refused(w) : w \in Wrong} \cup {Shown(e) : e \in Expressions}
  IN  sought
=============================================================================
