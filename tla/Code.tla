-------------------------------- MODULE Code --------------------------------
(***************************************************************************)
(* lua-5.1/src/lcode.c: the code generator of the Lua compiler.            *)
(*                                                                         *)
(* A FuncState is a record; a function that changes it returns the new one. *)
(* A function that changes a FuncState and an expression descriptor takes  *)
(* and returns both, as a record X(fs, e).  Jumps that wait for their      *)
(* target are linked through their own offsets, as in the code.  Line      *)
(* information is left out; numbers are integers.                          *)
(***************************************************************************)
EXTENDS Integers, Sequences, SequencesExt, FiniteSetsExt

CONSTANTS
  MAXINDEXRK,          \* largest constant that fits an operand
  LFIELDS_PER_FLUSH,   \* list items stored by one SETLIST
  MAXSTACK,            \* registers of a function
  MAXARG_sBx,          \* longest jump
  MAXARG_C,            \* largest batch number in a SETLIST
  LUAI_MAXCCALLS,      \* nesting of C calls, and of the parser's functions
  NumeralOf(_)         \* luaO_str2d: a number, or Nil

ASSUME CodeAssumption ==
  /\ MAXINDEXRK \in 0 .. 255 /\ LFIELDS_PER_FLUSH \in Nat \ {0}
  /\ MAXSTACK \in Nat /\ MAXARG_sBx \in Nat /\ MAXARG_C \in Nat /\ LUAI_MAXCCALLS \in Nat

NO_JUMP == -1
NO_REG == 255
BITRK == 256
LUA_MULTRET == -1
ISK(r) == r >= BITRK
RKASK(i) == i + BITRK

\* Values, here of constants: a tag and what it says.
Nil == <<"nil">>
Bool(b) == <<"bool", b>>
Num(n) == <<"num", n>>
Str(s) == <<"str", s>>
IsFalse(v) == v \in {Nil, Bool(FALSE)}

X(fs, e) == [fs |-> fs, e |-> e]
Expr(k, info) == [k |-> k, info |-> info, aux |-> 0, nval |-> 0, t |-> NO_JUMP, f |-> NO_JUMP]
PC(fs) == Len(fs.code)
CodeAt(fs, pc) == fs.code[pc + 1]
SetArg(fs, pc, arg, v) == [fs EXCEPT !.code[pc + 1][arg] = v]
hasjumps(e) == e.t # e.f
isnumeral(e) == e.k = "VKNUM" /\ e.t = NO_JUMP /\ e.f = NO_JUMP
Asserted(fs, c, what) == IF c THEN fs ELSE [fs EXCEPT !.failed = @ \cup {what}]
SyntaxError(fs, c, what) == IF c THEN [fs EXCEPT !.errors = @ \cup {what}] ELSE fs

RECURSIVE Jumps(_, _), patchlistaux(_, _, _, _, _), removevalues(_, _)

-----------------------------------------------------------------------------
(* Jump lists                                                              *)

TestModes == {"EQ", "LT", "LE", "TEST", "TESTSET", "TFORLOOP"}
fixjump(fs, pc, dest) ==
  LET offset == dest - (pc + 1)
      long   == offset > MAXARG_sBx \/ -offset > MAXARG_sBx
  IN  SetArg(SyntaxError(Asserted(fs, dest # NO_JUMP, "fixjump"), long, "too long"),
             pc, "b", offset)
luaK_getlabel(fs) == [fs EXCEPT !.lasttarget = PC(fs)]
getjump(fs, pc) ==
  LET offset == CodeAt(fs, pc).b
  IN  IF offset = NO_JUMP THEN NO_JUMP ELSE pc + 1 + offset
getjumpcontrol(fs, pc) ==
  IF pc >= 1 /\ CodeAt(fs, pc - 1).op \in TestModes THEN pc - 1 ELSE pc

Jumps(fs, list) == IF list = NO_JUMP THEN <<>> ELSE <<list>> \o Jumps(fs, getjump(fs, list))

need_value(fs, list) ==
  \E j \in ToSet(Jumps(fs, list)) : CodeAt(fs, getjumpcontrol(fs, j)).op # "TESTSET"
Patchable(fs, node) == CodeAt(fs, getjumpcontrol(fs, node)).op = "TESTSET"
patchtestreg(fs, node, reg) ==
  LET at == getjumpcontrol(fs, node)
      i  == CodeAt(fs, at)
  IN  IF ~Patchable(fs, node) THEN fs
      ELSE IF reg # NO_REG /\ reg # i.b THEN SetArg(fs, at, "a", reg)
      ELSE [fs EXCEPT !.code[at + 1] = [op |-> "TEST", a |-> i.b, b |-> 0, c |-> i.c]]
removevalues(fs, list) ==
  IF list = NO_JUMP THEN fs
  ELSE removevalues(patchtestreg(fs, list, NO_REG), getjump(fs, list))
\* Jumps that bring a value lead to vtarget, the others to dtarget.
patchlistaux(fs, list, vtarget, reg, dtarget) ==
  IF list = NO_JUMP THEN fs
  ELSE patchlistaux(fixjump(patchtestreg(fs, list, reg), list,
                            IF Patchable(fs, list) THEN vtarget ELSE dtarget),
                    getjump(fs, list), vtarget, reg, dtarget)
dischargejpc(fs) ==
  [patchlistaux(fs, fs.jpc, PC(fs), NO_REG, PC(fs)) EXCEPT !.jpc = NO_JUMP]

\* luaK_concat(fs, &l1, l2): the new head, and the code with the lists linked.
ConcatHead(l1, l2) == IF l1 = NO_JUMP THEN l2 ELSE l1
luaK_concat(fs, l1, l2) ==
  IF NO_JUMP \in {l1, l2} THEN fs ELSE fixjump(fs, Last(Jumps(fs, l1)), l2)
luaK_patchtohere(fs, list) ==
  LET g == luaK_getlabel(fs)
  IN  [luaK_concat(g, g.jpc, list) EXCEPT !.jpc = ConcatHead(g.jpc, list)]
luaK_patchlist(fs, list, target) ==
  IF target = PC(fs) THEN luaK_patchtohere(fs, list)
  ELSE patchlistaux(Asserted(fs, target < PC(fs), "patchlist"), list, target, NO_REG, target)

-----------------------------------------------------------------------------
(* Instructions and registers.  What a function that emits returns, the     *)
(* position of the instruction, is PC of the state it was given.           *)

luaK_code(fs, op, a, b, c) ==
  LET g == dischargejpc(fs)
  IN  [g EXCEPT !.code = Append(@, [op |-> op, a |-> a, b |-> b, c |-> c])]

\* Before the first instruction nothing is done, although a parameter is not
\* nil: in `function (a) a = nil` the assignment is lost.
luaK_nil(fs, from, n) ==
  LET previous == CodeAt(fs, PC(fs) - 1)
  IN  IF PC(fs) > fs.lasttarget /\ PC(fs) = 0 THEN fs
      ELSE IF /\ PC(fs) > fs.lasttarget
              /\ previous.op = "LOADNIL" /\ previous.a <= from /\ from <= previous.b + 1
      THEN SetArg(fs, PC(fs) - 1, "b", Max({previous.b, from + n - 1}))
      ELSE luaK_code(fs, "LOADNIL", from, from + n - 1, 0)
luaK_ret(fs, first, nret) == luaK_code(fs, "RETURN", first, nret + 1, 0)
\* The jump is at PC(fs); it takes over the jumps to here.
luaK_jump(fs) ==
  LET g == luaK_code([fs EXCEPT !.jpc = NO_JUMP], "JMP", 0, NO_JUMP, 0)
  IN  luaK_concat(g, PC(fs), fs.jpc)
\* The jump is at PC(fs) + 1.
condjump(fs, op, a, b, c) == luaK_jump(luaK_code(fs, op, a, b, c))

luaK_checkstack(fs, n) ==
  LET newstack == fs.freereg + n
  IN  [SyntaxError(fs, newstack >= MAXSTACK, "too complex")
         EXCEPT !.maxstacksize = Max({@, newstack})]
luaK_reserveregs(fs, n) == [luaK_checkstack(fs, n) EXCEPT !.freereg = @ + n]
freereg(fs, reg) ==
  IF ISK(reg) \/ reg < fs.nactvar THEN fs
  ELSE Asserted([fs EXCEPT !.freereg = @ - 1], reg = fs.freereg - 1, "freereg")
freeexp(fs, e) == IF e.k = "VNONRELOC" THEN freereg(fs, e.info) ELSE fs

\* The index is that of v in the result.
addk(fs, v) == IF v \in ToSet(fs.k) THEN fs ELSE [fs EXCEPT !.k = Append(@, v)]
IndexOfK(fs, v) == SelectInSeq(fs.k, LAMBDA w : w = v) - 1

luaK_setreturns(x, nresults) ==
  CASE x.e.k = "VCALL" -> X(SetArg(x.fs, x.e.info, "c", nresults + 1), x.e)
    [] x.e.k = "VVARARG" ->
         X(luaK_reserveregs(SetArg(SetArg(x.fs, x.e.info, "b", nresults + 1),
                                   x.e.info, "a", x.fs.freereg), 1), x.e)
    [] OTHER -> x
luaK_setoneret(x) ==
  CASE x.e.k = "VCALL" ->
         X(x.fs, [x.e EXCEPT !.k = "VNONRELOC", !.info = CodeAt(x.fs, x.e.info).a])
    [] x.e.k = "VVARARG" ->
         X(SetArg(x.fs, x.e.info, "b", 2), [x.e EXCEPT !.k = "VRELOCABLE"])
    [] OTHER -> x

-----------------------------------------------------------------------------
(* Expressions to registers and operands                                   *)

Relocable(fs, op, e, b, c) ==
  X(luaK_code(fs, op, 0, b, c), [e EXCEPT !.k = "VRELOCABLE", !.info = PC(fs)])
luaK_dischargevars(x) ==
  LET e == x.e IN
  CASE e.k = "VLOCAL"   -> X(x.fs, [e EXCEPT !.k = "VNONRELOC"])
    [] e.k = "VUPVAL"   -> Relocable(x.fs, "GETUPVAL", e, e.info, 0)
    [] e.k = "VGLOBAL"  -> Relocable(x.fs, "GETGLOBAL", e, e.info, 0)
    [] e.k = "VINDEXED" ->
         Relocable(freereg(freereg(x.fs, e.aux), e.info), "GETTABLE", e, e.info, e.aux)
    [] e.k \in {"VVARARG", "VCALL"} -> luaK_setoneret(x)
    [] OTHER -> x

code_label(fs, a, b, jump) == luaK_code(luaK_getlabel(fs), "LOADBOOL", a, b, jump)
LoadedK(fs, v, reg) == luaK_code(fs, "LOADK", reg, IndexOfK(fs, v), 0)
InReg(fs, e, reg) ==
  CASE e.k = "VNIL" -> luaK_nil(fs, reg, 1)
    [] e.k \in {"VFALSE", "VTRUE"} ->
         luaK_code(fs, "LOADBOOL", reg, IF e.k = "VTRUE" THEN 1 ELSE 0, 0)
    [] e.k = "VK" -> luaK_code(fs, "LOADK", reg, e.info, 0)
    [] e.k = "VKNUM" -> LoadedK(addk(fs, Num(e.nval)), Num(e.nval), reg)
    [] e.k = "VRELOCABLE" -> SetArg(fs, e.info, "a", reg)
    [] e.k = "VNONRELOC" /\ reg # e.info -> luaK_code(fs, "MOVE", reg, e.info, 0)
    [] OTHER -> fs
PutInReg(x, reg) ==
  IF x.e.k \in {"VVOID", "VJMP"} THEN x
  ELSE X(InReg(x.fs, x.e, reg), [x.e EXCEPT !.info = reg, !.k = "VNONRELOC"])
discharge2reg(x, reg) == PutInReg(luaK_dischargevars(x), reg)
discharge2anyreg(x) ==
  IF x.e.k = "VNONRELOC" THEN x
  ELSE discharge2reg(X(luaK_reserveregs(x.fs, 1), x.e), x.fs.freereg)

\* A comparison is one more jump taken when true.
WithJump(fs, e, own) == X(luaK_concat(fs, e.t, own), [e EXCEPT !.t = ConcatHead(@, own)])
\* Jumps that bring no value are sent over two instructions that load one;
\* a value that is in its register jumps over them.
Loads(fs, e, reg, fj) ==
  luaK_patchtohere(code_label(code_label(IF fj THEN fs ELSE luaK_jump(fs), reg, 0, 1), reg, 1, 0),
                   IF fj THEN NO_JUMP ELSE PC(fs))
\* p: where false is loaded, true is loaded behind it.
Landed(fs, e, reg, p) ==
  patchlistaux(patchlistaux(luaK_getlabel(fs), e.f, PC(fs), reg, p),
               e.t, PC(fs), reg, IF p = NO_JUMP THEN p ELSE p + 1)
Final(fs, e, reg, fj) ==
  IF need_value(fs, e.t) \/ need_value(fs, e.f)
  THEN Landed(Loads(fs, e, reg, fj), e, reg, IF fj THEN PC(fs) ELSE PC(fs) + 1)
  ELSE Landed(fs, e, reg, NO_JUMP)
JumpsInReg(x, reg, fj) ==
  X(IF hasjumps(x.e) THEN Final(x.fs, x.e, reg, fj) ELSE x.fs,
    [Expr("VNONRELOC", reg) EXCEPT !.aux = x.e.aux])
ValueInReg(x, reg) ==
  IF x.e.k = "VJMP" THEN JumpsInReg(WithJump(x.fs, x.e, x.e.info), reg, TRUE)
  ELSE JumpsInReg(x, reg, FALSE)
exp2reg(x, reg) == ValueInReg(discharge2reg(x, reg), reg)

NextReg(fs, e) == exp2reg(X(luaK_reserveregs(fs, 1), e), fs.freereg)
DischargedToNext(x) == NextReg(freeexp(x.fs, x.e), x.e)
luaK_exp2nextreg(x) == DischargedToNext(luaK_dischargevars(x))
DischargedToAny(x) ==
  IF x.e.k = "VNONRELOC" /\ ~hasjumps(x.e) THEN x
  ELSE IF x.e.k = "VNONRELOC" /\ x.e.info >= x.fs.nactvar THEN exp2reg(x, x.e.info)
  ELSE luaK_exp2nextreg(x)
luaK_exp2anyreg(x) == DischargedToAny(luaK_dischargevars(x))
luaK_exp2val(x) == IF hasjumps(x.e) THEN luaK_exp2anyreg(x) ELSE luaK_dischargevars(x)

ConstantOf(e) == CASE e.k = "VNIL" -> Nil
                   [] e.k = "VTRUE" -> Bool(TRUE)
                   [] e.k = "VFALSE" -> Bool(FALSE)
                   [] OTHER -> Num(e.nval)
\* The operand is RK of the result's e.
InConstants(fs, e) == X(fs, [e EXCEPT !.k = "VK", !.info = IndexOfK(fs, ConstantOf(e))])
ValueToRK(x) ==
  IF x.e.k \in {"VKNUM", "VTRUE", "VFALSE", "VNIL"} /\ Len(x.fs.k) <= MAXINDEXRK
  THEN InConstants(addk(x.fs, ConstantOf(x.e)), x.e)
  ELSE IF x.e.k = "VK" /\ x.e.info <= MAXINDEXRK THEN x
  ELSE luaK_exp2anyreg(x)
luaK_exp2RK(x) == ValueToRK(luaK_exp2val(x))
RK(e) == IF e.k = "VK" THEN RKASK(e.info) ELSE e.info

StoredFrom(x, op, var) == freeexp(luaK_code(x.fs, op, x.e.info, var.info, 0), x.e)
StoredIndexed(x, var) ==
  freeexp(luaK_code(x.fs, "SETTABLE", var.info, var.aux, RK(x.e)), x.e)
luaK_storevar(fs, var, ex) ==
  IF var.k = "VLOCAL" THEN exp2reg(X(freeexp(fs, ex), ex), var.info).fs
  ELSE IF var.k = "VINDEXED" THEN StoredIndexed(luaK_exp2RK(X(fs, ex)), var)
  ELSE StoredFrom(luaK_exp2anyreg(X(fs, ex)),
                  IF var.k = "VUPVAL" THEN "SETUPVAL" ELSE "SETGLOBAL", var)

SelfKeyed(k, obj, func) ==
  X(freeexp(luaK_code(k.fs, "SELF", func, obj.info, RK(k.e)), k.e),
    [obj EXCEPT !.info = func, !.k = "VNONRELOC"])
SelfObject(fs, obj, key) ==
  SelfKeyed(luaK_exp2RK(X(luaK_reserveregs(fs, 2), key)), obj, fs.freereg)
FreedObject(x, key) == SelfObject(freeexp(x.fs, x.e), x.e, key)
luaK_self(x, key) == FreedObject(luaK_exp2anyreg(x), key)

-----------------------------------------------------------------------------
(* Conditions                                                              *)

invertjump(fs, e) ==
  LET at == getjumpcontrol(fs, e.info) IN SetArg(fs, at, "a", 1 - CodeAt(fs, at).a)

\* The state after the jump, and its place.
Tested(fs, e, op, a, b, c) == [e |-> e, pc |-> PC(fs) + 1, fs |-> condjump(fs, op, a, b, c)]
TestSet(x, cond) == Tested(freeexp(x.fs, x.e), x.e, "TESTSET", NO_REG, x.e.info, cond)
jumponcond(x, cond) ==
  IF x.e.k = "VRELOCABLE" /\ CodeAt(x.fs, x.e.info).op = "NOT"
  THEN Tested([x.fs EXCEPT !.code = Front(@)], x.e, "TEST", CodeAt(x.fs, x.e.info).b, 0, 1 - cond)
  ELSE TestSet(discharge2anyreg(x), cond)

\* A condition that is known takes no jump, or always one.
GoIf(x, none, always, invert, cond) ==
  CASE x.e.k \in none   -> [e |-> x.e, pc |-> NO_JUMP, fs |-> x.fs]
    [] x.e.k \in always -> [e |-> x.e, pc |-> PC(x.fs), fs |-> luaK_jump(x.fs)]
    [] x.e.k = "VJMP"   -> [e |-> x.e, pc |-> x.e.info,
                            fs |-> IF invert THEN invertjump(x.fs, x.e) ELSE x.fs]
    [] OTHER            -> jumponcond(x, cond)
FallsIfTrue(j) == X(luaK_patchtohere(luaK_concat(j.fs, j.e.f, j.pc), j.e.t),
                    [j.e EXCEPT !.f = ConcatHead(@, j.pc), !.t = NO_JUMP])
FallsIfFalse(j) == X(luaK_patchtohere(luaK_concat(j.fs, j.e.t, j.pc), j.e.f),
                     [j.e EXCEPT !.t = ConcatHead(@, j.pc), !.f = NO_JUMP])
luaK_goiftrue(x) ==
  FallsIfTrue(GoIf(luaK_dischargevars(x), {"VK", "VKNUM", "VTRUE"}, {"VFALSE"}, TRUE, 0))
luaK_goiffalse(x) ==
  FallsIfFalse(GoIf(luaK_dischargevars(x), {"VNIL", "VFALSE"}, {"VTRUE"}, FALSE, 1))

NotInReg(x) == Relocable(freeexp(x.fs, x.e), "NOT", x.e, x.e.info, 0)
Negated(x) ==
  CASE x.e.k \in {"VNIL", "VFALSE"} -> X(x.fs, [x.e EXCEPT !.k = "VTRUE"])
    [] x.e.k \in {"VK", "VKNUM", "VTRUE"} -> X(x.fs, [x.e EXCEPT !.k = "VFALSE"])
    [] x.e.k = "VJMP" -> X(invertjump(x.fs, x.e), x.e)
    [] OTHER -> NotInReg(discharge2anyreg(x))
Swapped(x) == X(removevalues(removevalues(x.fs, x.e.t), x.e.f),
                [x.e EXCEPT !.t = x.e.f, !.f = x.e.t])
codenot(x) == Swapped(Negated(luaK_dischargevars(x)))

IndexedBy(x, t) == X(x.fs, [t EXCEPT !.aux = RK(x.e), !.k = "VINDEXED"])
luaK_indexed(fs, t, key) == IndexedBy(luaK_exp2RK(X(fs, key)), t)

-----------------------------------------------------------------------------
(* Operators.  Division is used on what divides evenly.                    *)

NumArith(op, a, b) ==
  CASE op = "ADD" -> a + b
    [] op = "SUB" -> a - b
    [] op = "MUL" -> a * b
    [] op = "DIV" -> a \div b
    [] op = "MOD" -> a % b
    [] op = "POW" -> a ^ b
    [] op = "UNM" -> 0 - a
Foldable(op, e1, e2) ==
  /\ isnumeral(e1) /\ isnumeral(e2)
  /\ op \notin {"LEN", "CONCAT"} /\ ~(op \in {"DIV", "MOD"} /\ e2.nval = 0)
FreedBoth_InOrder(fs, e1, e2) == freeexp(freeexp(fs, e1), e2)
FreedBoth(fs, e1, e2) == freeexp(freeexp(fs, e2), e1)
ArithCode(x2, op, e1, o2) == Relocable(FreedBoth(x2.fs, e1, x2.e), op, e1, RK(e1), o2)
ArithSecond(x2, op, e1) == ArithCode(x2, op, e1, RK(x2.e))
ArithOperands(x1, op, e2) ==
  IF op \in {"UNM", "LEN"} THEN ArithCode(X(x1.fs, e2), op, x1.e, 0)
  ELSE ArithSecond(luaK_exp2RK(X(x1.fs, e2)), op, x1.e)
codearith(fs, op, e1, e2) ==
  IF Foldable(op, e1, e2) THEN X(fs, [e1 EXCEPT !.nval = NumArith(op, e1.nval, e2.nval)])
  ELSE ArithOperands(luaK_exp2RK(X(fs, e1)), op, e2)
CompCode(fs, op, a, b, c, e1) == X(condjump(fs, op, a, b, c), [e1 EXCEPT !.info = PC(fs) + 1, !.k = "VJMP"])
\* Greater than is less than with the operands exchanged.
CompSecond(x2, op, cond, e1) ==
  IF cond = 0 /\ op # "EQ" THEN CompCode(FreedBoth(x2.fs, e1, x2.e), op, 1, RK(x2.e), RK(e1), e1)
  ELSE CompCode(FreedBoth(x2.fs, e1, x2.e), op, cond, RK(e1), RK(x2.e), e1)
CompFirst(x1, op, cond, e2) == CompSecond(luaK_exp2RK(X(x1.fs, e2)), op, cond, x1.e)
codecomp(fs, op, cond, e1, e2) == CompFirst(luaK_exp2RK(X(fs, e1)), op, cond, e2)

PrefixCode(x, op) ==
  codearith(x.fs, IF op = "-" THEN "UNM" ELSE "LEN", x.e, Expr("VKNUM", 0))
luaK_prefix(x, op) ==
  IF op = "not" THEN codenot(x)
  ELSE PrefixCode(IF op = "-" /\ x.e.k # "VK" THEN x ELSE luaK_exp2anyreg(x), op)
luaK_infix(x, op) ==
  CASE op = "and" -> luaK_goiftrue(x)
    [] op = "or"  -> luaK_goiffalse(x)
    [] op = ".."  -> luaK_exp2nextreg(x)
    [] isnumeral(x.e) -> x
    [] OTHER -> luaK_exp2RK(x)

ArithOps == ("+" :> "ADD" @@ "-" :> "SUB" @@ "*" :> "MUL" @@ "/" :> "DIV"
               @@ "%" :> "MOD" @@ "^" :> "POW")
CompOps == ("==" :> <<"EQ", 1>> @@ "~=" :> <<"EQ", 0>> @@ "<" :> <<"LT", 1>>
              @@ "<=" :> <<"LE", 1>> @@ ">" :> <<"LT", 0>> @@ ">=" :> <<"LE", 0>>)
AndCode(x, e1) == X(luaK_concat(Asserted(x.fs, e1.t = NO_JUMP, "and"), e1.f, x.e.f),
                    [x.e EXCEPT !.f = ConcatHead(e1.f, x.e.f)])
OrCode(x, e1) == X(luaK_concat(Asserted(x.fs, e1.f = NO_JUMP, "or"), e1.t, x.e.t),
                   [x.e EXCEPT !.t = ConcatHead(e1.t, x.e.t)])
\* A concatenation takes over the one that follows.
JoinedCode(x, e1) ==
  X(SetArg(freeexp(Asserted(x.fs, e1.info = CodeAt(x.fs, x.e.info).b - 1, "concat"), e1),
           x.e.info, "b", e1.info),
    [e1 EXCEPT !.k = x.e.k, !.info = x.e.info])
PairCode(x, e1) == codearith(x.fs, "CONCAT", e1, x.e)
ConcatCode(x, e1) ==
  IF x.e.k = "VRELOCABLE" /\ CodeAt(x.fs, x.e.info).op = "CONCAT" THEN JoinedCode(x, e1)
  ELSE PairCode(luaK_exp2nextreg(x), e1)
luaK_posfix(fs, op, e1, e2) ==
  CASE op = "and" -> AndCode(luaK_dischargevars(X(fs, e2)), e1)
    [] op = "or"  -> OrCode(luaK_dischargevars(X(fs, e2)), e1)
    [] op = ".."  -> ConcatCode(luaK_exp2val(X(fs, e2)), e1)
    [] op \in DOMAIN ArithOps -> codearith(fs, ArithOps[op], e1, e2)
    [] OTHER -> codecomp(fs, CompOps[op][1], CompOps[op][2], e1, e2)

\* A batch number that does not fit is a word of its own.
luaK_setlist(fs, base, nelems, tostore) ==
  LET c == (nelems - 1) \div LFIELDS_PER_FLUSH + 1
      b == IF tostore = LUA_MULTRET THEN 0 ELSE tostore
      g == Asserted(fs, tostore # 0, "setlist")
      short == luaK_code(g, "SETLIST", base, b, c)
      long  == luaK_code(luaK_code(g, "SETLIST", base, b, 0), "DATA", c, 0, 0)
  IN  [(IF c <= MAXARG_C THEN short ELSE long) EXCEPT !.freereg = base + 1]
=============================================================================
