------------------------------- MODULE Parser -------------------------------
(***************************************************************************)
(* lua-5.1/src/lparser.c: one pass over the tokens that emits the code.    *)
(*                                                                         *)
(* The state of the parser is [ts, lastline, looked, fs, outer, level]: the  *)
(* tokens ahead, the line of the last token, whether the next but one has  *)
(* been read, the FuncState, those of the enclosing functions and the depth *)
(* of nesting.  Grammar functions return the new state, those of expressions *)
(* a record R(s, e) with the descriptor.  A syntax error leaves by longjmp; *)
(* here it is noted and no further token is seen.                          *)
(***************************************************************************)
EXTENDS Debug, Lex

CONSTANTS
  LUAI_MAXVARS,        \* local variables of a function
  LUAI_MAXUPVALUES

ASSUME ParserAssumption == LUAI_MAXVARS \in Nat /\ LUAI_MAXUPVALUES \in Nat

\* Declared ahead, as chunk and expr in the code.
RECURSIVE chunk(_), expr(_), subexpr(_, _), Operators(_, _), simpleexp(_), primaryexp(_),
  Suffixed(_), explist1(_), constructor(_), Items(_, _, _), body(_, _), Params(_, _),
  singlevaraux(_, _, _), statement(_), Statements(_, _), assignment(_, _), Names(_, _), Branches(_, _),
  Fields(_)

R(s, e) == [s |-> s, e |-> e]
Do(r, Op(_)) == LET x == Op(X(r.s.fs, r.e)) IN R([r.s EXCEPT !.fs = x.fs], x.e)
WithFs(s, fs) == [s EXCEPT !.fs = fs]
Emit(s, op, a, b, c) == WithFs(s, luaK_code(s.fs, op, a, b, c))
Reserve(s, n) == WithFs(s, luaK_reserveregs(s.fs, n))
hasmultret(e) == e.k \in {"VCALL", "VVARARG"}
EOS == <<"eos", "", 0>>

-----------------------------------------------------------------------------
(* Tokens                                                                  *)

Tok(s) == Head(s.ts)[1]
Fail(s, what) == [s EXCEPT !.ts = <<EOS>>, !.fs = SyntaxError(@, TRUE, what)]
\* luaX_next and luaX_lookahead: the line is that of the last token read.
linenumber(s) == IF s.looked THEN s.ts[2][3] ELSE Head(s.ts)[3]
luaX_lookahead(s) == [s EXCEPT !.looked = TRUE]
Advance(s) ==
  IF Len(s.ts) = 1 THEN s
  ELSE IF s.ts[2][1] = "bad" THEN Fail(s, s.ts[2][2])
  ELSE [s EXCEPT !.ts = Tail(@), !.lastline = linenumber(s), !.looked = FALSE]
testnext(s, c) == IF Tok(s) = c THEN Advance(s) ELSE s
checknext(s, c) == IF Tok(s) = c THEN Advance(s) ELSE Fail(s, "expected")
NameOf(s) == IF Tok(s) = "name" THEN Head(s.ts)[2] ELSE ""
CheckedName(s) == checknext(s, "name")
CheckLimit(s, v, limit, what) == IF v > limit THEN Fail(s, what) ELSE s
enterlevel(s) ==
  LET t == [s EXCEPT !.level = @ + 1]
  IN  IF t.level > LUAI_MAXCCALLS THEN Fail(t, "too many syntax levels") ELSE t
leavelevel(s) == [s EXCEPT !.level = @ - 1]

codestring(s, v) ==
  LET fs == addk(s.fs, Str(v)) IN R(WithFs(s, fs), Expr("VK", IndexOfK(fs, Str(v))))
checkname(s) == codestring(CheckedName(s), NameOf(s))

-----------------------------------------------------------------------------
(* Variables and blocks                                                    *)

new_localvar(s, name, n) ==
  LET at == s.fs.nactvar + n
  IN  CheckLimit([s EXCEPT !.fs.actvar = SubSeq(@, 1, at) \o <<name>>],
                 at + 1, LUAI_MAXVARS, "local variables")
adjustlocalvars(s, nvars) == [s EXCEPT !.fs.nactvar = @ + nvars]

searchvar(fs, n) ==
  Max({-1} \cup {i \in 0 .. fs.nactvar - 1 : fs.actvar[i + 1] = n})
markupval(fs, level) ==
  LET holds == {i \in DOMAIN fs.bl : fs.bl[i].nactvar <= level}
  IN  IF holds = {} THEN fs ELSE [fs EXCEPT !.bl[Max(holds)].upval = TRUE]
indexupvalue(fs, name, v) ==
  LET uv == [k |-> v.k, info |-> v.info]
  IN  IF uv \in ToSet(fs.upvalues) THEN fs
      ELSE SyntaxError([fs EXCEPT !.upvalues = Append(@, uv)],
                       Len(fs.upvalues) >= LUAI_MAXUPVALUES, "too many upvalues")
\* levels: the FuncStates, innermost last.  Returned with them is what the
\* name stands for in the innermost one.
singlevaraux(levels, n, base) ==
  IF levels = <<>> THEN [levels |-> <<>>, e |-> Expr("VGLOBAL", NO_REG)]
  ELSE LET fs == Last(levels)
           v  == searchvar(fs, n)
           up == singlevaraux(Front(levels), n, FALSE)
           in == indexupvalue(fs, n, up.e)
           uv == [k |-> up.e.k, info |-> up.e.info]
       IN  IF v >= 0
           THEN [levels |-> Append(Front(levels), IF base THEN fs ELSE markupval(fs, v)),
                 e |-> Expr("VLOCAL", v)]
           ELSE IF up.e.k = "VGLOBAL" THEN [levels |-> levels, e |-> up.e]
           ELSE [levels |-> Append(up.levels, in),
                 e |-> Expr("VUPVAL", SelectInSeq(in.upvalues, LAMBDA u : u = uv) - 1)]
singlevar(s0) ==
  LET s == CheckedName(s0)
      found == singlevaraux(Append(s.outer, s.fs), NameOf(s0), TRUE)
      t == [s EXCEPT !.fs = Last(found.levels), !.outer = Front(found.levels)]
  IN  IF found.e.k = "VGLOBAL"
      THEN LET k == codestring(t, NameOf(s0)) IN R(k.s, [found.e EXCEPT !.info = k.e.info])
      ELSE R(t, found.e)

NilsInRegs(s, n) == WithFs(s, luaK_nil(luaK_reserveregs(s.fs, n), s.fs.freereg, n))
MoreRegs(s, n) == IF n > 1 THEN Reserve(s, n - 1) ELSE s
OpenList(r, n) == MoreRegs(Do(r, LAMBDA x : luaK_setreturns(x, n)).s, n)
adjust_assign(r, nvars, nexps) ==
  IF hasmultret(r.e) THEN OpenList(r, Max({nvars - nexps + 1, 0}))
  ELSE IF nvars > nexps
  THEN NilsInRegs(IF r.e.k = "VVOID" THEN r.s ELSE Do(r, luaK_exp2nextreg).s, nvars - nexps)
  ELSE IF r.e.k = "VVOID" THEN r.s ELSE Do(r, luaK_exp2nextreg).s

enterblock(s, isbreakable) ==
  LET bl == [breaklist |-> NO_JUMP, isbreakable |-> isbreakable,
             nactvar |-> s.fs.nactvar, upval |-> FALSE]
  IN  WithFs(s, [Asserted(s.fs, s.fs.freereg = s.fs.nactvar, "enterblock")
                   EXCEPT !.bl = Append(@, bl)])
leaveblock(s) ==
  LET bl == Last(s.fs.bl)
      f1 == [s.fs EXCEPT !.bl = Front(@), !.nactvar = bl.nactvar]
      f2 == IF bl.upval THEN luaK_code(f1, "CLOSE", bl.nactvar, 0, 0) ELSE f1
      f3 == Asserted(f2, ~bl.isbreakable \/ ~bl.upval, "leaveblock")
  IN  WithFs(s, luaK_patchtohere([f3 EXCEPT !.freereg = f3.nactvar], bl.breaklist))

NewFuncState ==
  [code |-> <<>>, k |-> <<>>, p |-> <<>>, upvalues |-> <<>>, actvar |-> <<>>, bl |-> <<>>,
   lasttarget |-> -1, jpc |-> NO_JUMP, freereg |-> 0, nactvar |-> 0, numparams |-> 0,
   is_vararg |-> {}, maxstacksize |-> 2, failed |-> {}, errors |-> {}]
open_func(s) == [s EXCEPT !.outer = Append(@, s.fs), !.fs = NewFuncState]
Proto(fs) ==
  [code |-> fs.code, k |-> fs.k, p |-> fs.p, nups |-> Len(fs.upvalues),
   numparams |-> fs.numparams, is_vararg |-> fs.is_vararg, maxstacksize |-> fs.maxstacksize]
Closed(fs) ==
  LET f == luaK_ret([fs EXCEPT !.nactvar = 0], 0, 0)
  IN  Asserted(Asserted(f, luaG_checkcode(Proto(f)), "checkcode"), fs.bl = <<>>, "close_func")
\* close_func and pushclosure: each upvalue follows as an instruction.
pushclosure(s) ==
  LET func == Closed(s.fs)
      fs == Last(s.outer)
      f1 == [fs EXCEPT !.p = Append(@, Proto(func)),
                       !.errors = @ \cup func.errors, !.failed = @ \cup func.failed]
      f2 == luaK_code(f1, "CLOSURE", 0, Len(fs.p), 0)
      f3 == FoldLeft(LAMBDA g, u : luaK_code(g, IF u.k = "VLOCAL" THEN "MOVE" ELSE "GETUPVAL",
                                             0, u.info, 0), f2, func.upvalues)
  IN  R([s EXCEPT !.fs = f3, !.outer = Front(@)], Expr("VRELOCABLE", PC(f1)))

-----------------------------------------------------------------------------
(* Expressions                                                             *)

expr(s) == subexpr(s, 0)

IndexedWith(k, e) == Do(R(k.s, e), LAMBDA x : luaK_indexed(x.fs, x.e, k.e))
FieldOf(v) == IndexedWith(checkname(Advance(v.s)), v.e)
field(r) == FieldOf(Do(r, luaK_exp2anyreg))
Bracketed(v) == R(checknext(v.s, "]"), v.e)
yindex(s) == Bracketed(Do(expr(Advance(s)), luaK_exp2val))

StoredField(val, key, t, top) ==
  [Emit(val.s, "SETTABLE", t.info, RK(key), RK(val.e)) EXCEPT !.fs.freereg = top]
FieldValue(key, t, top) ==
  StoredField(Do(expr(key.s), luaK_exp2RK), key.e, t, top)
FieldKey(key, t, top) ==
  FieldValue(Do(R(checknext(key.s, "="), key.e), luaK_exp2RK), t, top)
recfield(s, t) == FieldKey(IF Tok(s) = "name" THEN checkname(s) ELSE yindex(s), t, s.fs.freereg)
\* cc: [v, na, nh, tostore]
Flushed(v, cc, t) ==
  IF cc.tostore # LFIELDS_PER_FLUSH THEN [s |-> v.s, cc |-> [cc EXCEPT !.v.k = "VVOID"]]
  ELSE [s  |-> WithFs(v.s, luaK_setlist(v.s.fs, t.info, cc.na, cc.tostore)),
        cc |-> [cc EXCEPT !.v.k = "VVOID", !.tostore = 0]]
closelistfield(s, cc, t) ==
  IF cc.v.k = "VVOID" THEN [s |-> s, cc |-> cc]
  ELSE Flushed(Do(R(s, cc.v), luaK_exp2nextreg), cc, t)
StoredList(s, cc, t, tostore) == WithFs(s, luaK_setlist(s.fs, t.info, cc.na, tostore))
lastlistfield(s, cc, t) ==
  IF cc.tostore = 0 THEN [s |-> s, na |-> cc.na]
  ELSE IF hasmultret(cc.v)
  THEN [s |-> StoredList(Do(R(s, cc.v), LAMBDA x : luaK_setreturns(x, LUA_MULTRET)).s,
                         cc, t, LUA_MULTRET), na |-> cc.na - 1]
  ELSE IF cc.v.k = "VVOID" THEN [s |-> StoredList(s, cc, t, cc.tostore), na |-> cc.na]
  ELSE [s |-> StoredList(Do(R(s, cc.v), luaK_exp2nextreg).s, cc, t, cc.tostore), na |-> cc.na]
listfield(v, cc) ==
  [s |-> v.s, cc |-> [cc EXCEPT !.v = v.e, !.na = @ + 1, !.tostore = @ + 1]]
\* A name is a key if an equal sign follows.
Ahead(s) == IF Tok(s) = "name" THEN luaX_lookahead(s) ELSE s
IsRecord(s) == Tok(s) = "[" \/ (Tok(s) = "name" /\ s.ts[2][1] = "=")
Item(s, cc, t) ==
  IF IsRecord(s) THEN [s |-> recfield(s, t), cc |-> [cc EXCEPT !.nh = @ + 1]]
  ELSE listfield(expr(s), cc)
MoreItems(r, t) == IF Tok(r.s) \in {",", ";"} THEN Items(Advance(r.s), r.cc, t) ELSE r
ItemAfter(c, t) == MoreItems(Item(Ahead(c.s), c.cc, t), t)
Items(s, cc, t) ==
  IF Tok(s) = "}" THEN [s |-> s, cc |-> cc] ELSE ItemAfter(closelistfield(s, cc, t), t)
Sized(l, nh, t, pc) ==
  R(WithFs(l.s, SetArg(SetArg(l.s.fs, pc, "b", l.na), pc, "c", nh)), t)
ItemsClosed(it, t, pc) ==
  Sized(lastlistfield(checknext(it.s, "}"), it.cc, t), it.cc.nh, t, pc)
TableMade(t, pc) ==
  ItemsClosed(Items(checknext(t.s, "{"), [v |-> Expr("VVOID", 0), na |-> 0, nh |-> 0, tostore |-> 0],
                    t.e), t.e, pc)
constructor(s) ==
  TableMade(Do(R(Emit(s, "NEWTABLE", 0, 0, 0), Expr("VRELOCABLE", PC(s.fs))), luaK_exp2nextreg),
            PC(s.fs))

\* A parameter list of names; `...` ends it and declares arg.
Params(s, n) ==
  IF Tok(s) = "..." THEN
     [s |-> [new_localvar(Advance(s), "arg", n) EXCEPT !.fs.is_vararg = {"has", "needs", "is"}],
      n |-> n + 1]
  ELSE LET t == new_localvar(CheckedName(s), NameOf(s), n)
       IN  IF Tok(t) = "," THEN Params(Advance(t), n + 1) ELSE [s |-> t, n |-> n + 1]
parlist(s) ==
  LET p == IF Tok(s) = ")" THEN [s |-> s, n |-> 0] ELSE Params(s, 0)
      t == adjustlocalvars(p.s, p.n)
      named == t.fs.nactvar - (IF "has" \in t.fs.is_vararg THEN 1 ELSE 0)
  IN  Reserve([t EXCEPT !.fs.numparams = named], t.fs.nactvar)
body(s0, needself) ==
  LET s1 == checknext(open_func(s0), "(")
      s2 == IF needself THEN adjustlocalvars(new_localvar(s1, "self", 0), 1) ELSE s1
  IN  pushclosure(checknext(chunk(checknext(parlist(s2), ")")), "end"))

OneMore(rest) == [rest EXCEPT !.n = @ + 1]
ListAfter(r) ==
  IF Tok(r.s) = "," THEN OneMore(explist1(Advance(Do(r, luaK_exp2nextreg).s)))
  ELSE [s |-> r.s, e |-> r.e, n |-> 1]
explist1(s) == ListAfter(expr(s))

Void(s) == R(s, Expr("VVOID", 0))
Closing(r) == R(checknext(r.s, ")"), r.e)
Parenthesised(s) ==
  IF Tok(s) = ")" THEN Closing(Void(s))
  ELSE Closing(Do(explist1(s), LAMBDA x : luaK_setreturns(x, LUA_MULTRET)))
Arguments(s) ==
  IF Tok(s) = "(" /\ linenumber(s) # s.lastline THEN Void(Fail(s, "ambiguous syntax"))
  ELSE CASE Tok(s) = "(" -> Parenthesised(Advance(s))
         [] Tok(s) = "{" -> constructor(s)
         [] Tok(s) = "string" -> codestring(Advance(s), Head(s.ts)[2])
         [] OTHER -> Void(Fail(s, "arguments"))
Call(s, f, nparams) ==
  R([Emit(WithFs(s, Asserted(s.fs, f.k = "VNONRELOC", "funcargs")), "CALL", f.info, nparams + 1, 2)
       EXCEPT !.fs.freereg = f.info + 1],
    Expr("VCALL", PC(s.fs)))
ClosedCall(s, f) == Call(s, f, s.fs.freereg - (f.info + 1))
CallWith(args, f) ==
  IF hasmultret(args.e) THEN Call(args.s, f, LUA_MULTRET)
  ELSE ClosedCall(IF args.e.k = "VVOID" THEN args.s ELSE Do(args, luaK_exp2nextreg).s, f)
funcargs(r) == CallWith(Arguments(r.s), r.e)

prefixexp(s) ==
  LET r == expr(Advance(s))
  IN  CASE Tok(s) = "(" -> Do(R(checknext(r.s, ")"), r.e), luaK_dischargevars)
        [] Tok(s) = "name" -> singlevar(s)
        [] OTHER -> Void(Fail(s, "unexpected symbol"))
IndexedAt(v) == IndexedWith(yindex(v.s), v.e)
Method(name, e) == funcargs(Do(R(name.s, e), LAMBDA x : luaK_self(x, name.e)))
Suffix(r) ==
  CASE Tok(r.s) = "." -> field(r)
    [] Tok(r.s) = "[" -> IndexedAt(Do(r, luaK_exp2anyreg))
    [] Tok(r.s) = ":" -> Method(checkname(Advance(r.s)), r.e)
    [] OTHER -> funcargs(Do(r, luaK_exp2nextreg))
Suffixed(r) ==
  IF Tok(r.s) \in {".", "[", ":", "(", "string", "{"} THEN Suffixed(Suffix(r)) ELSE r
primaryexp(s) == Suffixed(prefixexp(s))

Vararg(s) ==
  IF s.fs.is_vararg = {} THEN Void(Fail(s, "outside a vararg function"))
  ELSE LET t == [s EXCEPT !.fs.is_vararg = @ \ {"needs"}]
       IN  R(Emit(t, "VARARG", 0, 1, 0), Expr("VVARARG", PC(t.fs)))
simpleexp(s) ==
  LET After(r) == R(Advance(r.s), r.e) IN
  CASE Tok(s) = "number" -> After(R(s, [Expr("VKNUM", 0) EXCEPT !.nval = Head(s.ts)[2]]))
    [] Tok(s) = "string" -> After(codestring(s, Head(s.ts)[2]))
    [] Tok(s) = "nil"    -> After(R(s, Expr("VNIL", 0)))
    [] Tok(s) = "true"   -> After(R(s, Expr("VTRUE", 0)))
    [] Tok(s) = "false"  -> After(R(s, Expr("VFALSE", 0)))
    [] Tok(s) = "..."    -> After(Vararg(s))
    [] Tok(s) = "{"      -> constructor(s)
    [] Tok(s) = "function" -> body(Advance(s), FALSE)
    [] OTHER -> primaryexp(s)

\* Priorities to the left and to the right; concatenation and power bind to
\* the right.
priority ==
  ("+" :> <<6, 6>> @@ "-" :> <<6, 6>> @@ "*" :> <<7, 7>> @@ "/" :> <<7, 7>> @@ "%" :> <<7, 7>>
   @@ "^" :> <<10, 9>> @@ ".." :> <<5, 4>> @@ "==" :> <<3, 3>> @@ "~=" :> <<3, 3>>
   @@ "<" :> <<3, 3>> @@ "<=" :> <<3, 3>> @@ ">" :> <<3, 3>> @@ ">=" :> <<3, 3>>
   @@ "and" :> <<2, 2>> @@ "or" :> <<1, 1>>)
UNARY_PRIORITY == 8
Combined(p, s) == R(WithFs(s, p.fs), p.e)
Joined2(v2, op, e) == Combined(luaK_posfix(v2.s.fs, op, e, v2.e), v2.s)
Infixed(v, op) == Joined2(subexpr(v.s, priority[op][2]), op, v.e)
WithOperator(r, op) == Infixed(Do(R(Advance(r.s), r.e), LAMBDA x : luaK_infix(x, op)), op)
Operators(r, limit) ==
  IF Tok(r.s) \in DOMAIN priority /\ priority[Tok(r.s)][1] > limit
  THEN Operators(WithOperator(r, Tok(r.s)), limit)
  ELSE r
Operand(s) ==
  IF Tok(s) \in {"not", "-", "#"}
  THEN Do(subexpr(Advance(s), UNARY_PRIORITY), LAMBDA x : luaK_prefix(x, Tok(s)))
  ELSE simpleexp(s)
Left(r) == R(leavelevel(r.s), r.e)
subexpr(s, limit) == Left(Operators(Operand(enterlevel(s)), limit))

-----------------------------------------------------------------------------
(* Statements                                                              *)

Store(s, var, e) == WithFs(s, luaK_storevar(s.fs, var, e))
Patch(s, list) == WithFs(s, luaK_patchtohere(s.fs, list))
PatchTo(s, list, target) == WithFs(s, luaK_patchlist(s.fs, list, target))
Jump(s) == WithFs(s, luaK_jump(s.fs))
block_follow == {"else", "elseif", "end", "until", "eos"}
block(s) ==
  LET t == chunk(enterblock(s, FALSE))
  IN  leaveblock(WithFs(t, Asserted(t.fs, Last(t.fs.bl).breaklist = NO_JUMP, "block")))

\* Earlier targets t[v], v[k] of an assignment that also assigns the local v
\* get a copy of it.
Conflicts_Tables(lh, v) == {i \in DOMAIN lh : lh[i].k = "VINDEXED" /\ v.info = lh[i].info}
Conflicts(lh, v) == {i \in DOMAIN lh : lh[i].k = "VINDEXED" /\ v.info \in {lh[i].info, lh[i].aux}}
check_conflict(s, lh, v) ==
  IF Conflicts(lh, v) = {} THEN s
  ELSE Reserve(Emit(s, "MOVE", s.fs.freereg, v.info, 0), 1)
Redirected(lh, v, extra) ==
  [i \in DOMAIN lh |->
     IF i \notin Conflicts(lh, v) THEN lh[i]
     ELSE [lh[i] EXCEPT !.info = IF @ = v.info THEN extra ELSE @,
                        !.aux  = IF @ = v.info THEN extra ELSE @]]
Default(s, var) == Store(s, var, Expr("VNONRELOC", s.fs.freereg - 1))
DefaultOf(r, n) == [s |-> Default(r.s, r.lh[n]), lh |-> r.lh]
Dropped(s, n) == [s EXCEPT !.fs.freereg = @ - Max({n, 0})]
StoreOne(r, var) == Store(r.s, var, r.e)
AssignedList(ex, lh) ==
  [s  |-> IF ex.n = Len(lh) THEN StoreOne(Do(R(ex.s, ex.e), luaK_setoneret), Last(lh))
          ELSE Default(Dropped(adjust_assign(ex, Len(lh), ex.n), ex.n - Len(lh)), Last(lh)),
   lh |-> lh]
NextTarget(r, lh) ==
  IF r.e.k = "VLOCAL"
  THEN assignment(check_conflict(r.s, lh, r.e), Append(Redirected(lh, r.e, r.s.fs.freereg), r.e))
  ELSE assignment(r.s, Append(lh, r.e))
\* The targets so far, with those that follow; the last one is stored first.
assignment(s, lh) ==
  IF Last(lh).k \notin {"VLOCAL", "VUPVAL", "VGLOBAL", "VINDEXED"}
  THEN [s |-> Fail(s, "syntax error"), lh |-> lh]
  ELSE IF Tok(s) = "," THEN DefaultOf(NextTarget(primaryexp(Advance(s)), lh), Len(lh))
  ELSE AssignedList(explist1(checknext(s, "=")), lh)

\* The result's e.f are the jumps taken when the condition fails.
cond(s) ==
  LET v == expr(s)
      w == IF v.e.k = "VNIL" THEN R(v.s, [v.e EXCEPT !.k = "VFALSE"]) ELSE v
  IN  Do(w, luaK_goiftrue)
breakstat(s) ==
  LET loops == {i \in DOMAIN s.fs.bl : s.fs.bl[i].isbreakable}
      i  == Max(loops)
      bl == s.fs.bl[i]
      upval == \E j \in i + 1 .. Len(s.fs.bl) : s.fs.bl[j].upval
      f1 == IF upval THEN luaK_code(s.fs, "CLOSE", bl.nactvar, 0, 0) ELSE s.fs
      f2 == luaK_concat(luaK_jump(f1), bl.breaklist, PC(f1))
  IN  IF loops = {} THEN Fail(s, "no loop to break")
      ELSE WithFs(s, [f2 EXCEPT !.bl[i].breaklist = ConcatHead(@, PC(f1))])
JumpBack(s, target) == PatchTo(Jump(s), PC(s.fs), target)
While(c, whileinit) ==
  Patch(leaveblock(checknext(JumpBack(block(checknext(enterblock(c.s, TRUE), "do")), whileinit),
                             "end")), c.e.f)
whilestat(s) == While(cond(WithFs(Advance(s), luaK_getlabel(s.fs))), PC(s.fs))
\* A variable of the body that a closure holds is closed on both ways.
Until(c, repeat_init) ==
  IF Last(c.s.fs.bl).upval
  THEN JumpBack(leaveblock(Patch(breakstat(c.s), c.e.f)), repeat_init)
  ELSE PatchTo(leaveblock(c.s), c.e.f, repeat_init)
repeatstat(s) ==
  leaveblock(Until(cond(checknext(chunk(Advance(enterblock(enterblock(
                     WithFs(s, luaK_getlabel(s.fs)), TRUE), FALSE))), "until")), PC(s.fs)))

exp1(s) == Do(expr(s), luaK_exp2nextreg).s
forbody(s0, base, nvars, isnum) ==
  LET s1 == checknext(adjustlocalvars(s0, 3), "do")
      prep == PC(s1.fs)
      s2 == IF isnum THEN Emit(s1, "FORPREP", base, NO_JUMP, 0) ELSE Jump(s1)
      s3 == Reserve(adjustlocalvars(enterblock(s2, FALSE), nvars), nvars)
      s4 == Patch(leaveblock(block(s3)), prep)
      s5 == IF isnum THEN Emit(s4, "FORLOOP", base, NO_JUMP, 0)
                     ELSE Jump(Emit(s4, "TFORLOOP", base, 0, nvars))
  IN  PatchTo(s5, PC(s5.fs) - 1, prep + 1)
Control(s, names) ==
  FoldLeftDomain(LAMBDA t, i : new_localvar(t, names[i], i - 1), s, names)
DefaultStep(s) == Reserve(WithFs(s, LoadedK(addk(s.fs, Num(1)), Num(1), s.fs.freereg)), 1)
Step(s) == IF Tok(s) = "," THEN exp1(Advance(s)) ELSE DefaultStep(s)
fornum(s, varname) ==
  forbody(Step(exp1(checknext(exp1(checknext(
            Control(s, <<"(index)", "(limit)", "(step)", varname>>), "=")), ","))),
          s.fs.freereg, 1, TRUE)
Names(s, n) ==
  LET t == new_localvar(CheckedName(s), NameOf(s), n)
  IN  IF Tok(t) = "," THEN Names(Advance(t), n + 1) ELSE [s |-> t, n |-> n + 1]
forlist(s0, indexname) ==
  LET base == s0.fs.freereg
      s1 == Control(s0, <<"(generator)", "(state)", "(control)", indexname>>)
      ns == IF Tok(s1) = "," THEN Names(Advance(s1), 4) ELSE [s |-> s1, n |-> 4]
      ex == explist1(checknext(ns.s, "in"))
      s2 == adjust_assign(ex, 3, ex.n)
  IN  forbody(WithFs(s2, luaK_checkstack(s2.fs, 3)), base, ns.n - 3, FALSE)
LoopFor(s, varname) ==
  CASE Tok(s) = "=" -> fornum(s, varname)
    [] Tok(s) \in {",", "in"} -> forlist(s, varname)
    [] OTHER -> Fail(s, "= or in expected")
NamedLoop(s) == LoopFor(CheckedName(s), NameOf(s))
forstat(s) == leaveblock(checknext(NamedLoop(Advance(enterblock(s, TRUE))), "end"))

\* The result's e.f: where to go when the condition fails.
test_then_block(s) ==
  LET c == cond(Advance(s)) IN R(block(checknext(c.s, "then")), c.e)
Branches(r, escapelist) ==
  LET j == Jump(r.s)
      s == Patch(WithFs(j, luaK_concat(j.fs, escapelist, PC(r.s.fs))), r.e.f)
      escapes == ConcatHead(escapelist, PC(r.s.fs))
  IN  CASE Tok(r.s) = "elseif" -> Branches(test_then_block(s), escapes)
        [] Tok(r.s) = "else"   -> Patch(block(Advance(s)), escapes)
        [] OTHER -> Patch(WithFs(r.s, luaK_concat(r.s.fs, escapelist, r.e.f)),
                          ConcatHead(escapelist, r.e.f))
ifstat(s) == checknext(Branches(test_then_block(s), NO_JUMP), "end")

localfunc(s0) ==
  LET s1 == new_localvar(CheckedName(s0), NameOf(s0), 0)
      v  == Expr("VLOCAL", s1.fs.freereg)
      b  == body(adjustlocalvars(Reserve(s1, 1), 1), FALSE)
  IN  Store(b.s, v, b.e)
localstat(s0) ==
  LET ns == Names(s0, 0)
      ex == IF Tok(ns.s) = "=" THEN explist1(Advance(ns.s))
            ELSE [s |-> ns.s, e |-> Expr("VVOID", 0), n |-> 0]
  IN  adjustlocalvars(adjust_assign(ex, ns.n, ex.n), ns.n)
Fields(r) == IF Tok(r.s) = "." THEN Fields(field(r)) ELSE r
StoredFunction(b, var) == Store(b.s, var, b.e)
FunctionFor(v, self) == StoredFunction(body(v.s, self), v.e)
NamedFunction(v) == FunctionFor(IF Tok(v.s) = ":" THEN field(v) ELSE v, Tok(v.s) = ":")
funcstat(s) == NamedFunction(Fields(singlevar(Advance(s))))
exprstat(s) ==
  LET v == primaryexp(s)
  IN  IF v.e.k = "VCALL" THEN WithFs(v.s, SetArg(v.s.fs, v.e.info, "c", 1))
      ELSE assignment(v.s, <<v.e>>).s
Return(s, first, n) == WithFs(s, luaK_ret(s.fs, first, n))
TailCalled(s, e) ==
  WithFs(s, SetArg(Asserted(s.fs, CodeAt(s.fs, e.info).a = s.fs.nactvar, "tail call"),
                   e.info, "op", "TAILCALL"))
OpenReturn(s, ex) ==
  Return(IF ex.e.k = "VCALL" /\ ex.n = 1 THEN TailCalled(s, ex.e) ELSE s, s.fs.nactvar, LUA_MULTRET)
OneReturn(r) == Return(r.s, r.e.info, 1)
ListReturn(s, n) ==
  Return(WithFs(s, Asserted(s.fs, n = s.fs.freereg - s.fs.nactvar, "return")), s.fs.nactvar, n)
Returning(ex) ==
  IF hasmultret(ex.e)
  THEN OpenReturn(Do(R(ex.s, ex.e), LAMBDA x : luaK_setreturns(x, LUA_MULTRET)).s, ex)
  ELSE IF ex.n = 1 THEN OneReturn(Do(R(ex.s, ex.e), luaK_exp2anyreg))
  ELSE ListReturn(Do(R(ex.s, ex.e), luaK_exp2nextreg).s, ex.n)
retstat(s) ==
  IF Tok(Advance(s)) \in block_follow \cup {";"} THEN Return(Advance(s), 0, 0)
  ELSE Returning(explist1(Advance(s)))

statement(s) ==
  CASE Tok(s) = "if"     -> ifstat(s)
    [] Tok(s) = "while"  -> whilestat(s)
    [] Tok(s) = "do"     -> checknext(block(Advance(s)), "end")
    [] Tok(s) = "for"    -> forstat(s)
    [] Tok(s) = "repeat" -> repeatstat(s)
    [] Tok(s) = "function" -> funcstat(s)
    [] Tok(s) = "local"  -> IF Tok(Advance(s)) = "function" THEN localfunc(Advance(Advance(s)))
                            ELSE localstat(Advance(s))
    [] Tok(s) = "return" -> retstat(s)
    [] Tok(s) = "break"  -> breakstat(Advance(s))
    [] OTHER -> exprstat(s)
FreeTemporaries(fs) ==
  [Asserted(fs, fs.maxstacksize >= fs.freereg /\ fs.freereg >= fs.nactvar, "registers")
     EXCEPT !.freereg = fs.nactvar]
StatementDone(s) == WithFs(s, FreeTemporaries(s.fs))
Statements(s, islast) ==
  IF islast \/ Tok(s) \in block_follow THEN s
  ELSE Statements(StatementDone(testnext(statement(s), ";")), Tok(s) \in {"return", "break"})
chunk(s) == leavelevel(Statements(enterlevel(s), FALSE))

luaY_parser(text) ==
  LET s0 == [ts |-> <<EOS>> \o Tokens(luaX_setinput(text)), lastline |-> 1, looked |-> FALSE,
             fs |-> [NewFuncState EXCEPT !.is_vararg = {"is"}], outer |-> <<>>, level |-> 0]
      s  == checknext(chunk(Advance(s0)), "eos")
      fs == Asserted(Closed(s.fs), s.outer = <<>> /\ s.fs.upvalues = <<>> /\ s.level = 0, "main")
  IN  [proto |-> Proto(fs), errors |-> fs.errors, failed |-> fs.failed]
=============================================================================
