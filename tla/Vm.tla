--------------------------------- MODULE Vm ---------------------------------
(***************************************************************************)
(* lua-5.1/src/lvm.c: the interpreter.  An action executes one instruction *)
(* of the running coroutine, up to the next one: it takes in the C         *)
(* functions that are called and return.                                   *)
(*                                                                         *)
(* Numbers are integers.  An allocation may find no memory: the error is   *)
(* thrown in place of the instruction.                                     *)
(***************************************************************************)
EXTENDS Do

CONSTANTS
  MAXTAGLOOP,          \* length of a chain of metamethods that are tables
  StrLess(_, _),       \* l_strcmp(l, r) < 0
  Compile(_)           \* luaY_parser, of module Parser

ASSUME VmAssumption == MAXTAGLOOP \in Nat \ {0}

\* Declared ahead, as in lvm.h.
RECURSIVE luaV_gettable(_, _, _, _, _), luaV_settable(_, _, _, _, _), Arith(_, _, _, _, _)

-----------------------------------------------------------------------------
(* Tables                                                                  *)

luaV_gettable(v, t, key, res, loop) ==
  LET mt == Metatable(v, t)
      tm == fasttm(v, mt, "__index")
  IN  IF loop = MAXTAGLOOP THEN luaG_runerror(v, "loop in gettable")
      ELSE IF ~IsTable(t) THEN luaG_runerror(v, "attempt to index")
      ELSE IF RawGet(v, t, key) # Nil THEN Put(v, res, RawGet(v, t, key))
      ELSE IF tm = Nil THEN Put(luaT_gettm(v, mt, "__index"), res, Nil)
      ELSE IF IsFunction(tm) THEN callTMres(v, tm, t, key, Entry("res", res, 0, 0))
      ELSE luaV_gettable(v, tm, key, res, loop + 1)
\* luaH_set makes room for the key, and forgets what is known of metamethods,
\* before the metamethod is looked for.
luaV_settable(v, t, key, x, loop) ==
  LET w  == [v EXCEPT !.tab[t[2]].flags = {}]
      mt == Metatable(w, t)
      tm == fasttm(w, mt, "__newindex")
  IN  IF loop = MAXTAGLOOP THEN luaG_runerror(v, "loop in settable")
      ELSE IF ~IsTable(t) THEN luaG_runerror(v, "attempt to index")
      ELSE IF key = Nil THEN luaG_runerror(w, "table index is nil")
      ELSE IF RawGet(w, t, key) # Nil THEN RawSet(w, t, key, x)
      ELSE IF tm = Nil THEN RawSet(luaT_gettm(w, mt, "__newindex"), t, key, x)
      ELSE IF IsFunction(tm) THEN callTM(w, tm, <<t, key, x>>, 0, Entry("drop", 0, 0, 0))
      ELSE luaV_settable(w, tm, key, x, loop + 1)

\* luaH_getn: some border.
Border(v, t) == CHOOSE n \in 0 .. Cardinality(DOMAIN v.tab[t[2]].map) :
                  /\ \A i \in 1 .. n : RawGet(v, t, Num(i)) # Nil
                  /\ RawGet(v, t, Num(n + 1)) = Nil

-----------------------------------------------------------------------------
(* Arithmetic and comparison                                               *)

tonumber(x) == IF x[1] = "num" THEN x ELSE IF x[1] = "str" THEN NumeralOf(x[2]) ELSE Nil
ArithEvent == ("ADD" :> "__add" @@ "SUB" :> "__sub" @@ "MUL" :> "__mul" @@ "DIV" :> "__div"
                 @@ "MOD" :> "__mod" @@ "POW" :> "__pow" @@ "UNM" :> "__unm")
Arith(v, res, b, c, op) ==
  IF Nil \notin {tonumber(b), tonumber(c)}
  THEN Put(v, res, Num(NumArith(op, tonumber(b)[2], tonumber(c)[2])))
  ELSE call_binTM(v, b, c, Entry("res", res, 0, 0), ArithEvent[op])

OrderTM(v, p1, p2, event) ==
  LET tm == luaT_gettmbyobj(v, p1, event)
  IN  IF tm = luaT_gettmbyobj(v, p2, event) THEN tm ELSE Nil
get_compTM(v, mt1, mt2) ==
  LET tm1 == fasttm(v, mt1, "__eq")
      tm2 == fasttm(v, mt2, "__eq")
  IN  IF mt1 = mt2 \/ tm1 = tm2 THEN tm1 ELSE Nil
Looked(v, mt1, mt2) ==
  LET w == luaT_gettm(v, mt1, "__eq")
  IN  IF fasttm(v, mt1, "__eq") = Nil \/ mt1 = mt2 THEN w ELSE luaT_gettm(w, mt2, "__eq")
TypeOf(x) == IF IsFunction(x) THEN "function" ELSE x[1]
\* The comparison sign is a of the instruction; negated is 1 for `not'.
TestTM(v, tm, p1, p2, sign, negated) ==
  IF IsFunction(tm) THEN callTMres(v, tm, p1, p2, Entry("test", sign, negated, 0))
  ELSE IF tm = Nil THEN luaG_runerror(v, "attempt to compare")
  ELSE callTMres(v, tm, p1, p2, Entry("test", sign, negated, 0))
Jumps1(v, sign, b) == ConditionalJump(v, b = (sign = 1))

luaV_lessthan(v, l, r, sign) ==
  IF TypeOf(l) # TypeOf(r) THEN luaG_runerror(v, "attempt to compare")
  ELSE IF l[1] = "num" THEN Jumps1(v, sign, l[2] < r[2])
  ELSE IF l[1] = "str" THEN Jumps1(v, sign, StrLess(l[2], r[2]))
  ELSE TestTM(v, OrderTM(v, l, r, "__lt"), l, r, sign, 0)
\* Without __le, l <= r is not (r < l).
lessequal(v, l, r, sign) ==
  IF TypeOf(l) # TypeOf(r) THEN luaG_runerror(v, "attempt to compare")
  ELSE IF l[1] = "num" THEN Jumps1(v, sign, l[2] <= r[2])
  ELSE IF l[1] = "str" THEN Jumps1(v, sign, ~StrLess(r[2], l[2]))
  ELSE IF OrderTM(v, l, r, "__le") # Nil
  THEN TestTM(v, OrderTM(v, l, r, "__le"), l, r, sign, 0)
  ELSE TestTM(v, OrderTM(v, r, l, "__lt"), r, l, sign, 1)
luaV_equalval(v, l, r, sign) ==
  IF l = r \/ ~IsTable(l) \/ ~IsTable(r) THEN Jumps1(v, sign, l = r)
  ELSE IF get_compTM(v, Metatable(v, l), Metatable(v, r)) = Nil
  THEN Jumps1(Looked(v, Metatable(v, l), Metatable(v, r)), sign, FALSE)
  ELSE TestTM(Looked(v, Metatable(v, l), Metatable(v, r)),
              get_compTM(v, Metatable(v, l), Metatable(v, r)), l, r, sign, 0)

-----------------------------------------------------------------------------
(* Instructions.  V is the machine when the instruction I has been fetched.  *)

I == InstrAt(vm, L(vm).pc)
V == Skip(vm, 1)
Ra == L(vm).base + I.a
K(i) == ProtoOf(vm).k[i + 1]
RKOf(r) == IF ISK(r) THEN K(r - BITRK) ELSE Reg(vm, r)
Globals == <<"table", 1>>
Closure == vm.cl[Cell(vm, CI(vm).func)[2]]
Runs(op) == vm.status = "run" /\ I.op = op
Becomes(v) == vm' = v

OP_MOVE     == Runs("MOVE") /\ Becomes(Put(V, Ra, Reg(V, I.b)))
OP_LOADK    == Runs("LOADK") /\ Becomes(Put(V, Ra, K(I.b)))
OP_LOADBOOL == Runs("LOADBOOL") /\ Becomes(Skip(Put(V, Ra, Bool(I.b = 1)), IF I.c # 0 THEN 1 ELSE 0))
\* The loop stores before it compares: at least b is set.
OP_LOADNIL ==
  /\ Runs("LOADNIL")
  /\ Becomes(FoldLeft(LAMBDA v, r : PutReg(v, r, Nil), V,
                      IF I.b < I.a THEN <<I.b>> ELSE [i \in 1 .. I.b - I.a + 1 |-> I.a + i - 1]))
OP_GETUPVAL  == Runs("GETUPVAL") /\ Becomes(Put(V, Ra, UpGet(V, Closure.ups[I.b + 1])))
OP_GETGLOBAL == Runs("GETGLOBAL") /\ Becomes(luaV_gettable(V, Globals, K(I.b), Ra, 0))
OP_GETTABLE  == Runs("GETTABLE") /\ Becomes(luaV_gettable(V, Reg(V, I.b), RKOf(I.c), Ra, 0))
OP_SETGLOBAL == Runs("SETGLOBAL") /\ Becomes(luaV_settable(V, Globals, K(I.b), Cell(V, Ra), 0))
OP_SETUPVAL  == Runs("SETUPVAL") /\ Becomes(UpSet(V, Closure.ups[I.b + 1], Cell(V, Ra)))
OP_SETTABLE  ==
  Runs("SETTABLE") /\ Becomes(luaV_settable(V, Cell(V, Ra), RKOf(I.b), RKOf(I.c), 0))
OP_NEWTABLE  ==
  /\ Runs("NEWTABLE")
  /\ Becomes(Put(NewTable(V, <<>>), Ra, <<"table", Len(vm.tab) + 1>>))
OP_SELF ==
  /\ Runs("SELF")
  /\ Becomes(luaV_gettable(Put(V, Ra + 1, Reg(V, I.b)), Reg(V, I.b), RKOf(I.c), Ra, 0))
ArithOp == \* OP_ADD, OP_SUB, OP_MUL, OP_DIV, OP_MOD, OP_POW
  /\ vm.status = "run" /\ I.op \in {"ADD", "SUB", "MUL", "DIV", "MOD", "POW"}
  /\ Becomes(Arith(V, Ra, RKOf(I.b), RKOf(I.c), I.op))
OP_UNM == Runs("UNM") /\ Becomes(Arith(V, Ra, Reg(V, I.b), Reg(V, I.b), "UNM"))
OP_NOT == Runs("NOT") /\ Becomes(Put(V, Ra, Bool(IsFalse(Reg(V, I.b)))))
OP_LEN ==
  /\ Runs("LEN")
  /\ LET x == Reg(V, I.b) IN
     Becomes(IF IsTable(x) THEN Put(V, Ra, Num(Border(V, x)))
             ELSE IF x[1] = "str" THEN Put(V, Ra, Num(Len(x[2])))
             ELSE luaG_runerror(V, "attempt to get length"))
OP_CONCAT == Runs("CONCAT") /\ Becomes(luaV_concat(V, I.c - I.b + 1, I.c))
OP_JMP == Runs("JMP") /\ Becomes(Skip(V, I.b))
OP_EQ  == Runs("EQ") /\ Becomes(luaV_equalval(V, RKOf(I.b), RKOf(I.c), I.a))
OP_LT  == Runs("LT") /\ Becomes(luaV_lessthan(V, RKOf(I.b), RKOf(I.c), I.a))
OP_LE  == Runs("LE") /\ Becomes(lessequal(V, RKOf(I.b), RKOf(I.c), I.a))
OP_TEST == Runs("TEST") /\ Becomes(ConditionalJump(V, IsFalse(Cell(V, Ra)) # (I.c = 1)))
OP_TESTSET ==
  /\ Runs("TESTSET")
  /\ LET jumps == IsFalse(Reg(V, I.b)) # (I.c = 1)
     IN  Becomes(ConditionalJump(IF jumps THEN Put(V, Ra, Reg(V, I.b)) ELSE V, jumps))
\* A b of 0: the instruction before has set the top.
TopFor(b) == IF b # 0 THEN SetTop(V, Ra + b) ELSE V
OP_CALL     == Runs("CALL") /\ Becomes(luaD_precall(TopFor(I.b), Ra, I.c - 1, "op"))
OP_TAILCALL == Runs("TAILCALL") /\ Becomes(luaD_precall(TopFor(I.b), Ra, LUA_MULTRET, "tail"))
\* The last function that runs in an activation ends it.
LeftOver(v) == [v EXCEPT !.th[Me(v)].cs[Len(L(v).cs)].a = @ - 1]
OP_RETURN ==
  /\ Runs("RETURN")
  /\ LET v == luaD_poscall(luaF_close(IF I.b # 0 THEN SetTop(V, Ra + I.b - 1) ELSE V, L(V).base), Ra)
     IN  Becomes(IF Last(L(v).cs).a = 1 THEN Continue(PopC(v))
                 ELSE IF CI(vm).nresults = LUA_MULTRET THEN LeftOver(v)
                 ELSE SetTop(LeftOver(v), CI(v).top))
OP_FORLOOP ==
  /\ Runs("FORLOOP")
  /\ LET step == Cell(V, Ra + 2)[2]
         idx  == Cell(V, Ra)[2] + step
         limit == Cell(V, Ra + 1)[2]
     IN  Becomes(IF (step > 0 /\ idx <= limit) \/ (step <= 0 /\ limit <= idx)
                 THEN Put(Put(Skip(V, I.b), Ra, Num(idx)), Ra + 3, Num(idx)) ELSE V)
\* The three values become numbers one after the other.
OP_FORPREP ==
  /\ Runs("FORPREP")
  /\ LET x == [i \in 0 .. 2 |-> tonumber(Cell(V, Ra + i))]
     IN  Becomes(IF Nil \in {x[0], x[1], x[2]} THEN luaG_runerror(V, "'for' must have numbers")
                 ELSE Skip(Put(Put(Put(V, Ra, Num(x[0][2] - x[2][2])), Ra + 1, x[1]), Ra + 2, x[2]),
                           I.b))
OP_TFORLOOP ==
  /\ Runs("TFORLOOP")
  /\ Becomes(luaD_call(Push(V, Ra + 3, Values(V, Ra, Ra + 3)), Ra + 3, I.c, Entry("tfor", 0, 0, 0)))
\* A c of 0: the number of the batch is in the next word.
OP_SETLIST ==
  /\ Runs("SETLIST")
  /\ LET n == IF I.b = 0 THEN L(V).top - Ra - 1 ELSE I.b
         c == IF I.c = 0 THEN InstrAt(V, L(V).pc).a ELSE I.c
         w == Skip(IF I.b = 0 THEN SetTop(V, CI(V).top) ELSE V, IF I.c = 0 THEN 1 ELSE 0)
         t == Cell(V, Ra)[2]
     IN  Becomes([w EXCEPT !.tab[t].map =
            FoldLeft(LAMBDA m, i : Assigned(m, Num((c - 1) * LFIELDS_PER_FLUSH + i), Cell(V, Ra + i)),
                     @, [i \in 1 .. n |-> i])])
OP_CLOSE == Runs("CLOSE") /\ Becomes(luaF_close(V, Ra))
\* Each upvalue is the closure's own or a register's; they follow as
\* instructions.
Captured(found, i) ==
  IF i.op = "GETUPVAL" THEN [found EXCEPT !.ups = Append(@, Closure.ups[i.b + 1])]
  ELSE LET f == luaF_findupval(found.v, L(vm).base + i.b)
       IN  [v |-> f.v, ups |-> Append(found.ups, f.u)]
OP_CLOSURE ==
  /\ Runs("CLOSURE")
  /\ LET nup == ProtoOf(vm).p[I.b + 1].nups
         new == FoldLeft(Captured, [v |-> V, ups |-> <<>>],
                         SubSeq(ProtoOf(vm).code, L(V).pc + 1, L(V).pc + nup))
     IN  Becomes(Put(Skip([new.v EXCEPT !.cl = Append(@, [p |-> Append(Closure.p, I.b + 1),
                                                          ups |-> new.ups])], nup),
                     Ra, <<"function", Len(vm.cl) + 1>>))
OP_VARARG ==
  /\ Runs("VARARG")
  /\ LET n == CI(V).base - CI(V).func - ProtoOf(V).numparams - 1
         xs == Values(V, CI(V).base - n, CI(V).base)
     IN  Becomes(IF I.b = 0 THEN Push(V, Ra, xs)
                 ELSE FoldLeft(LAMBDA v, j : Put(v, Ra + j - 1, IF j <= n THEN xs[j] ELSE Nil),
                               V, [j \in 1 .. I.b - 1 |-> j]))

\* luaM_realloc_ found no memory for a table, a string or a closure.
NoMemory ==
  /\ vm.status = "run" /\ I.op \in {"NEWTABLE", "CONCAT", "CLOSURE"}
  /\ vm.faults < vm.prog.faults
  /\ Becomes(Throw([V EXCEPT !.faults = @ + 1], Str("not enough memory")))

-----------------------------------------------------------------------------
MainThread ==
  [NewThread(<<"function", 1>>) EXCEPT !.top = 2, !.nCcalls = 1]
Fresh(p, code) ==
  [prog |-> p, code |-> code, th |-> <<MainThread>>, run |-> <<1>>, up |-> <<>>,
   cl |-> <<[p |-> <<>>, ups |-> <<>>]>>,
   tab |-> <<[map |-> [k \in {Str(f) : f \in CFunctions} |-> <<"cfunction", k[2]>>],
              mt |-> 0, flags |-> {}]>>,
   out |-> <<>>, status |-> "run", result |-> <<>>, faults |-> 0]
LuaInit == vm = [status |-> "none"]
\* The host compiles a program and calls it with lua_pcall.
Started(v) ==
  IF v.code.errors # {} THEN [v EXCEPT !.status = "rejected"]
  ELSE PushC(LuaFrame(v, 1, LUA_MULTRET), Entry("exec", 1, 0, 0))
Load ==
  /\ vm.status = "none"
  /\ \E p \in Programs : vm' = Started(Fresh(p, Compile(p.text)))
LuaNext ==
  \/ Load
  \/ OP_MOVE \/ OP_LOADK \/ OP_LOADBOOL \/ OP_LOADNIL \/ OP_GETUPVAL \/ OP_GETGLOBAL
  \/ OP_GETTABLE \/ OP_SETGLOBAL \/ OP_SETUPVAL \/ OP_SETTABLE \/ OP_NEWTABLE \/ OP_SELF
  \/ ArithOp \/ OP_UNM \/ OP_NOT \/ OP_LEN \/ OP_CONCAT \/ OP_JMP \/ OP_EQ \/ OP_LT \/ OP_LE
  \/ OP_TEST \/ OP_TESTSET \/ OP_CALL \/ OP_TAILCALL \/ OP_RETURN \/ OP_FORLOOP \/ OP_FORPREP
  \/ OP_TFORLOOP \/ OP_SETLIST \/ OP_CLOSE \/ OP_CLOSURE \/ OP_VARARG \/ NoMemory
LuaSpec == LuaInit /\ [][LuaNext]_vm
=============================================================================
