--------------------------------- MODULE Do ---------------------------------
(***************************************************************************)
(* lua-5.1/src/ldo.c, the open upvalues of lfunc.c and the coroutines and  *)
(* protected calls of lbaselib.c: how functions are called, return, fail,  *)
(* stop and go on.                                                         *)
(*                                                                         *)
(* luaV_execute calls itself through luaD_call.  Its activations and those *)
(* of the C functions between them are the C stack cs of a thread; an      *)
(* entry says what the C code does when the call returns, and a longjmp    *)
(* cuts the stack.                                                         *)
(*                                                                         *)
(* Hooks, environments and the wording of errors are left out, the stack is *)
(* as long as it has to be; of the basic types only tables have a metatable.   *)
(***************************************************************************)
EXTENDS Debug

CONSTANTS
  BASIC_CI_SIZE, LUAI_MAXCALLS,
  NumText(_),          \* the string of a number
  Programs             \* bound: [text, out, faults], the programs that are run

ASSUME DoAssumption ==
  BASIC_CI_SIZE \in Nat \ {0, 1} /\ LUAI_MAXCALLS \in Nat

VARIABLE
  vm   \* [prog, code, th, run, up, cl, tab, out, status, result, faults]: a
       \* program and what it compiled to, threads, those that run (innermost
       \* last), upvalues, closures, tables, what was shown, the outcome

\* Declared ahead, as in ldo.h and lvm.h.
RECURSIVE Continue(_), call_binTM(_, _, _, _, _), luaD_precall(_, _, _, _), luaD_call(_, _, _, _), luaV_concat(_, _, _),
          luaD_poscall(_, _), luaF_close(_, _), Throw(_, _), Push(_, _, _), ProtoAt(_, _),
          InstrAt(_, _), Cell(_, _), Put(_, _, _), Skip(_, _), Reg(_, _), ConditionalJump(_, _)

\* A closure knows its Proto by the way to it from the main function.
ProtoAt(v, path) == FoldLeft(LAMBDA p, i : p.p[i], v.code.proto, path)

IsFunction(v) == v[1] \in {"function", "cfunction"}
IsTable(v) == v[1] = "table"
Me(v) == Last(v.run)
L(v) == v.th[Me(v)]
SetL(v, l) == [v EXCEPT !.th[Me(v)] = l]
Cell(v, i) == L(v).stack[i + 1]
Put(v, i, x) == [v EXCEPT !.th[Me(v)].stack[i + 1] = x]
SetTop(v, t) == [v EXCEPT !.th[Me(v)].top = t]
CI(v) == Last(L(v).ci)
ProtoOf(v) == ProtoAt(v, v.cl[Cell(v, CI(v).func)[2]].p)
InstrAt(v, pc) == ProtoOf(v).code[pc + 1]
Skip(v, n) == [v EXCEPT !.th[Me(v)].pc = @ + n]
Values(v, from, to) == [i \in 1 .. Max({to - from, 0}) |-> Cell(v, from + i - 1)]
Nils(n) == [i \in 1 .. Max({n, 0}) |-> Nil]
\* Writes xs at from, from + 1, ...; the stack grows as needed.
Written(stack, from, xs) ==
  [i \in 1 .. Max({Len(stack), from + Len(xs)}) |->
     IF i - from \in DOMAIN xs THEN xs[i - from] ELSE stack[i]]
\* The same, and top follows.
Push(v, from, xs) ==
  SetL(v, [L(v) EXCEPT !.top = from + Len(xs), !.stack = Written(@, from, xs)])
Entry(k, a, b, c) == [k |-> k, a |-> a, b |-> b, c |-> c]
PushC(v, e) == [v EXCEPT !.th[Me(v)].cs = Append(@, e)]
PopC(v) == [v EXCEPT !.th[Me(v)].cs = Front(@)]

-----------------------------------------------------------------------------
(* Metatables.  flags: the metamethods known to be absent.                  *)

Cached == {"__index", "__newindex", "__eq"}
RawGet(v, t, key) ==
  IF key \in DOMAIN v.tab[t[2]].map THEN v.tab[t[2]].map[key] ELSE Nil
Assigned(map, key, x) ==
  IF x = Nil THEN [k \in DOMAIN map \ {key} |-> map[k]] ELSE (key :> x) @@ map
RawSet(v, t, key, x) ==
  [v EXCEPT !.tab[t[2]].flags = {}, !.tab[t[2]].map = Assigned(@, key, x)]
NewTable(v, map) == [v EXCEPT !.tab = Append(@, [map |-> map, mt |-> 0, flags |-> Cached])]
Metatable(v, x) == IF IsTable(x) THEN v.tab[x[2]].mt ELSE 0
InMeta(v, mt, event) == IF mt = 0 THEN Nil ELSE RawGet(v, <<"table", mt>>, Str(event))
luaT_gettmbyobj(v, x, event) == InMeta(v, Metatable(v, x), event)
fasttm(v, mt, event) ==
  IF mt # 0 /\ event \in v.tab[mt].flags THEN Nil ELSE InMeta(v, mt, event)
luaT_gettm(v, mt, event) ==
  IF mt # 0 /\ InMeta(v, mt, event) = Nil THEN [v EXCEPT !.tab[mt].flags = @ \cup {event}] ELSE v

-----------------------------------------------------------------------------
(* Upvalues.  An open one is a cell of a stack; openupval lists those of a  *)
(* thread from the top of its stack down.                                  *)

UpGet(v, u) ==
  IF v.up[u].open THEN v.th[v.up[u].thread].stack[v.up[u].level + 1] ELSE v.up[u].value
UpSet(v, u, x) ==
  IF v.up[u].open THEN [v EXCEPT !.th[v.up[u].thread].stack[v.up[u].level + 1] = x]
  ELSE [v EXCEPT !.up[u].value = x]
\* How many of the list are walked over to reach level.
Above(v, level) ==
  SelectInSeq(Append(L(v).openupval, 0), LAMBDA u : u = 0 \/ v.up[u].level <= level) - 1
FoundAt(v, level, n) == n < Len(L(v).openupval) /\ v.up[L(v).openupval[n + 1]].level = level
NewUpVal(v, level, n) ==
  [v EXCEPT !.up = Append(@, [open |-> TRUE, thread |-> Me(v), level |-> level, value |-> Nil]),
            !.th[Me(v)].openupval = InsertAt(@, n + 1, Len(v.up) + 1)]
\* The new state and the upvalue.
luaF_findupval(v, level) ==
  LET n == Above(v, level)
  IN  IF FoundAt(v, level, n) THEN [v |-> v, u |-> L(v).openupval[n + 1]]
      ELSE [v |-> NewUpVal(v, level, n), u |-> Len(v.up) + 1]
Close(v, n) ==
  LET closing == ToSet(SubSeq(L(v).openupval, 1, n))
  IN  [v EXCEPT !.up = [u \in DOMAIN @ |-> IF u \notin closing THEN @[u]
                          ELSE [@[u] EXCEPT !.open = FALSE, !.value = UpGet(v, u)]],
                !.th[Me(v)].openupval = SubSeq(@, n + 1, Len(@))]
luaF_close_Above(v, level) == Close(v, Above(v, level))
luaF_close(v, level) == Close(v, Above(v, level - 1))

-----------------------------------------------------------------------------
(* Returns and errors                                                      *)

\* luaD_poscall: results from firstResult to the top go to the caller.
Adjusted(xs, wanted) ==
  IF wanted = LUA_MULTRET THEN xs
  ELSE SubSeq(xs, 1, Min({wanted, Len(xs)})) \o Nils(wanted - Len(xs))
Returned(l) == [l EXCEPT !.ci = Front(@), !.base = l.ci[Len(l.ci) - 1].base,
                         !.pc = l.ci[Len(l.ci) - 1].savedpc]
luaD_poscall(v, firstResult) ==
  Push(SetL(v, Returned(L(v))), CI(v).func,
       Adjusted(Values(v, firstResult, L(v).top), CI(v).nresults))
\* A C function that leaves xs as its whole result.
CFinish(v) == Continue(luaD_poscall(v, L(v).base))
Results(v, xs) == CFinish(Push(v, L(v).base, xs))

\* auxresume and luaB_coresume when the coroutine has stopped.
Resumed(v, ok, xs) == Results([v EXCEPT !.run = Front(@)], <<Bool(ok)>> \o xs)
\* luaD_pcall after a longjmp to the entry cs[at].  An array of frames that
\* grew for the handling of an overflow shrinks again.
Restored(l, e, at) ==
  [l EXCEPT !.cs = SubSeq(@, 1, at - 1), !.ci = SubSeq(@, 1, e.b), !.nCcalls = e.c,
            !.base = l.ci[e.b].base, !.pc = l.ci[e.b].savedpc,
            !.size_ci = IF @ > LUAI_MAXCALLS /\ e.b < LUAI_MAXCALLS THEN LUAI_MAXCALLS ELSE @]
Recovered(v, at, e, msg) == Results(SetL(v, Restored(L(v), e, at)), <<Bool(FALSE), msg>>)
Recover(v, at, msg) == Recovered(luaF_close(v, L(v).cs[at].a), at, L(v).cs[at], msg)
Failed(v) == [v EXCEPT !.th[Me(v)].status = "error", !.th[Me(v)].cs = <<>>]
\* luaG_runerror, lua_error and luaD_throw.  Unprotected, an error ends the
\* coroutine, or the program.
PCalls(v) == {i \in DOMAIN L(v).cs : L(v).cs[i].k = "pcall"}
Throw(v, msg) ==
  IF PCalls(v) # {} THEN Recover(v, Max(PCalls(v)), msg)
  ELSE IF Len(v.run) > 1 THEN Resumed(Failed(v), FALSE, <<msg>>)
  ELSE [v EXCEPT !.status = "error", !.result = <<msg>>]
luaG_runerror(v, what) == Throw(v, Str(what))

-----------------------------------------------------------------------------
(* Calls                                                                   *)

CallAt(v, func, nresults, e) ==
  IF L(v).nCcalls = LUAI_MAXCCALLS THEN luaG_runerror(v, "C stack overflow")
  ELSE IF L(v).nCcalls >= LUAI_MAXCCALLS + LUAI_MAXCCALLS \div 8
  THEN luaG_runerror(v, "error in error handling")
  ELSE luaD_precall(PushC(v, e), func, nresults, "call")
luaD_call(v, func, nresults, e) ==
  CallAt([v EXCEPT !.th[Me(v)].nCcalls = @ + 1], func, nresults, e)
\* The function and its arguments go on top.
callTM(v, f, args, nresults, e) ==
  luaD_call(Push(v, L(v).top, <<f>> \o args), L(v).top, nresults, e)
callTMres(v, f, p1, p2, e) == callTM(v, f, <<p1, p2>>, 1, e)

FirstTM(v, p1, p2, event) ==
  LET tm == luaT_gettmbyobj(v, p1, event)
  IN  IF tm = Nil THEN luaT_gettmbyobj(v, p2, event) ELSE tm
call_binTM(v, p1, p2, e, event) ==
  LET tm == FirstTM(v, p1, p2, event)
  IN  IF IsFunction(tm) THEN callTMres(v, tm, p1, p2, e)
      ELSE luaG_runerror(v, "attempt to perform " \o event)

\* luaV_concat works from the right; total values end at register last.
Stringable(x) == x[1] \in {"str", "num"}
TextOf(x) == IF x[1] = "num" THEN NumText(x[2]) ELSE x[2]
Strung(v, at) == IF Stringable(Cell(v, at)) THEN Put(v, at, Str(TextOf(Cell(v, at)))) ELSE v
RunOfStrings(v, top, total) ==
  Max({n \in 1 .. total : \A i \in 1 .. n : Stringable(Cell(v, top - i))})
Joined(v, top, n) == FoldLeft(LAMBDA s, i : s \o TextOf(Cell(v, top - n - 1 + i)), "", [i \in 1 .. n |-> i])
Joins(v, top, n, total, last) ==
  luaV_concat(Put(v, top - n, Str(Joined(v, top, n))), total - (n - 1), last - (n - 1))
ConcatAt(v, top, total, last) ==
  IF ~Stringable(Cell(v, top - 2)) \/ ~Stringable(Cell(v, top - 1))
  THEN call_binTM(Strung(v, top - 2), Cell(Strung(v, top - 2), top - 2), Cell(v, top - 1),
                  Entry("concat", total - 1, last - 1, top - 2), "__concat")
  ELSE IF TextOf(Cell(v, top - 1)) = ""
  THEN luaV_concat(Strung(v, top - 2), total - 1, last - 1)
  ELSE Joins(v, top, RunOfStrings(v, top, total), total, last)
Reg(v, r) == Cell(v, L(v).base + r)
PutReg(v, r, x) == Put(v, L(v).base + r, x)
\* With one value left, OP_CONCAT ends.
luaV_concat(v, total, last) ==
  IF total > 1 THEN ConcatAt(v, L(v).base + last + 1, total, last)
  ELSE PutReg(v, InstrAt(v, L(v).pc - 1).a, Reg(v, InstrAt(v, L(v).pc - 1).b))

\* The jump that follows a test.
ConditionalJump(v, c) == Skip(v, IF c THEN InstrAt(v, L(v).pc).b + 1 ELSE 1)
\* OP_CALL and OP_TAILCALL when a C function has returned.
AfterC(v, i) == IF i.op = "CALL" /\ i.c > 0 THEN SetTop(v, CI(v).top) ELSE v
\* OP_TFORLOOP when the iterator has returned.
AfterIterator(v, cb) ==
  ConditionalJump(IF Cell(v, cb) = Nil THEN v ELSE Put(v, cb - 1, Cell(v, cb)),
                  Cell(v, cb) # Nil)
\* The end of luaD_call, and what the function that called it does next; t is
\* the place of a single result.
Unwind(v, e, t) ==
  CASE e.k = "res"    -> SetTop(Put(v, e.a, Cell(v, t)), t)
    [] e.k = "drop"   -> v
    [] e.k = "test"   ->
         ConditionalJump(SetTop(v, t), (IsFalse(Cell(v, t)) # (e.b = 0)) = (e.a = 1))
    [] e.k = "concat" -> luaV_concat(SetTop(Put(v, e.c, Cell(v, t)), t), e.a, e.b)
    [] e.k = "tfor"   -> AfterIterator(SetTop(v, CI(v).top),
                                       L(v).base + InstrAt(v, L(v).pc - 1).a + 3)
    [] e.k = "pcall"  -> Results(v, <<Bool(TRUE)>> \o Values(v, e.a, L(v).top))
Stopped(v) == Values(v, L(v).base, L(v).top)
Continue(v) ==
  IF L(v).cs = <<>> THEN
    IF Len(v.run) > 1 THEN Resumed(SetTop(v, L(v).base), TRUE, Stopped(v))
    ELSE [v EXCEPT !.status = "done", !.result = Stopped(v)]
  ELSE IF Last(L(v).cs).k = "exec" THEN AfterC(v, InstrAt(v, L(v).pc - 1))
  ELSE Unwind([PopC(v) EXCEPT !.th[Me(v)].nCcalls = @ - 1], Last(L(v).cs), L(v).top - 1)

\* inc_ci: the array of frames doubles; beyond the limit it serves the handling
\* of the overflow only.
FramesFull(v) == Len(L(v).ci) = L(v).size_ci
Overflows(v) == FramesFull(v) /\ 2 * L(v).size_ci > LUAI_MAXCALLS
Doubled(v) == [v EXCEPT !.th[Me(v)].size_ci = 2 * @]
growCI(v) ==
  IF L(v).size_ci > LUAI_MAXCALLS THEN luaG_runerror(v, "error in error handling")
  ELSE luaG_runerror(Doubled(v), "stack overflow")
Grown(v) == IF FramesFull(v) THEN Doubled(v) ELSE v

NewCI(func, base, top, nresults) ==
  [func |-> func, base |-> base, top |-> top, savedpc |-> 0, nresults |-> nresults,
   tailcalls |-> 0]
\* The frame of a Lua function, args in its first registers.
Framed(v, func, base, args, p, nresults) ==
  LET w == Push(v, base, args \o Nils(p.maxstacksize - Len(args)))
  IN  SetL(w, [L(w) EXCEPT !.ci = Append([@ EXCEPT ![Len(@)].savedpc = L(v).pc],
                                         NewCI(func, base, base + p.maxstacksize, nresults)),
                           !.base = base, !.pc = 0])
\* adjust_varargs: the parameters move behind the extra arguments, and leave
\* nil; arg is a table of the extra ones.
ArgTable(xs) == [k \in {Num(i) : i \in {j \in DOMAIN xs : xs[j] # Nil}} |-> xs[k[2]]]
                  @@ (Str("n") :> Num(Len(xs)))
adjust_varargs(v, func, fixed, extra, p, nresults) ==
  LET arg == "needs" \in p.is_vararg
      w   == IF arg THEN NewTable(v, ArgTable(extra)) ELSE v
  IN  Framed(Push(w, func + 1, Nils(p.numparams) \o extra), func,
             func + 1 + p.numparams + Len(extra),
             IF arg THEN Append(fixed, <<"table", Len(w.tab)>>) ELSE fixed, p, nresults)
WithArgs(v, func, args, p, nresults) ==
  IF p.is_vararg = {} THEN Framed(v, func, func + 1, Adjusted(args, p.numparams), p, nresults)
  ELSE adjust_varargs(v, func, Adjusted(args, p.numparams),
                      SubSeq(args, p.numparams + 1, Len(args)), p, nresults)
LuaFrame(v, func, nresults) ==
  WithArgs(v, func, Values(v, func + 1, L(v).top), ProtoAt(v, v.cl[Cell(v, func)[2]].p), nresults)
CFrame(v, func, nresults) ==
  SetL(v, [L(v) EXCEPT !.ci = Append([@ EXCEPT ![Len(@)].savedpc = L(v).pc],
                                     NewCI(func, func + 1, L(v).top, nresults)),
                       !.base = func + 1])

\* OP_TAILCALL: the new frame takes the place of the previous one.
Replaced(v, old, new, ci) ==
  LET moved == Push(v, old.func, Values(v, new.func, L(v).top))
      base  == old.func + new.base - new.func
  IN  SetL(moved, [L(moved) EXCEPT !.base = base,
         !.ci = Append(SubSeq(ci, 1, Len(ci) - 2),
                       [old EXCEPT !.base = base, !.top = L(moved).top, !.savedpc = L(v).pc,
                                   !.tailcalls = @ + 1])])
TailFrame_Late(v, ci) ==
  luaF_close(Replaced(v, ci[Len(ci) - 1], Last(ci), ci), ci[Len(ci) - 1].base)
TailFrame(v, ci) ==
  Replaced(luaF_close(v, ci[Len(ci) - 1].base), ci[Len(ci) - 1], Last(ci), ci)
\* A Lua function runs in the activation that called it, or in a new one.
Enter(v, mode) ==
  CASE mode = "op"     -> [v EXCEPT !.th[Me(v)].cs[Len(L(v).cs)].a = @ + 1]
    [] mode = "tail"   -> TailFrame(v, L(v).ci)
    [] mode = "call"   -> PushC(v, Entry("exec", 1, 0, 0))
    [] mode = "resume" -> PushC(v, Entry("exec", Len(L(v).ci) - 1, 0, 0))

-----------------------------------------------------------------------------
(* C functions                                                             *)

Args(v) == Values(v, L(v).base, L(v).top)
NewThread(f) ==
  [stack |-> <<Nil, f>>, top |-> 2, base |-> 1, pc |-> 0,
   ci |-> <<NewCI(0, 1, 1, 0)>>, openupval |-> <<>>, nCcalls |-> 0,
   size_ci |-> BASIC_CI_SIZE, status |-> "ok", cs |-> <<>>]
BadArgument(v) == luaG_runerror(v, "bad argument")

luaB_setmetatable(v, a) ==
  IF ~(Len(a) >= 2 /\ IsTable(a[1]) /\ a[2][1] \in {"nil", "table"}) THEN BadArgument(v)
  ELSE IF luaT_gettmbyobj(v, a[1], "__metatable") # Nil
  THEN luaG_runerror(v, "cannot change a protected metatable")
  ELSE Results([v EXCEPT !.tab[a[1][2]].mt = IF a[2] = Nil THEN 0 ELSE a[2][2]], <<a[1]>>)
luaB_pcall(v, a) ==
  IF a = <<>> THEN BadArgument(v)
  ELSE luaD_call(v, L(v).base, LUA_MULTRET,
                 Entry("pcall", L(v).base, Len(L(v).ci), L(v).nCcalls))
luaB_cocreate(v, a) ==
  IF a = <<>> \/ a[1][1] # "function" THEN BadArgument(v)
  ELSE Results([v EXCEPT !.th = Append(@, NewThread(a[1]))], <<(<<"thread", Len(v.th) + 1>>)>>)

Empty(co) == co.top = co.base
\* A coroutine starts, or goes on behind its yield.
Waked(v, firstArg) ==
  LET w == [v EXCEPT !.th[Me(v)].status = "ok"]
      back == luaD_poscall(w, firstArg)
      on == IF CI(w).nresults = LUA_MULTRET THEN back ELSE SetTop(back, CI(back).top)
  IN  PushC(on, Entry("exec", Len(L(on).ci) - 1, 0, 0))
lua_resume(v, firstArg) ==
  IF L(v).status = "yield" THEN Waked(v, firstArg)
  ELSE luaD_precall(v, firstArg - 1, LUA_MULTRET, "resume")
\* What the coroutine has on its stack is lost to the message.
resume_error(v, id, what) ==
  LET base == Last(v.th[id].ci).base
  IN  Results([v EXCEPT !.th[id].top = base, !.th[id].stack = Written(@, base, <<Str(what)>>)],
              <<Bool(FALSE), Str(what)>>)
auxresume(v, id, args) ==
  LET co == v.th[id] IN
  IF co.status = "ok" /\ Empty(co) THEN Results(v, <<Bool(FALSE), Str("dead")>>)
  ELSE IF co.status = "error" THEN resume_error(v, id, "dead")
  ELSE IF co.status = "ok" /\ Len(co.ci) > 1 THEN resume_error(v, id, "non-suspended")
  ELSE lua_resume(Push([v EXCEPT !.run = Append(@, id)], co.top, args), co.top)
luaB_coresume(v, a) ==
  IF a = <<>> \/ a[1][1] # "thread" THEN BadArgument(v)
  ELSE auxresume(SetTop(v, L(v).base + 1), a[1][2], Tail(a))
Yielded(v) == [v EXCEPT !.th[Me(v)].status = "yield", !.th[Me(v)].cs = <<>>,
                        !.th[Me(v)].top = L(v).base]
lua_yield(v, a) ==
  IF L(v).nCcalls > 0 THEN luaG_runerror(v, "attempt to yield across a C-call boundary")
  ELSE Resumed(Yielded(v), TRUE, a)
StatusOf(v, id) ==
  LET co == v.th[id]
  IN  CASE id = Me(v) -> "running"
        [] id # Me(v) /\ co.status = "yield" -> "suspended"
        [] id # Me(v) /\ co.status = "ok" /\ Len(co.ci) > 1 -> "normal"
        [] id # Me(v) /\ co.status = "ok" /\ Len(co.ci) = 1 /\ ~Empty(co) -> "suspended"
        [] OTHER -> "dead"
luaB_costatus(v, a) ==
  IF a = <<>> \/ a[1][1] # "thread" THEN BadArgument(v)
  ELSE Results(v, <<Str(StatusOf(v, a[1][2]))>>)
\* A function of the host that shows its arguments to the outside.
emit(v, a) == Results([v EXCEPT !.out = @ \o a], <<>>)

CFunctions == {"emit", "error", "pcall", "setmetatable", "create", "resume", "yield", "status"}
CallC(v, name, a) ==
  CASE name = "emit"         -> emit(v, a)
    [] name = "error"        -> Throw(v, IF a = <<>> THEN Nil ELSE a[1])
    [] name = "pcall"        -> luaB_pcall(v, a)
    [] name = "setmetatable" -> luaB_setmetatable(v, a)
    [] name = "create"       -> luaB_cocreate(v, a)
    [] name = "resume"       -> luaB_coresume(v, a)
    [] name = "yield"        -> lua_yield(v, a)
    [] name = "status"       -> luaB_costatus(v, a)

EnterC(v, name) == CallC(v, name, Args(v))
\* The metamethod takes the place of the object, which becomes its first
\* argument.
tryfuncTM(v, func, tm) == Push(v, func, <<tm>> \o Values(v, func, L(v).top))
luaD_precall(v, func, nresults, mode) ==
  LET f  == Cell(v, func)
      tm == luaT_gettmbyobj(v, f, "__call")
  IN  IF IsFunction(f) /\ Overflows(v) THEN growCI(v)
      ELSE IF f[1] = "function" THEN Enter(LuaFrame(Grown(v), func, nresults), mode)
      ELSE IF f[1] = "cfunction" THEN EnterC(CFrame(Grown(v), func, nresults), f[2])
      ELSE IF IsFunction(tm) THEN luaD_precall(tryfuncTM(v, func, tm), func, nresults, mode)
      ELSE luaG_runerror(v, "attempt to call")
=============================================================================
