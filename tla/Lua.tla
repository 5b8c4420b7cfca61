--------------------------------- MODULE Lua ---------------------------------
(***************************************************************************)
(* What makes the compiler and the interpreter of modules Parser, Do and   *)
(* Vm right.                                                               *)
(***************************************************************************)
EXTENDS Vm

-----------------------------------------------------------------------------
(* The programs                                                            *)

\* What a program shows is what it means; <<"?">> is any value, and the
\* outcome <<"*">> is any.
AnyOutcome == <<(<<"*">>)>>
Rejection == <<(<<"rejected">>)>>
Shows(got, out) ==
  Len(got) = Len(out) /\ \A i \in DOMAIN got : out[i] \in {<<"?">>, got[i]}

(* A program that the compiler accepts runs to its end and shows what the   *)
(* manual says it does, whatever registers, jumps, constants, upvalues and  *)
(* metamethods its code uses, and however its calls return, fail, overflow  *)
(* or yield; the compiler refuses the programs that are none               *)
(* (luaY_parser, luaV_execute, luaD_call, lua_resume).                     *)
ProgramsMeanWhatTheySay ==
  /\ vm.status = "rejected" <=> vm.status # "none" /\ vm.prog.out = Rejection
  /\ vm.status = "done" => vm.prog.out = AnyOutcome \/ Shows(vm.out, vm.prog.out)
  /\ vm.status = "error" => vm.prog.out = AnyOutcome

(* No assertion of the compiler fails: registers are freed in the order    *)
(* they were taken, jumps are patched once, the code passes luaG_checkcode  *)
(* with the stack size it declares (lcode.c:212, lparser.c:378).           *)
CompilerConsistent == vm.status \in {"run", "done", "error"} => vm.code.failed = {}

-----------------------------------------------------------------------------
(* The machine                                                             *)

Threads == DOMAIN vm.th
OpenIn(id) == {u \in DOMAIN vm.up : vm.up[u].open /\ vm.up[u].thread = id}
Frames(id) == DOMAIN vm.th[id].ci
IsLuaFrame(id, k) == vm.th[id].stack[vm.th[id].ci[k].func + 1][1] = "function" /\ k > 1
\* The registers of frame k, up to the next one.
FrameOf(id, level) ==
  {k \in Frames(id) : /\ vm.th[id].ci[k].base <= level /\ level < vm.th[id].ci[k].top
                      /\ k + 1 \in Frames(id) => level < vm.th[id].ci[k + 1].base}
\* The list that luaF_close cuts has the open upvalues of its thread, from
\* the top down, once each.
UpvaluesListed ==
  \A id \in Threads :
    LET list == vm.th[id].openupval
    IN  /\ ToSet(list) = OpenIn(id)
        /\ \A i \in 2 .. Len(list) : vm.up[list[i]].level < vm.up[list[i - 1]].level
\* An open upvalue is a register of a Lua function that has not returned.
UpvaluesLive ==
  \A u \in DOMAIN vm.up :
    LET up == vm.up[u]
    IN  up.open /\ vm.th[up.thread].status # "error"
          => \E k \in FrameOf(up.thread, up.level) : IsLuaFrame(up.thread, k)
FramesStacked ==
  \A id \in Threads :
    LET l == vm.th[id]
    IN  /\ Len(l.ci) <= l.size_ci /\ l.size_ci <= 2 * LUAI_MAXCALLS
        /\ \A k \in Frames(id) :
             /\ l.ci[k].func < l.ci[k].base
             /\ k > 1 => l.ci[k - 1].base <= l.ci[k].func
        /\ l.status # "error" => l.base = Last(l.ci).base /\ l.base <= l.top
\* The depth of C calls and the functions of each activation are counted.
CallsCounted ==
  \A id \in Threads :
    LET l == vm.th[id]
        inC == SelectSeq(l.cs, LAMBDA e : e.k # "exec")
        inLua == SelectSeq(l.cs, LAMBDA e : e.k = "exec")
    IN  l.status = "ok" =>
          /\ l.nCcalls = Len(inC) + (IF id = 1 THEN 1 ELSE 0)
          /\ FoldLeft(LAMBDA n, e : n + e.a, 0, inLua)
               = Cardinality({k \in Frames(id) : IsLuaFrame(id, k)})
\* fasttm denies a metamethod only where there is none.
CacheTrue ==
  \A t \in DOMAIN vm.tab : \A event \in vm.tab[t].flags : Str(event) \notin DOMAIN vm.tab[t].map
\* A coroutine that resumed another one is inside resume.
ResumersWait ==
  /\ IsInjective(vm.run)
  /\ \A i \in DOMAIN vm.run :
       LET id == vm.run[i]
       IN  /\ vm.th[id].status = "ok"
           /\ IsLuaFrame(id, Len(vm.th[id].ci)) <=> i = Len(vm.run)

(* Between two instructions the data the interpreter keeps twice agree: the *)
(* list of open upvalues with the stack, the frames with the activations of *)
(* luaV_execute and the count of C calls, the cached absence of a          *)
(* metamethod with the metatable (lobject.h), the running coroutines with   *)
(* their status; errors, tail calls and yields cut each of them.           *)
MachineSound ==
  vm.status = "run" =>
    /\ UpvaluesListed /\ UpvaluesLive
    /\ FramesStacked /\ CallsCounted
    /\ CacheTrue /\ ResumersWait

(* An upvalue keeps the value it had when its variable goes out of scope,   *)
(* by a return, a break, a tail call or an error, and no longer changes     *)
(* with the stack (luaF_close).                                            *)
UpvaluesKeepTheirValue ==
  [][vm.status = "run" =>
       \A u \in DOMAIN vm.up :
         /\ vm.up[u].open /\ ~vm'.up[u].open => vm'.up[u].value = UpGet(vm, u)
         /\ ~vm.up[u].open =>
              /\ ~vm'.up[u].open
              /\ vm'.up[u] = vm.up[u] \/ Runs("SETUPVAL")]_vm
=============================================================================
