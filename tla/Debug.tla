-------------------------------- MODULE Debug --------------------------------
(***************************************************************************)
(* The code checker of lua-5.1/src/ldebug.c with the instruction formats of *)
(* lopcodes.c: what the interpreter takes for granted of a function it     *)
(* runs.  Of symbexec it is the use by luaG_checkcode, where no register   *)
(* is looked for.                                                          *)
(***************************************************************************)
EXTENDS Code

\* The operands B and C: unused, used, a register, or a register or constant.
ArithModes == {"ADD", "SUB", "MUL", "DIV", "MOD", "POW"}
OpArgK == [b |-> ArithModes \cup {"SETTABLE", "EQ", "LT", "LE"},
           c |-> ArithModes \cup {"SETTABLE", "EQ", "LT", "LE", "GETTABLE", "SELF"}]
OpArgR == [b |-> {"MOVE", "LOADNIL", "GETTABLE", "SELF", "UNM", "NOT", "LEN", "CONCAT", "TEST", "TESTSET"},
           c |-> {"CONCAT"}]
OpArgN == [b |-> {"TFORLOOP", "CLOSE"},
           c |-> {"MOVE", "LOADNIL", "GETUPVAL", "SETUPVAL", "UNM", "NOT", "LEN", "RETURN", "CLOSE",
                  "VARARG"}]
Bx == {"LOADK", "GETGLOBAL", "SETGLOBAL", "CLOSURE"}
sBx == {"JMP", "FORLOOP", "FORPREP"}

precheck(pt) ==
  /\ pt.maxstacksize <= MAXSTACK
  /\ pt.numparams + (IF "has" \in pt.is_vararg THEN 1 ELSE 0) <= pt.maxstacksize
  /\ "needs" \in pt.is_vararg => "has" \in pt.is_vararg
  /\ Last(pt.code).op = "RETURN"
luaG_checkopenop(i) == i.op \in {"CALL", "TAILCALL", "RETURN", "SETLIST"} /\ i.b = 0
checkreg(pt, reg) == reg < pt.maxstacksize
checkArgMode(pt, i, arg) ==
  LET r == i[arg]
  IN  /\ i.op \in OpArgN[arg] => r = 0
      /\ i.op \in OpArgR[arg] => checkreg(pt, r)
      /\ i.op \in OpArgK[arg] => IF ISK(r) THEN r - BITRK < Len(pt.k) ELSE checkreg(pt, r)
\* A jump does not lead to the second word of a SETLIST.
checkdest(pt, dest) ==
  /\ 0 <= dest /\ dest < Len(pt.code)
  /\ dest > 0 => ~(CodeAt(pt, dest - 1).op = "SETLIST" /\ CodeAt(pt, dest - 1).c = 0)
checkoperands(pt, pc) ==
  LET i == CodeAt(pt, pc) IN
  /\ checkreg(pt, i.a)
  /\ IF i.op \in sBx THEN checkdest(pt, pc + 1 + i.b)
     ELSE IF i.op \in Bx THEN i.op # "CLOSURE" => i.b < Len(pt.k)
     ELSE checkArgMode(pt, i, "b") /\ checkArgMode(pt, i, "c")
  /\ i.op \in TestModes => pc + 2 < Len(pt.code) /\ CodeAt(pt, pc + 1).op = "JMP"
checkcall(pt, pc, i) ==
  /\ i.b # 0 => checkreg(pt, i.a + i.b - 1)
  /\ IF i.c = 0 THEN luaG_checkopenop(CodeAt(pt, pc + 1)) ELSE checkreg(pt, i.a + Max({i.c - 2, 0}))
checkclosure(pt, pc, i) ==
  /\ i.b < Len(pt.p) /\ pc + pt.p[i.b + 1].nups < Len(pt.code)
  /\ \A n \in 1 .. pt.p[i.b + 1].nups : CodeAt(pt, pc + n).op \in {"GETUPVAL", "MOVE"}
checkop(pt, pc) ==
  LET i == CodeAt(pt, pc) IN
  CASE i.op = "LOADBOOL" -> i.c = 0 \/ pc + 2 < Len(pt.code)
    [] i.op \in {"GETUPVAL", "SETUPVAL"} -> i.b < pt.nups
    [] i.op \in {"GETGLOBAL", "SETGLOBAL"} -> pt.k[i.b + 1][1] = "str"
    [] i.op = "SELF" -> checkreg(pt, i.a + 1)
    [] i.op = "CONCAT" -> i.b < i.c
    [] i.op = "TFORLOOP" -> i.c >= 1 /\ checkreg(pt, i.a + 2 + i.c)
    [] i.op \in {"FORLOOP", "FORPREP"} -> checkreg(pt, i.a + 3)
    [] i.op \in {"CALL", "TAILCALL"} -> checkcall(pt, pc, i)
    [] i.op = "RETURN" -> i.b > 1 => checkreg(pt, i.a + i.b - 2)
    [] i.op = "SETLIST" -> i.b > 0 => checkreg(pt, i.a + i.b)
    [] i.op = "CLOSURE" -> checkclosure(pt, pc, i)
    [] i.op = "VARARG" ->
         /\ "is" \in pt.is_vararg /\ "needs" \notin pt.is_vararg
         /\ i.b = 0 => luaG_checkopenop(CodeAt(pt, pc + 1))
         /\ checkreg(pt, i.a + i.b - 2)
    [] OTHER -> TRUE
IsCount(pt, pc) == pc > 0 /\ CodeAt(pt, pc - 1).op = "SETLIST" /\ CodeAt(pt, pc - 1).c = 0
luaG_checkcode(pt) ==
  /\ precheck(pt)
  /\ \A pc \in 0 .. Len(pt.code) - 1 :
       IsCount(pt, pc) \/ (checkoperands(pt, pc) /\ checkop(pt, pc))
=============================================================================
