---------------------------------- MODULE Gc ----------------------------------
(***************************************************************************)
(* lua-5.1/src/lgc.c with the open upvalues of lfunc.c and the string table *)
(* of lstring.c: the incremental collector, one singlestep at a time        *)
(* between the steps of a program that changes the graph of objects.       *)
(*                                                                         *)
(* An object has one field: what a table holds, a closure captures, a      *)
(* closed upvalue or the stack of a coroutine contains, the environment of  *)
(* a userdata.  A weak table has weak values.  Left out: metatables and     *)
(* prototypes, which are marked as fields are, and when a step is due.     *)
(***************************************************************************)
EXTENDS Integers, Sequences, FiniteSets, SequencesExt, FiniteSetsExt

CONSTANTS
  MaxObjects,          \* bound: objects besides the main thread and the globals
  StackSlots,               \* bound: places of the main stack
  GCSWEEPMAX,          \* objects looked at in one step of the sweep
  MaxOps, MaxCycles    \* bound: operations of the program, incremental cycles

\* The states a program begins with have three objects and use two places.
ASSUME GcAssumption ==
  /\ {MaxObjects, StackSlots, GCSWEEPMAX, MaxOps, MaxCycles} \subseteq Nat \ {0}
  /\ MaxObjects >= 3 /\ StackSlots >= 2

VARIABLES
  g,       \* [obj, rootgc, strt, tmudata, gray, grayagain, weak, currentwhite,
           \*  gcstate, sweepgc, stack]: the objects and the collector
  garbage, \* what this cycle has to free: unreachable since it began
  ops, cycles

gvars == <<g, garbage, ops, cycles>>

Main == 1
GlobalTable == 2
Dynamic == 3 .. MaxObjects + 2
Ids == 1 .. MaxObjects + 2
Places == 1 .. StackSlots
\* slot and th: where the value of an open upvalue is; slot 0: closed.
Object(kind, color, val) ==
  [kind |-> kind, color |-> color, val |-> val, slot |-> 0, th |-> 0, gc |-> FALSE, final |-> FALSE]
NoObject == Object("free", "gray", 0)
Exists(s, o) == s.obj[o].kind # "free"
Kind(s, o) == IF o = 0 THEN "nil" ELSE s.obj[o].kind
IsOpenUpval(s, o) == s.obj[o].kind = "upval" /\ s.obj[o].slot # 0
\* The stack of a coroutine is its field.
UpvalSlot(s, th, i) == IF th = Main THEN s.stack[i] ELSE s.obj[th].val
Held(s, o) == IF IsOpenUpval(s, o) THEN UpvalSlot(s, s.obj[o].th, s.obj[o].slot) ELSE s.obj[o].val

-----------------------------------------------------------------------------
(* Colours                                                                 *)

otherwhite(s) == IF s.currentwhite = "white0" THEN "white1" ELSE "white0"
iswhite(s, o) == s.obj[o].color \in {"white0", "white1"}
isdead(s, o) == s.obj[o].color = otherwhite(s)
Painted(s, o, color) == [s EXCEPT !.obj[o].color = color]
makewhite(s, o) == Painted(s, o, s.currentwhite)
PushGray(s, o) == [Painted(s, o, "gray") EXCEPT !.gray = <<o>> \o @]

\* reallymarkobject, from the kinds that mark no other on: a userdata marks
\* its environment, an upvalue its value.
MarkTraversed(s, o) ==
  IF o = 0 \/ ~iswhite(s, o) THEN s
  ELSE IF s.obj[o].kind = "string" THEN Painted(s, o, "gray") ELSE PushGray(s, o)
MarkUdata(s, o) == MarkTraversed(Painted(s, o, "black"), s.obj[o].val)
markvalue(s, o) ==
  IF o # 0 /\ iswhite(s, o) /\ s.obj[o].kind = "udata" THEN MarkUdata(s, o)
  ELSE MarkTraversed(s, o)
MarkUpval(s, o) ==
  LET marked == markvalue(Painted(s, o, "gray"), Held(s, o))
  IN  IF IsOpenUpval(s, o) THEN marked ELSE Painted(marked, o, "black")
reallymarkobject(s, o) == IF s.obj[o].kind = "upval" THEN MarkUpval(s, o) ELSE markvalue(s, o)
markobject(s, o) == IF iswhite(s, o) THEN reallymarkobject(s, o) ELSE s
MarkStack(s) ==
  LET r[n \in 0 .. StackSlots] == IF n = 0 THEN s ELSE markvalue(r[n - 1], s.stack[n])
  IN  r[StackSlots]

\* A weak table stays gray and is looked at again.
traversetable(s, o) ==
  IF s.obj[o].kind = "weak" THEN [Painted(s, o, "gray") EXCEPT !.weak = <<o>> \o @]
  ELSE markvalue(s, s.obj[o].val)
\* A thread stays gray: its stack changes without barriers.
traversestack(s, o) ==
  LET again == markvalue([Painted(s, o, "gray") EXCEPT !.grayagain = <<o>> \o @], GlobalTable)
  IN  IF o = Main THEN MarkStack(again) ELSE markvalue(again, s.obj[o].val)
propagatemark(s) ==
  LET o == Head(s.gray)
      r == [Painted(s, o, "black") EXCEPT !.gray = Tail(@)]
  IN  CASE s.obj[o].kind \in {"table", "weak"} -> traversetable(r, o)
        [] s.obj[o].kind = "closure"           -> markobject(r, s.obj[o].val)
        [] s.obj[o].kind = "thread"            -> traversestack(r, o)
\* Every mark takes an object off the list; only white ones are put on it.
MarksLeft(s) == Len(s.gray) + Cardinality({o \in Ids : iswhite(s, o)})
Propagated(s) == IF s.gray = <<>> THEN s ELSE propagatemark(s)
propagateall(s) ==
  LET r[n \in 0 .. MarksLeft(s)] == IF n = 0 THEN s ELSE Propagated(r[n - 1])
  IN  r[MarksLeft(s)]

-----------------------------------------------------------------------------
(* The phases                                                              *)

markroot(s) ==
  [markvalue(markobject([s EXCEPT !.gray = <<>>, !.grayagain = <<>>, !.weak = <<>>], Main), GlobalTable)
     EXCEPT !.gcstate = "propagate"]
RemarkUpval(s, o) ==
  IF IsOpenUpval(s, o) /\ s.obj[o].color = "gray" THEN markvalue(s, Held(s, o)) ELSE s
remarkupvals(s) ==
  LET r[n \in 0 .. MaxObjects + 2] == IF n = 0 THEN s ELSE RemarkUpval(r[n - 1], n)
  IN  r[MaxObjects + 2]
\* The members of D, in their order in the list q.
OnlyIf(q, o, D) == IF o \in D THEN Append(q, o) ELSE q
Only(q, D) ==
  LET r[n \in 0 .. Len(q)] == IF n = 0 THEN <<>> ELSE OnlyIf(r[n - 1], q[n], D)
  IN  r[Len(q)]
Unmarked(s) ==
  {o \in ToSet(s.rootgc) : s.obj[o].kind = "udata" /\ iswhite(s, o) /\ ~s.obj[o].final}
\* luaC_separateudata: those with a finalizer go to tmudata.
luaC_separateudata(s) ==
  LET due == {o \in Unmarked(s) : s.obj[o].gc}
  IN  [s EXCEPT !.tmudata = @ \o Only(s.rootgc, due), !.rootgc = Only(@, Ids \ due),
                !.obj = [o \in Ids |-> IF o \in Unmarked(s) THEN [@[o] EXCEPT !.final = TRUE]
                                       ELSE @[o]]]
MarkAnew(s, o) == reallymarkobject(makewhite(s, o), o)
marktmu(s) ==
  LET r[n \in 0 .. Len(s.tmudata)] == IF n = 0 THEN s ELSE MarkAnew(r[n - 1], s.tmudata[n])
  IN  r[Len(s.tmudata)]
\* Strings are values, and marked; a userdata that is being finalized is no
\* longer a value.
iscleared(s, o) ==
  o # 0 /\ s.obj[o].kind # "string" /\ (iswhite(s, o) \/ (s.obj[o].kind = "udata" /\ s.obj[o].final))
InWeak(s, o) == \E h \in ToSet(s.weak) : s.obj[h].val = o
cleartable(s) ==
  [s EXCEPT !.obj = [o \in Ids |->
     IF o \in ToSet(s.weak) /\ iscleared(s, @[o].val) THEN [@[o] EXCEPT !.val = 0]
     ELSE IF @[o].kind = "string" /\ InWeak(s, o) THEN [@[o] EXCEPT !.color = "gray"] ELSE @[o]]]
Remarked(s) == propagateall(remarkupvals(s))
WeakAgain(s) == propagateall(markobject([s EXCEPT !.gray = s.weak, !.weak = <<>>], Main))
GrayAgain(s) == propagateall([s EXCEPT !.gray = s.grayagain, !.grayagain = <<>>])
Preserved(s) == propagateall(marktmu(luaC_separateudata(s)))
atomic(s) ==
  LET cleared == cleartable(Preserved(GrayAgain(WeakAgain(Remarked(s)))))
  IN  [cleared EXCEPT !.currentwhite = otherwhite(cleared), !.sweepgc = 0,
                      !.gcstate = "sweepstring"]

\* luaC_linkupval: a closed upvalue joins the objects; a gray one needs the
\* barrier while objects are marked, and is white as if swept otherwise.
Linked(s, o) == [s EXCEPT !.rootgc = <<o>> \o @]
Blackened(s, o) ==
  IF s.obj[o].val # 0 /\ iswhite(s, s.obj[o].val) THEN markvalue(Painted(s, o, "black"), s.obj[o].val)
  ELSE Painted(s, o, "black")
luaC_linkupval_Plain(s, o) == Linked(s, o)
luaC_linkupval(s, o) ==
  LET r == Linked(s, o)
  IN  IF s.obj[o].color # "gray" THEN r
      ELSE IF s.gcstate = "propagate" THEN Blackened(r, o) ELSE makewhite(r, o)
\* CloseUpvals: the open upvalues of a thread from level on.
CloseOne(s, o) ==
  IF isdead(s, o) THEN [s EXCEPT !.obj[o] = NoObject]
  ELSE luaC_linkupval([s EXCEPT !.obj[o] = [@ EXCEPT !.val = Held(s, o), !.slot = 0, !.th = 0]], o)
OpenOf(s, th) == {o \in Ids : IsOpenUpval(s, o) /\ s.obj[o].th = th}
UpvalsAt(s, th, i) == {o \in OpenOf(s, th) : s.obj[o].slot = i}
CloseAt(s, th, i) ==
  IF UpvalsAt(s, th, i) = {} THEN s ELSE CloseOne(s, CHOOSE u \in UpvalsAt(s, th, i) : TRUE)
\* From the last place down.
CloseUpvals(s, th, level) ==
  LET r[n \in 0 .. StackSlots + 1 - level] ==
        IF n = 0 THEN s ELSE CloseAt(r[n - 1], th, StackSlots + 1 - n)
  IN  r[StackSlots + 1 - level]

\* freeobj; a thread closes its upvalues first.
freeobj(s, o) ==
  LET closed == IF s.obj[o].kind = "thread" THEN CloseUpvals(s, o, 1) ELSE s
  IN  [closed EXCEPT !.obj[o] = NoObject]
Swept(s, o) == IF isdead(s, o) THEN NoObject ELSE [s.obj[o] EXCEPT !.color = s.currentwhite]
\* The open upvalues of a thread are swept with it.
SweepOpen_Left(s, th) == s
SweepOpen(s, th) ==
  [s EXCEPT !.obj = [o \in Ids |-> IF o \in OpenOf(s, th) THEN Swept(s, o) ELSE @[o]]]
\* sweepgc is the object whose link is next, 0 for the head of the list.
PlaceAfter(q, z) == IF z = 0 THEN 1 ELSE SelectInSeq(q, LAMBDA o : o = z) + 1
NextPlace(s) == PlaceAfter(s.rootgc, s.sweepgc)
NextToSweep(s) == IF NextPlace(s) > Len(s.rootgc) THEN 0 ELSE s.rootgc[NextPlace(s)]
Unlinked(s) == [s EXCEPT !.rootgc = RemoveAt(@, NextPlace(s))]
SweepObject(s) ==
  LET o == NextToSweep(s)
      r == IF s.obj[o].kind = "thread" THEN SweepOpen(s, o) ELSE s
  IN  IF isdead(r, o) THEN freeobj(Unlinked(r), o)
      ELSE [makewhite(r, o) EXCEPT !.sweepgc = o]
SweepNext(s) == IF NextToSweep(s) = 0 THEN s ELSE SweepObject(s)
sweeplist(s) ==
  LET r[n \in 0 .. GCSWEEPMAX] == IF n = 0 THEN s ELSE SweepNext(r[n - 1])
      swept == r[GCSWEEPMAX]
  IN  IF NextToSweep(swept) = 0 THEN [swept EXCEPT !.gcstate = "finalize"] ELSE swept
sweepstrings(s) ==
  [s EXCEPT !.obj = [o \in Ids |-> IF o \in s.strt THEN Swept(s, o) ELSE @[o]],
            !.strt = {o \in @ : ~isdead(s, o)}, !.gcstate = "sweep"]
\* GCTM: the userdata goes back to the list; its finalizer may keep it at a
\* place of the stack (0: it does not).
AfterMain(q, o) == InsertAt(q, PlaceAfter(q, Main), o)
BackInList(s, o) ==
  makewhite([s EXCEPT !.tmudata = Tail(@), !.rootgc = AfterMain(@, o)], o)
GCTM(s, keep) ==
  LET r == BackInList(s, Head(s.tmudata))
  IN  IF keep = 0 THEN r ELSE [r EXCEPT !.stack[keep] = Head(s.tmudata)]
singlestep(s, keep) ==
  CASE s.gcstate = "pause"       -> markroot(s)
    [] s.gcstate = "propagate"   -> IF s.gray # <<>> THEN propagatemark(s) ELSE atomic(s)
    [] s.gcstate = "sweepstring" -> sweepstrings(s)
    [] s.gcstate = "sweep"       -> sweeplist(s)
    [] s.gcstate = "finalize"    ->
         IF s.tmudata # <<>> THEN GCTM(s, keep) ELSE [s EXCEPT !.gcstate = "pause"]

\* More steps than a full collection has: one for each object that is marked,
\* swept or finalized, and those between the phases.
FullSteps == 4 * (MaxObjects + 3)
StepUnless(s, state) == IF s.gcstate = state THEN s ELSE singlestep(s, 0)
StepsTo(s, state) ==
  LET r[n \in 0 .. FullSteps] == IF n = 0 THEN s ELSE StepUnless(r[n - 1], state)
  IN  r[FullSteps]
\* luaC_fullgc: a cycle that is marking is dropped: everything becomes white.
Abandoned(s) ==
  IF s.gcstate \notin {"pause", "propagate"} THEN s
  ELSE [s EXCEPT !.gray = <<>>, !.grayagain = <<>>, !.weak = <<>>, !.sweepgc = 0,
                 !.gcstate = "sweepstring"]
luaC_fullgc(s) == StepsTo(markroot(StepsTo(Abandoned(s), "finalize")), "pause")

-----------------------------------------------------------------------------
(* Barriers and allocation                                                 *)

luaC_barrierf(s, o, v) ==
  IF s.gcstate = "propagate" THEN reallymarkobject(s, v) ELSE makewhite(s, o)
luaC_barrierback(s, t) == [Painted(s, t, "gray") EXCEPT !.grayagain = <<t>> \o @]
NeedsBarrier(s, o, v) == v # 0 /\ iswhite(s, v) /\ s.obj[o].color = "black"
luaC_barrier(s, o, v) == IF NeedsBarrier(s, o, v) THEN luaC_barrierf(s, o, v) ELSE s
luaC_barriert(s, t, v) == IF NeedsBarrier(s, t, v) THEN luaC_barrierback(s, t) ELSE s
Revived(s, o) == IF isdead(s, o) THEN makewhite(s, o) ELSE s

Stored(s, i, o) == [s EXCEPT !.stack[i] = o]
FreeIds(s) == {o \in Dynamic : ~Exists(s, o)}
NewId(s) == Min(FreeIds(s))
Allocated(s, kind, val) == [s EXCEPT !.obj[NewId(s)] = Object(kind, s.currentwhite, val)]
luaC_link(s, kind, val) == Linked(Allocated(s, kind, val), NewId(s))
NewUdata(s, gc) ==
  [Allocated(s, "udata", GlobalTable) EXCEPT !.rootgc = AfterMain(@, NewId(s)),
                                         !.obj[NewId(s)].gc = gc]
NewString(s) == [Allocated(s, "string", 0) EXCEPT !.strt = @ \cup {NewId(s)}]
\* FindUpval, for a closure already made as cl: an open upvalue that the
\* collector has given up is revived.
Opened(s, th, i) ==
  [s EXCEPT !.obj[NewId(s)] = [Object("upval", s.currentwhite, 0) EXCEPT !.slot = i, !.th = th]]
FindUpval(s, th, i, cl) ==
  IF UpvalsAt(s, th, i) # {}
  THEN LET u == CHOOSE u \in UpvalsAt(s, th, i) : TRUE
       IN  [Revived(s, u) EXCEPT !.obj[cl].val = u]
  ELSE [Opened(s, th, i) EXCEPT !.obj[cl].val = NewId(s)]

-----------------------------------------------------------------------------
(* What is reachable                                                       *)

Strong(s, o) ==
  CASE s.obj[o].kind = "weak" -> IF Kind(s, s.obj[o].val) = "string" THEN {s.obj[o].val} ELSE {}
    [] s.obj[o].kind = "thread" -> {GlobalTable, s.obj[o].val} \cup (IF o = Main THEN ToSet(s.stack) ELSE {})
    [] s.obj[o].kind = "upval" -> {Held(s, o)}
    [] OTHER -> {s.obj[o].val}
Nearer(s, T) == T \cup ((UNION {Strong(s, o) : o \in T}) \ {0})
ReachedFrom(s, S) ==
  LET r[n \in 0 .. MaxObjects + 2] == IF n = 0 THEN S ELSE Nearer(s, r[n - 1])
  IN  r[MaxObjects + 2]
Reachable(s) == ReachedFrom(s, {Main} \cup ToSet(s.tmudata))
Unreachable(s) == {o \in Dynamic : Exists(s, o)} \ Reachable(s)
Finalizable(s) == {o \in Unreachable(s) : s.obj[o].gc /\ ~s.obj[o].final}

-----------------------------------------------------------------------------
NewState ==
  [obj |-> [o \in Ids |-> CASE o = Main -> Object("thread", "white0", 0)
                           [] o = GlobalTable -> Object("table", "white0", 0)
                           [] OTHER -> NoObject],
   rootgc |-> <<GlobalTable, Main>>, strt |-> {}, tmudata |-> <<>>,
   gray |-> <<>>, grayagain |-> <<>>, weak |-> <<>>, currentwhite |-> "white0",
   gcstate |-> "pause", sweepgc |-> 0, stack |-> [i \in Places |-> 0]]
\* A closure at place i over place j.
WithClosure(s, i, th, j) ==
  Stored(FindUpval(luaC_link(s, "closure", 0), th, j, NewId(s)), i, NewId(s))
New(s, kind, i) == Stored(luaC_link(s, kind, 0), i, NewId(s))
\* The program has just begun, has a closure whose variable is closed, one
\* that shares a variable with a coroutine, or a userdata with an environment.
ClosedOver == CloseUpvals(WithClosure(NewState, 1, Main, StackSlots), Main, StackSlots)
Shared == WithClosure(New(NewState, "thread", StackSlots), 1, NewId(NewState), 1)
InEnvironment ==
  LET s == New(Stored(NewUdata(NewState, TRUE), 1, NewId(NewState)), "table", StackSlots)
  IN  [s EXCEPT !.obj[s.stack[1]].val = s.stack[StackSlots]]
GcInit ==
  /\ g \in {NewState, ClosedOver, Shared, InEnvironment}
  /\ garbage = {} /\ ops = 0 /\ cycles = 0

OnStack(i) == g.stack[i]
\* An operation; what it makes reachable again is no garbage.
Does(s) ==
  /\ ops < MaxOps /\ ops' = ops + 1 /\ g' = s /\ cycles' = cycles
  /\ garbage' = garbage \cap Unreachable(s)
HasRoom(n) == Cardinality(FreeIds(g)) >= n
NewObject(i) ==
  /\ HasRoom(1)
  /\ \/ \E kind \in {"table", "weak"} : Does(Stored(luaC_link(g, kind, 0), i, NewId(g)))
     \/ Does(Stored(luaC_link(g, "thread", 0), i, NewId(g)))
     \/ \E gc \in BOOLEAN : Does(Stored(NewUdata(g, gc), i, NewId(g)))
\* luaS_newlstr: the same string again, perhaps a dead one.
Intern(i) ==
  IF g.strt # {} THEN \E o \in g.strt : Does(Stored(Revived(g, o), i, o))
  ELSE HasRoom(1) /\ Does(Stored(NewString(g), i, NewId(g)))
\* OP_CLOSURE, in the main thread or in a coroutine that hands it out.
NewClosure(i, th, j) ==
  /\ HasRoom(2) /\ (th = Main \/ (th \in ToSet(g.stack) /\ Kind(g, th) = "thread" /\ j = 1))
  /\ Does(WithClosure(g, i, th, j))
Erase(i) == Does(Stored(g, i, 0))
GetField(i, t) == Kind(g, t) \in {"table", "weak"} /\ Does(Stored(g, i, g.obj[t].val))
SetField(t, x) ==
  /\ Kind(g, t) \in {"table", "weak"}
  /\ Does(luaC_barriert([g EXCEPT !.obj[t].val = x], t, x))
GetUpval(i, f) == Kind(g, f) = "closure" /\ Does(Stored(g, i, Held(g, g.obj[f].val)))
UpvalSet(s, u, x) ==
  IF ~IsOpenUpval(s, u) THEN [s EXCEPT !.obj[u].val = x]
  ELSE IF s.obj[u].th = Main THEN Stored(s, s.obj[u].slot, x)
  ELSE [s EXCEPT !.obj[s.obj[u].th].val = x]
SetUpval(f, x) ==
  Kind(g, f) = "closure" /\ Does(luaC_barrier(UpvalSet(g, g.obj[f].val, x), g.obj[f].val, x))
\* lua_setfenv.
SetEnv(u, t) ==
  /\ Kind(g, u) = "udata" /\ Kind(g, t) \in {"table", "weak"}
  /\ Does(luaC_barrier([g EXCEPT !.obj[u].val = t], u, t))
\* lua_xmove, to the stack of a coroutine.
XMove(co, x) == Kind(g, co) = "thread" /\ co # Main /\ Does([g EXCEPT !.obj[co].val = x])
\* A function returns: its part of the stack is left.
Leave(level) ==
  LET closed == CloseUpvals(g, Main, level)
  IN  Does([closed EXCEPT !.stack = [i \in Places |-> IF i >= level THEN 0 ELSE @[i]]])
Operation ==
  \E i \in Places :
    \/ NewObject(i) \/ Intern(i) \/ Erase(i) \/ Leave(i)
    \/ \E th \in Ids, j \in Places : NewClosure(i, th, j)
    \/ \E j \in Places :
         \/ GetField(i, OnStack(j)) \/ SetField(OnStack(j), OnStack(i)) \/ GetUpval(i, OnStack(j))
         \/ SetUpval(OnStack(j), OnStack(i)) \/ SetEnv(OnStack(j), OnStack(i)) \/ XMove(OnStack(j), OnStack(i))
    \/ GetField(i, GlobalTable) \/ SetField(GlobalTable, OnStack(i))

\* What has no finalizer pending, nor is used by one, is garbage of the cycle.
SingleStep ==
  /\ g.gcstate = "pause" => cycles < MaxCycles
  /\ cycles' = IF g.gcstate = "pause" THEN cycles + 1 ELSE cycles
  /\ \E keep \in Places \cup {0} :
       /\ keep # 0 => g.gcstate = "finalize" /\ g.tmudata # <<>>
       /\ g' = singlestep(g, keep)
  /\ garbage' = IF g.gcstate = "pause" THEN Unreachable(g) ELSE garbage \cap Unreachable(g')
  /\ UNCHANGED ops
FullGc ==
  /\ ops < MaxOps /\ ops' = ops + 1
  /\ g' = luaC_fullgc(g) /\ cycles' = cycles
  /\ garbage' = (Unreachable(g) \ ReachedFrom(g, Finalizable(g))) \cap Unreachable(g')
GcNext == Operation \/ SingleStep \/ FullGc
GcSpec == GcInit /\ [][GcNext]_gvars

-----------------------------------------------------------------------------
Referred(s, o) ==
  ({s.obj[o].val} \cup Strong(s, o) \cup (IF IsOpenUpval(s, o) THEN {s.obj[o].th} ELSE {})) \ {0}
\* Also an entry of a weak table names an object that exists.
NoneDangling == \A o \in Reachable(g) : \A p \in Referred(g, o) : Exists(g, p)
\* While objects are marked, a black one refers to no white one.
TriColour ==
  g.gcstate = "propagate" =>
    \A o \in Ids : Exists(g, o) /\ g.obj[o].color = "black" =>
      \A p \in Strong(g, o) \ {0} : ~iswhite(g, p)
\* The lists share one link: no object is in two.
OneList ==
  g.gcstate = "propagate" => IsInjective(g.gray \o g.grayagain \o g.weak)

(* The collector frees nothing that the program can still reach, however    *)
(* its steps fall between the program's: stores into marked objects, open   *)
(* upvalues that are closed or found again, strings and weak values that    *)
(* come back, userdata that a finalizer keeps (luaC_barrierf,              *)
(* luaC_linkupval, atomic, sweeplist).                                     *)
NothingReachableIsFreed == NoneDangling /\ TriColour /\ OneList

(* What was unreachable when a cycle began, and stays so, is gone when it   *)
(* ends; a full collection leaves no garbage (luaC_fullgc).                *)
GarbageIsFreed == g.gcstate = "pause" => garbage = {}
=============================================================================
