------------------------------- MODULE MCKernel -------------------------------
(***************************************************************************)
(* Instances of the modules of the C library, of the kernel and of the     *)
(* libraries of Lua, one in each behaviour: `part` says which one runs,    *)
(* the others keep their initial state.                                    *)
(***************************************************************************)
EXTENDS StrLib, Format, Numerals, Vfs, Console, Machine, MCStrings

VARIABLE part

-----------------------------------------------------------------------------
(* Format: conversions with one argument, and whole formats                *)
Whole(v) == [neg |-> FALSE, num |-> v, den |-> 1]
Conv(fl, w, t) == <<"%">> \o fl \o w \o t
Printf(format, args, t) == [fn |-> "printf", format |-> format, args |-> args, text |-> t]
FlagSeqs == {<<>>, <<"-">>, <<"0">>, <<"+">>, <<"#">>, <<"-", "0">>, <<"+", "#">>}
FieldWidths == {<<>>, <<"1">>, <<"3">>, <<"1", "2">>}
\* Around the powers of the bases, and where the divisor wraps around.
Values == (0 .. 70) \cup (95 .. 102) \cup {255, 256, 511, 512, 999, 1000, 1023, 1024, 1807, 1808}
            \cup {2047, 2048, 2049, 2063, 4095}
MCFmtCalls ==
  {Printf(Conv(fl, <<>>, <<t>>), <<Whole(v)>>, <<>>) :
     fl \in {<<>>, <<"+", "#">>}, t \in {"d", "u", "x", "X", "o"}, v \in Values}
  \cup {Printf(Conv(fl, w, <<t>>), <<Whole(v)>>, <<>>) :
          fl \in FlagSeqs, w \in FieldWidths, t \in {"d", "x"}, v \in {0, 7, 17, 4000}}
  \cup {[Printf(Conv(<<>>, <<"*">>, <<"l", "d">>), <<Whole(w), Whole(v)>>, <<>>) EXCEPT !.fn = f] :
          f \in {"printf", "sprintf"}, w \in 0 .. 4, v \in {7, 17}}
  \cup {Printf(Conv(fl, w, <<"s">>), <<>>, t) :
          fl \in FlagSeqs, w \in FieldWidths, t \in {NullText, <<>>, <<"a">>, <<"a", "b", "c">>}}
  \cup {Printf(Conv(fl, p, <<t>>), <<[neg |-> n, num |-> v, den |-> 8]>>, <<>>) :
          fl \in {<<>>, <<"#">>}, p \in {<<>>, <<".", "0">>, <<".", "2">>, <<".", "4">>},
          t \in {"f", "g", "e", "E"}, n \in BOOLEAN, v \in {0, 3, 4, 12, 81, 1601, 17001}}
  \cup {Printf(<<"a", "%", "c", "%", "%", "%", "z", "d">>, <<>>, <<FmtNUL>>),
        [Printf(<<"%", "%", "b", "%", ".", "d", "%">>, <<>>, <<>>) EXCEPT !.fn = "sprintf"]}

-----------------------------------------------------------------------------
(* Numerals                                                                *)
Numeral(sp, sg, i, pt, f, m, es, e, r) ==
  [space |-> sp, sign |-> sg, int |-> i, point |-> pt, frac |-> f,
   mark |-> m, esign |-> es, exp |-> e, rest |-> r]
Rests == {<<>>, <<" ">>, <<"z">>}
MCNumTexts ==
  {Numeral(sp, sg, i, <<".">>, f, <<m>>, es, e, r) :
     sp \in {<<>>, <<" ">>}, sg \in {<<>>, <<"-">>}, i \in {<<>>, <<"1", "2">>},
     f \in {<<>>, <<"5">>}, m \in {"e", "E"}, es \in {<<>>, <<"-">>, <<"+">>},
     e \in {<<>>, <<"3">>, <<"3", "1">>}, r \in Rests}
  \cup {Numeral(<<>>, sg, i, <<>>, <<>>, <<>>, <<>>, <<>>, r) :
          sg \in {<<>>, <<"-">>},
          i \in {<<>>, <<"0">>, <<"7">>, <<"1", "2">>, <<"2", "5", "5">>, <<"2", "5", "9">>,
                 <<"2", "6", "3">>, <<"0", "1", "7">>, <<"9", "9", "9", "9">>},
          r \in Rests \cup {<<"x">>, <<" ", "x">>}}
  \cup {Numeral(<<>>, <<>>, <<"0">>, <<>>, <<>>, <<m>>, <<>>, e, r) :
          m \in {"x", "X"}, e \in {<<>>, <<"f">>, <<"F", "f">>, <<"1", "0", "5">>}, r \in Rests}
MCOldPointers == {<<>>, <<"x">>, <<"b">>, <<" ">>, SamePlace}
MinExp == -20

-----------------------------------------------------------------------------
(* Vfs, Console and Machine                                                *)
MCFileNames == {<<"a">>, <<"a", "b">>}
MCColors == {-1, 1}
MCTexts == {<<>>, <<"a", "nl", "a", "bs", " ", "a">>}
Region(a, l, r) == [addr |-> a, len |-> l, ram |-> r]
MCMaps ==
  {<<Region(0, 1, TRUE), Region(2, 3, TRUE), Region(0, 0, FALSE)>>,
   <<Region(0, 1, TRUE), Region(2, 2, FALSE), Region(1, 3, TRUE), Region(9, 9, FALSE)>>,
   <<Region(0, 3, TRUE), Region(9, 2, TRUE), Region(0, 0, FALSE)>>}

-----------------------------------------------------------------------------
Parts == {"strings", "format", "numerals", "files", "console", "machine", "patterns", "lists"}
clibVars == <<strVars, fmtVars, numVars>>
luaLibVars == <<smVars, tabVars>>
mcVars == <<part, clibVars, vfsVars, conVars, machVars, luaLibVars>>

MCInit ==
  /\ part \in Parts
  /\ StrInit /\ FmtInit /\ NumInit /\ VfsInit /\ ConInit /\ MachInit /\ SmInit /\ TabInit
  /\ part # "console" => greeting = <<>>

StringsRun  == /\ part = "strings" /\ StrNext
               /\ UNCHANGED <<part, fmtVars, numVars, vfsVars, conVars, machVars, luaLibVars>>
FormatRun   == /\ part = "format" /\ FmtNext
               /\ UNCHANGED <<part, strVars, numVars, vfsVars, conVars, machVars, luaLibVars>>
NumeralsRun == /\ part = "numerals" /\ NumNext
               /\ UNCHANGED <<part, strVars, fmtVars, vfsVars, conVars, machVars, luaLibVars>>
FilesRun    == /\ part = "files" /\ VfsNext
               /\ UNCHANGED <<part, clibVars, conVars, machVars, luaLibVars>>
ConsoleRun  == /\ part = "console" /\ ConNext
               /\ UNCHANGED <<part, clibVars, vfsVars, machVars, luaLibVars>>
MachineRun  == /\ part = "machine" /\ MachNext
               /\ UNCHANGED <<part, clibVars, vfsVars, conVars, luaLibVars>>
PatternsRun == /\ part = "patterns" /\ SmNext
               /\ UNCHANGED <<part, clibVars, vfsVars, conVars, machVars, tabVars>>
ListsRun    == /\ part = "lists" /\ TabNext
               /\ UNCHANGED <<part, clibVars, vfsVars, conVars, machVars, smVars>>
MCNext ==
  \/ StringsRun \/ FormatRun \/ NumeralsRun \/ FilesRun
  \/ ConsoleRun \/ MachineRun \/ PatternsRun \/ ListsRun

\* The fairness of the parts: what does not run takes no step that could be
\* continued.
MCSpec ==
  /\ MCInit /\ [][MCNext]_mcVars
  /\ WF_vfsVars(ReadLineStep)
  /\ WF_machVars(HandlerStep) /\ WF_machVars(Silence)
  /\ \A l \in Lines : WF_machVars(Deliver(l))
===============================================================================
