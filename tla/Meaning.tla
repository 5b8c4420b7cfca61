------------------------------- MODULE Meaning -------------------------------
(***************************************************************************)
(* What Lua expressions mean by the manual, whatever code they compile to: *)
(* the reference the compiler and the interpreter are checked against.     *)
(*                                                                         *)
(* An expression is <<"leaf", text, value>>, <<"not", e>> or              *)
(* <<operator, e1, e2>>.                                                   *)
(***************************************************************************)
EXTENDS Sequences

Leaf(text, value) == <<"leaf", text, value>>
RECURSIVE Value(_), TextFor(_)
Falsy(v) == v \in {<<"nil">>, <<"bool", FALSE>>}
Value(e) ==
  CASE e[1] = "leaf" -> e[3]
    [] e[1] = "not"  -> <<"bool", Falsy(Value(e[2]))>>
    [] e[1] = "and"  -> IF Falsy(Value(e[2])) THEN Value(e[2]) ELSE Value(e[3])
    [] e[1] = "or"   -> IF Falsy(Value(e[2])) THEN Value(e[3]) ELSE Value(e[2])
    [] e[1] = "=="   -> <<"bool", Value(e[2]) = Value(e[3])>>
    [] e[1] = "~="   -> <<"bool", Value(e[2]) # Value(e[3])>>
TextFor(e) ==
  CASE e[1] = "leaf" -> e[2]
    [] e[1] = "not"  -> "not (" \o TextFor(e[2]) \o ")"
    [] OTHER -> "(" \o TextFor(e[2]) \o ")" \o e[1] \o "(" \o TextFor(e[3]) \o ")"

\* Expressions over some leaves: one operator, and two on one or both sides.
Simple(leaves) ==
  {<<"not", l>> : l \in leaves} \cup {<<op, l, m>> : op \in {"and", "or", "=="}, l, m \in leaves}
Sided(leaves) ==
  {<<"not", e>> : e \in Simple(leaves)}
    \cup {<<op, e, l>> : op \in {"and", "or", "=="}, e \in Simple(leaves), l \in leaves}
    \cup {<<op, l, e>> : op \in {"and", "or", "=="}, e \in Simple(leaves), l \in leaves}
Tests(leaves) ==
  {<<"not", l>> : l \in leaves} \cup {<<op, l, m>> : op \in {"==", "~="}, l, m \in leaves}
Balanced(leaves) == {<<op, e, f>> : op \in {"and", "or"}, e, f \in Tests(leaves)}
=============================================================================
