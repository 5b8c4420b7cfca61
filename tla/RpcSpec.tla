------------------------------ MODULE RpcSpec -------------------------------
(***************************************************************************)
(* What send_message(msg, true, callback) of scripts/os.lua promises its   *)
(* caller: requests are made one at a time, and the callback of each runs  *)
(* once, with a reply to that very request or with nothing at all.         *)
(***************************************************************************)
EXTENDS Integers, Sequences

CONSTANTS
  Nothing,      \* what the callback gets when the server could not help
  Replies(_)    \* Replies(n): the answers to request n

VARIABLES
  asked,        \* number of requests made
  answers       \* what their callbacks were given, in order

Init == asked = 0 /\ answers = <<>>

Ask ==
  /\ asked = Len(answers)
  /\ asked' = asked + 1
  /\ UNCHANGED answers

Answer ==
  /\ asked = Len(answers) + 1
  /\ \E a \in Replies(asked) \cup {Nothing} : answers' = Append(answers, a)
  /\ UNCHANGED asked

Spec == Init /\ [][Ask \/ Answer]_<<asked, answers>>
=============================================================================
