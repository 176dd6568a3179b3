---------------------------- MODULE QueryService ----------------------------
(***************************************************************************)
(* What a transport promises to the node that asks: over one connection,   *)
(* the n-th answer belongs to the n-th query, carries its id, and is       *)
(* signed over the query as it was asked.  A connection may be lost at any *)
(* time, and then everything asked or answered over it is settled.         *)
(***************************************************************************)
EXTENDS Naturals, Sequences

CONSTANTS Query,             \* what can be asked
          Answers            \* Answers[q]: the answers that q may get

VARIABLES asked, answers

vars == <<asked, answers>>

Init == asked = <<>> /\ answers = <<>>

Ask(q) == asked' = Append(asked, q) /\ UNCHANGED answers

Answer ==
  /\ Len(answers) < Len(asked)
  /\ \E a \in Answers[asked[Len(answers) + 1]] : answers' = Append(answers, a)
  /\ UNCHANGED asked

Lose == asked' = <<>> /\ answers' = <<>>

Next == (\E q \in Query : Ask(q)) \/ Answer \/ Lose

Spec == Init /\ [][Next]_vars
=============================================================================
