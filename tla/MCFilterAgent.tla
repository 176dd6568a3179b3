--------------------------- MODULE MCFilterAgent ---------------------------
(* Instances of FilterAgent for TLC. *)
EXTENDS FilterAgent

MCTrim == [b \in Bodies |-> b]
=============================================================================
