----------------------------- MODULE MCKeyFile -----------------------------
(* Instances of KeyFile for TLC: processes with one key directory are alike. *)
EXTENDS KeyFile, TLC

StarterSymmetry == Permutations(Starter)
=============================================================================
