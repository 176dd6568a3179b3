------------------------------ MODULE Signing ------------------------------
(***************************************************************************)
(* What an agent signs.  Ed25519 itself is outside the repository: a       *)
(* signature is represented by the content it was made over, so it         *)
(* verifies exactly against that content.  A result list stands for its    *)
(* canonical form, and the millisecond timestamp, which travels both in    *)
(* the signed form and next to it, is left out.                            *)
(***************************************************************************)
Sign(query, results) == [query |-> query, results |-> results]
=============================================================================
