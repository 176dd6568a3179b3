--------------------------- MODULE MCRelayClient ---------------------------
(* Instances of RelayClient for TLC. *)
EXTENDS RelayClient

MCTrim == [b \in Bodies |-> IF b = " " THEN "" ELSE b]

\* A query without an id and a query in a binary frame.
MCNoise == {Frame("text", "query", Absent, " "),
            Frame("binary", "query", CHOOSE i \in Ids : TRUE, " ")}
=============================================================================
