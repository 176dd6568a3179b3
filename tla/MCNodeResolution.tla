-------------------------- MODULE MCNodeResolution --------------------------
(* Instances of NodeResolution for TLC. *)
EXTENDS NodeResolution

MCWords == {"localhost", "127.0.0.1", "example.com", "1", "443", "8080", "70000"}

MCPortOf == [w \in {"1", "443", "8080"} |->
               CASE w = "1" -> 1 [] w = "443" -> 443 [] w = "8080" -> 8080]

IPv6 == <<":", ":", "1">>

MCEntries == {<<>>, <<"example.com">>, <<"localhost", ":", "443">>,
              <<"example.com", ":", "70000">>, <<"[">> \o IPv6 \o <<"]", ":", "8080">>, IPv6}

MCHosts == {<<"localhost">>, <<"example.com">>, IPv6, <<"[">> \o IPv6 \o <<"]">>}

MCKnown == {<<"localhost">>, <<"127.0.0.1">>, IPv6, <<"example.com">>}

MCGiven == {<<>>, <<[host |-> <<"example.com">>, port |-> 8080, tls |-> TRUE]>>}
=============================================================================
