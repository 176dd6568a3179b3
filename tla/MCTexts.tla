------------------------------ MODULE MCTexts ------------------------------
(* Instances of Canonical and of HtmlEntities for TLC. *)
EXTENDS Canonical, HtmlEntities

MCStrings == {<<>>, <<"1">>, <<"1", "LF">>, <<"LF", "NUL", "NUL">>}

MCQueries == {<<>>, <<"1", "NUL">>}

With(u, t, r) == [f \in Fields |-> CASE f = "url" -> u [] f = "label" -> t [] f = "value" -> r
                                     [] OTHER -> Absent]

TitleOnly == With(<<>>, <<"1">>, Absent)
ValueOnly == With(Absent, Absent, <<"1">>)
TwoLines  == With(Absent, <<"1", "LF">>, <<>>)
NotClean  == With(<<>>, <<>>, <<"LF", "NUL", "NUL">>)

MCObjects == {TitleOnly, ValueOnly, TwoLines, NotClean}

MCItems ==
  {Absent, [own |-> TitleOnly, properties |-> ValueOnly]}
    \cup [own : {TitleOnly, TwoLines, NotClean}, properties : {Absent}]

MCResults == {NoArray} \cup BoundedSeq(MCItems, 2)

MCId == <<"0">>

MCDecimal == [t \in {1, 10} |-> IF t = 1 THEN <<"1">> ELSE <<"1", "0">>]

MCDigest == [p \in {"p1", "p2"} |-> IF p = "p1" THEN <<"NUL", "1">> ELSE <<"1", "NUL">>]
-----------------------------------------------------------------------------
(* Texts for HtmlEntities are put together from these.                     *)

Fragments ==
  {<<"&", "amp", ";">>, <<"&", "lt", ";">>, <<"&", "#", "60", ";">>, <<"&", "#", "X", "3C", ";">>,
   <<"&", "#", "x", "26", ";">>, <<"&", "#", "55296", ";">>, <<"&", "#", "99999999999", ";">>,
   <<"&", "#", "35", ";">>, <<"&", "#", "59", ";">>, <<"&", "gt">>, <<"#", "60", ";">>,
   <<"#", "x", "3C", ";">>, <<"x", "3C">>, <<"lt", ";">>, <<"nbsp", ";">>, <<"&">>, <<"text">>}

MCDecimalChar == [d \in {"60", "26", "35", "59", "55296", "99999999999"} |->
                    CASE d = "60" -> <<"<">> [] d = "26" -> <<"SUB">>
                      [] d = "35" -> <<"#">> [] d = "59" -> <<";">>
                      [] d = "55296" -> <<>> [] d = "99999999999" -> <<"NUL">>]

MCHexChar == [h \in {"3C", "26", "60"} |->
                CASE h = "3C" -> <<"<">> [] h = "26" -> <<"&">> [] h = "60" -> <<"grave">>]

MCTokens == UNION {Range(f) : f \in Fragments}
              \cup UNION {Range(MCDecimalChar[d]) : d \in DOMAIN MCDecimalChar}
              \cup UNION {Range(MCHexChar[h]) : h \in DOMAIN MCHexChar}
              \cup Chars \cup Names \cup Numbers \cup {"&", "#", ";", "x", "X"}

\* The decoder is a function and shares nothing with the signer: each text is an
\* initial state, and the signer takes its steps beside the empty one.
MCInit == Init /\ text \in {FlattenSeq(parts) : parts \in BoundedSeq(Fragments, 3)}
MCNext == text = <<>> /\ Next /\ UNCHANGED text
MCSpec == MCInit /\ [][MCNext]_<<vars, text>>
=============================================================================
