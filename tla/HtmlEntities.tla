---------------------------- MODULE HtmlEntities ----------------------------
(***************************************************************************)
(* decode_html_entities (src/html.rs): decimal, then hexadecimal, then     *)
(* named entities, one after the other in the order of a table.            *)
(*                                                                         *)
(* A text is a sequence of tokens: a name, a number and each of the        *)
(* characters & # x X ; are a token.  Entities that decode to letters or   *)
(* digits, which would make another token of their neighbours, are out.    *)
(***************************************************************************)
EXTENDS Naturals, SequencesExt

CONSTANTS Tokens,            \* what texts are made of
          DecimalChar,       \* each decimal number, and the one character
          HexChar            \* it stands for, or none; hexadecimal ones

VARIABLE text                \* what the decoder is called with

\* Names, and what they stand for: a character is called by its name where TLC or
\* the prover would not take it as it is.
Table ==
  << <<"nbsp", "space">>, <<"amp", "&">>, <<"lt", "<">>, <<"gt", ">">>, <<"quot", "quote">>,
     <<"apos", "apostrophe">>, <<"eacute", "e_acute">>, <<"egrave", "e_grave">>, <<"agrave", "a_grave">>,
     <<"ccedil", "c_cedilla">>, <<"ocirc", "o_hat">>, <<"ecirc", "e_hat">>,
     <<"icirc", "i_hat">>, <<"ugrave", "u_grave">>, <<"aacute", "a_acute">> >>

Semicolon == ";"

\* Digits, names, and what names stand for, are tokens of their own.
Numbers == DOMAIN DecimalChar \cup DOMAIN HexChar
Names   == {Table[k][1] : k \in DOMAIN Table}
Chars   == {Table[k][2] : k \in DOMAIN Table}

ASSUME EntityAssumption ==
  /\ Chars \subseteq Tokens /\ {"&", "#", Semicolon, "x", "X"} \cup Numbers \cup Names \subseteq Tokens
  /\ Numbers \cap (Chars \cup {"&", "#", Semicolon}) = {}
  /\ \A by \in {DecimalChar[d] : d \in DOMAIN DecimalChar} \cup {HexChar[h] : h \in DOMAIN HexChar} :
       by = <<>> \/ \E c \in Tokens \ (Numbers \cup Names \cup {"x", "X"}) : by = <<c>>

-----------------------------------------------------------------------------
At(s, i, entity) ==
  i + Len(entity) - 1 <= Len(s) /\ SubSeq(s, i, i + Len(entity) - 1) = entity

Match(entity, char) == [len |-> Len(entity), by |-> char]

\* What the three patterns match at a place, with what is put there.
DecimalAt(s, i) ==
  {Match(<<"&", "#", d, Semicolon>>, DecimalChar[d]) :
     d \in {d \in DOMAIN DecimalChar : At(s, i, <<"&", "#", d, Semicolon>>)}}

HexAt(s, i) ==
  {Match(<<"&", "#", "x", h, Semicolon>>, HexChar[h]) :
     h \in {h \in DOMAIN HexChar : \E x \in {"x", "X"} : At(s, i, <<"&", "#", x, h, Semicolon>>)}}

NamedAt(entry, s, i) ==
  IF At(s, i, <<"&", entry[1], Semicolon>>)
  THEN {Match(<<"&", entry[1], Semicolon>>, <<entry[2]>>)} ELSE {}

\* replace_all() and replace(), with what the pattern has found at each place:
\* from left to right, what is put in is not looked at again.
ReplaceEach(s, found) ==
  LET from[i \in 1 .. Len(s) + 1] ==
        IF i > Len(s) THEN <<>>
        ELSE IF found[i] = {} THEN <<s[i]>> \o from[i + 1]
        ELSE LET m == CHOOSE m \in found[i] : TRUE IN m.by \o from[i + m.len]
  IN  from[1]

ReplaceNamed(entry, s) == ReplaceEach(s, [i \in DOMAIN s |-> NamedAt(entry, s, i)])

\* One pass for each row of the table, in its order.
DecodeNamed(s) ==
  LET pass[k \in 0 .. Len(Table)] == IF k = 0 THEN s ELSE ReplaceNamed(Table[k], pass[k - 1])
  IN  pass[Len(Table)]

DecodeDecimal(s) == ReplaceEach(s, [i \in DOMAIN s |-> DecimalAt(s, i)])
DecodeHex(s)     == ReplaceEach(s, [i \in DOMAIN s |-> HexAt(s, i)])

\* Mutant: the named entities come first.
Decode_NamedFirst(s) == DecodeHex(DecodeDecimal(DecodeNamed(s)))

Decode(s) == DecodeNamed(DecodeHex(DecodeDecimal(s)))

-----------------------------------------------------------------------------
(* Reference: one pass for all kinds of entities.                          *)

NamesAt(s, i) == UNION {NamedAt(Table[k], s, i) : k \in DOMAIN Table}
AnyAt(s, i)   == DecimalAt(s, i) \cup HexAt(s, i) \cup NamesAt(s, i)

DecodeOnce(s) == ReplaceEach(s, [i \in DOMAIN s |-> AnyAt(s, i)])

\* The passes follow each other: the decimal one, pass 0, which is the hexadecimal
\* one, and pass k for the k-th row of the table.  What pass k looks for, and what
\* the passes before it look for at a place.
Wanted(k) ==
  IF k = 0 THEN {<<"&", "#", x, h, Semicolon>> : x \in {"x", "X"}, h \in DOMAIN HexChar}
  ELSE {<<"&", Table[k][1], Semicolon>>}

EarlierAt(k, s, i) ==
  DecimalAt(s, i) \cup (IF k = 0 THEN {} ELSE HexAt(s, i) \cup UNION {NamedAt(Table[j], s, i) : j \in 1 .. k - 1})

\* From some ampersand on the text begins with no entity of pass k, but what the
\* passes before it make of that does.  (Where they put in nothing for what they
\* find, a later ampersand tells.)
Twice(s) ==
  \E i \in {i \in DOMAIN s : s[i] = "&"}, k \in 0 .. Len(Table) :
    LET rest  == SubSeq(s, i, Len(s))
        found == [j \in DOMAIN rest |-> EarlierAt(k, rest, j)]
    IN  /\ \A m \in found[1] : m.by # <<>>
        /\ \E entity \in Wanted(k) : ~At(rest, 1, entity) /\ At(ReplaceEach(rest, found), 1, entity)

\* A text is decoded twice, and the result not that of one pass, exactly where an
\* earlier pass makes an entity for a later one: `&amp;lt;` is, as `&amp;` comes
\* before `&lt;` in the table (html.rs:170), and `&amp;#60;` is not.
DecodedOnce == Decode(text) = DecodeOnce(text) <=> ~Twice(text)
=============================================================================
