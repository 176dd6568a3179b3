----------------------------- MODULE TextProofs -----------------------------
(***************************************************************************)
(* What a signature stands for, for any texts, results and times: forms    *)
(* are read from their end, where the separators cannot be mistaken.  And  *)
(* what the passes of the decoder make of any text: two passes of which    *)
(* the second finds nothing that the first has made are one pass.          *)
(***************************************************************************)
EXTENDS Canonical, HtmlEntities, SequenceLemmas

Strings == Seq(Bytes)

\* x has none of the bytes of S, and a ends in one of them.
Free(x, S) == \A i \in DOMAIN x : x[i] \notin S
EndsIn(a, S) == a # <<>> /\ a[Len(a)] \in S

-----------------------------------------------------------------------------
(* Byte strings.                                                           *)

\* What follows the last separator, and what goes up to it, are given.
LEMMA SplitAfter ==
  ASSUME NEW S, NEW a \in Strings, NEW b \in Strings, NEW x \in Strings, NEW y \in Strings,
         EndsIn(a, S), EndsIn(b, S), Free(x, S), Free(y, S), a \o x = b \o y
  PROVE  a = b /\ x = y
<1> DEFINE c == a \o x
<1>1. /\ Len(a) \in Nat \ {0} /\ Len(b) \in Nat \ {0} /\ Len(x) \in Nat /\ Len(y) \in Nat
      /\ DOMAIN x = 1 .. Len(x) /\ DOMAIN y = 1 .. Len(y)
  BY EmptySeq, LenProperties DEF Strings, EndsIn
<1>2. /\ Len(c) = Len(a) + Len(x)
      /\ \A i \in 1 .. Len(a) : c[i] = a[i]
      /\ \A i \in Len(a) + 1 .. Len(c) : c[i] = x[i - Len(a)]
  <2>1. /\ Len(c) = Len(a) + Len(x)
        /\ \A i \in 1 .. Len(a) + Len(x) : c[i] = IF i <= Len(a) THEN a[i] ELSE x[i - Len(a)]
    BY ConcatProperties DEF Strings
  <2> HIDE DEF c
  <2> QED
    BY <1>1, <2>1
<1>3. /\ Len(c) = Len(b) + Len(y)
      /\ \A i \in 1 .. Len(b) : c[i] = b[i]
      /\ \A i \in Len(b) + 1 .. Len(c) : c[i] = y[i - Len(b)]
  <2>1. /\ Len(c) = Len(b) + Len(y)
        /\ \A i \in 1 .. Len(b) + Len(y) : c[i] = IF i <= Len(b) THEN b[i] ELSE y[i - Len(b)]
    BY ConcatProperties DEF Strings
  <2> HIDE DEF c
  <2> QED
    BY <1>1, <2>1
<1> HIDE DEF c
<1>4. c[Len(a)] \in S /\ c[Len(b)] \in S
  BY <1>1, <1>2, <1>3 DEF EndsIn
<1>5. ~(Len(a) < Len(b))
  <2> SUFFICES ASSUME Len(a) < Len(b) PROVE FALSE
    OBVIOUS
  <2>1. Len(b) \in Len(a) + 1 .. Len(c) /\ Len(b) - Len(a) \in DOMAIN x
    BY <1>1, <1>2, <1>3
  <2> QED
    BY <1>2, <1>4, <2>1 DEF Free
<1>6. ~(Len(b) < Len(a))
  <2> SUFFICES ASSUME Len(b) < Len(a) PROVE FALSE
    OBVIOUS
  <2>1. Len(a) \in Len(b) + 1 .. Len(c) /\ Len(a) - Len(b) \in DOMAIN y
    BY <1>1, <1>2, <1>3
  <2> QED
    BY <1>3, <1>4, <2>1 DEF Free
<1>7. Len(a) = Len(b)
  BY <1>1, <1>5, <1>6
<1>8. a = b
  BY <1>1, <1>2, <1>3, <1>7, SeqEqual DEF Strings
<1> QED
  BY <1>8, ConcatSimplifications DEF Strings

\* Tails of one length can be taken off.
LEMMA SameTail ==
  ASSUME NEW a \in Strings, NEW b \in Strings, NEW x \in Strings, NEW y \in Strings,
         Len(x) = Len(y), a \o x = b \o y
  PROVE  a = b /\ x = y
<1> DEFINE c == a \o x
<1>1. Len(a) \in Nat /\ Len(b) \in Nat /\ Len(x) \in Nat
  BY LenProperties DEF Strings
<1>2. /\ Len(c) = Len(a) + Len(x)
      /\ \A i \in 1 .. Len(a) + Len(x) : c[i] = IF i <= Len(a) THEN a[i] ELSE x[i - Len(a)]
  BY ConcatProperties DEF Strings
<1>3. /\ Len(c) = Len(b) + Len(y)
      /\ \A i \in 1 .. Len(b) + Len(y) : c[i] = IF i <= Len(b) THEN b[i] ELSE y[i - Len(b)]
  BY ConcatProperties DEF Strings
<1> HIDE DEF c
<1>4. Len(a) = Len(b)
  BY <1>1, <1>2, <1>3
<1>5. \A i \in 1 .. Len(a) : a[i] = b[i]
  BY <1>1, <1>2, <1>3, <1>4
<1>6. a = b
  BY <1>4, <1>5, SeqEqual DEF Strings
<1> QED
  BY <1>6, ConcatSimplifications DEF Strings

\* Byte strings that end in different bytes are different.
LEMMA OtherEnd ==
  ASSUME NEW a \in Strings, NEW b \in Strings, NEW c, NEW d, c # d, EndsIn(a, {c}), EndsIn(b, {d})
  PROVE  a # b
BY DEF EndsIn

\* A byte at the end is the end.
LEMMA EndByte ==
  ASSUME NEW a \in Strings, NEW c \in Bytes
  PROVE  a \o <<c>> \in Strings /\ EndsIn(a \o <<c>>, {c})
<1>1. <<c>> \in Strings /\ Len(<<c>>) = 1 /\ <<c>>[1] = c
  BY DEF Strings
<1>2. a \o <<c>> \in Strings /\ Len(a \o <<c>>) = Len(a) + 1 /\ Len(a) \in Nat
  BY <1>1, ConcatProperties, LenProperties DEF Strings
<1>3. (a \o <<c>>)[Len(a) + 1] = c
  BY <1>1, <1>2, ConcatProperties DEF Strings
<1>4. a \o <<c>> # <<>>
  BY <1>2, EmptySeq
<1> QED
  BY <1>2, <1>3, <1>4 DEF EndsIn

-----------------------------------------------------------------------------
(* Items.                                                                  *)

\* A field of what an item shows is a string in the result, or empty.
LEMMA FirstStringType ==
  ASSUME NEW object \in Objects, NEW keys \in Seq(Fields), Len(keys) <= 3
  PROVE  FirstString(object, keys) \in Texts \cup {<<>>}
<1> DEFINE found == {i \in DOMAIN keys : object[keys[i]] # Absent}
<1>1. object \in [Fields -> Texts \cup {Absent}]
  BY CanonicalAssumption
<1>2. \A i \in found : i \in {1, 2, 3} /\ object[keys[i]] \in Texts
  BY <1>1
<1>3. found # {} => Min(found) \in found
  <2> SUFFICES ASSUME found # {} PROVE Min(found) \in found
    OBVIOUS
  <2> HIDE DEF found
  <2>1. \E x \in found : \A y \in found : x <= y
    BY <1>2
  <2> QED
    BY <2>1 DEF Min
<1> HIDE DEF found
<1>4. FirstString(object, keys) = IF found = {} THEN <<>> ELSE object[keys[Min(found)]]
  BY DEF FirstString, found
<1> QED
  BY <1>2, <1>3, <1>4

\* Every item shows three texts.
LEMMA ShowType ==
  ASSUME NEW item \in Items
  PROVE  Show(item) \in Shows
<1>1. CASE item = Absent
  BY <1>1 DEF Show, Shows
<1>2. CASE item # Absent
  <2>1. Source(item) \in Objects
    BY <1>2 DEF Items, Source
  <2>2. /\ <<"url">> \in Seq(Fields) /\ Len(<<"url">>) <= 3
        /\ <<"title", "label">> \in Seq(Fields) /\ Len(<<"title", "label">>) <= 3
        /\ <<"resume", "value", "description">> \in Seq(Fields)
        /\ Len(<<"resume", "value", "description">>) <= 3
    BY DEF Fields
  <2>3. /\ FirstString(Source(item), <<"url">>) \in Texts \cup {<<>>}
        /\ FirstString(Source(item), <<"title", "label">>) \in Texts \cup {<<>>}
        /\ FirstString(Source(item), <<"resume", "value", "description">>) \in Texts \cup {<<>>}
    BY <2>1, <2>2, FirstStringType
  <2> QED
    BY <1>2, <2>3 DEF Show, Shows
<1> QED
  BY <1>1, <1>2

\* The texts that an item shows are byte strings.
LEMMA ShowBytes ==
  ASSUME NEW s \in Shows
  PROVE  s.u \in Strings /\ s.t \in Strings /\ s.r \in Strings
<1>1. Texts \cup {<<>>} \subseteq Strings
  BY CanonicalAssumption, EmptySeq DEF Strings
<1> QED
  BY <1>1 DEF Shows

-----------------------------------------------------------------------------
(* Forms.                                                                  *)

CleanLine(s) == /\ Free(s.u, {NUL, LF}) /\ Free(s.t, {NUL}) /\ Free(s.r, {NUL})

\* What comes before a line, and the line, taken apart from its end.
UpToUrl(a, s)   == (a \o s.u) \o <<NUL>>
UpToTitle(a, s) == (UpToUrl(a, s) \o s.t) \o <<NUL>>

\* A line in its parts, read from its end: what precedes each separator, and that
\* each of these pieces ends with its separator.
LEMMA LineApart ==
  ASSUME NEW a \in Strings, NEW s \in Shows
  PROVE  /\ Line(s) \in Strings
         /\ UpToUrl(a, s) \in Strings /\ EndsIn(UpToUrl(a, s), {NUL})
         /\ UpToTitle(a, s) \in Strings /\ EndsIn(UpToTitle(a, s), {NUL})
         /\ a \o Line(s) = (UpToTitle(a, s) \o s.r) \o <<LF>>
<1>1. NUL \in Bytes /\ LF \in Bytes /\ s.u \in Strings /\ s.t \in Strings /\ s.r \in Strings
  BY ShowBytes, CanonicalAssumption
<1>2. <<NUL>> \in Strings /\ <<LF>> \in Strings
  BY <1>1 DEF Strings
<1> DEFINE n == <<NUL>>  l == <<LF>>  u == s.u  t == s.t  r == s.r
<1>3. n \in Strings /\ l \in Strings /\ u \in Strings /\ t \in Strings /\ r \in Strings
  BY <1>1, <1>2
<1>4. \A x, y \in Strings : x \o y \in Strings
  BY ConcatProperties DEF Strings
<1>5. \A x, y, z \in Strings : x \o (y \o z) = (x \o y) \o z
  BY ConcatAssociative DEF Strings
<1>6. /\ UpToUrl(a, s) = (a \o u) \o n /\ UpToTitle(a, s) = (((a \o u) \o n) \o t) \o n
      /\ Line(s) = ((((u \o n) \o t) \o n) \o r) \o l
  BY DEF UpToUrl, UpToTitle, Line
<1>7. a \o u \in Strings /\ (a \o u) \o n \in Strings /\ ((a \o u) \o n) \o t \in Strings
      /\ EndsIn((a \o u) \o n, {NUL}) /\ EndsIn((((a \o u) \o n) \o t) \o n, {NUL})
  <2>1. a \o u \in Strings
    BY <1>3, <1>4
  <2>2. (a \o u) \o <<NUL>> \in Strings /\ EndsIn((a \o u) \o <<NUL>>, {NUL})
    BY <1>1, <2>1, EndByte
  <2>3. ((a \o u) \o n) \o t \in Strings
    BY <1>3, <1>4, <2>2
  <2>4. EndsIn((((a \o u) \o n) \o t) \o <<NUL>>, {NUL})
    BY <1>1, <2>3, EndByte
  <2> QED
    BY <2>1, <2>2, <2>3, <2>4
<1> DEFINE un == u \o n
           unt == un \o t
           untn == unt \o n
           untnr == untn \o r
<1>8. un \in Strings /\ unt \in Strings /\ untn \in Strings /\ untnr \in Strings /\ untnr \o l \in Strings
  <2> HIDE DEF n, l, u, t, r
  <2> QED
    BY <1>3, <1>4
<1>9. a \o (untnr \o l) = (((((a \o u) \o n) \o t) \o n) \o r) \o l
  <2>1. un = u \o n /\ unt = un \o t /\ untn = unt \o n /\ untnr = untn \o r
    OBVIOUS
  <2> HIDE DEF n, l, u, t, r, un, unt, untn, untnr
  <2>2. un \in Strings
    BY <1>8
  <2>3. unt \in Strings
    BY <1>8
  <2>4. untn \in Strings
    BY <1>8
  <2>5. untnr \in Strings
    BY <1>8
  <2>6. a \o (u \o n) = (a \o u) \o n
    BY <1>3, <1>5
  <2>7. a \o (un \o t) = (a \o un) \o t
    BY <1>3, <1>5, <2>2, SMTT(30)
  <2>8. a \o (unt \o n) = (a \o unt) \o n
    BY <1>3, <1>5, <2>3, SMTT(30)
  <2>9. a \o (untn \o r) = (a \o untn) \o r
    BY <1>3, <1>5, <2>4, SMTT(30)
  <2>10. a \o (untnr \o l) = (a \o untnr) \o l
    BY <1>3, <1>5, <2>5, SMTT(30)
  <2> QED
    BY <2>1, <2>6, <2>7, <2>8, <2>9, <2>10
<1> QED
  BY <1>3, <1>4, <1>6, <1>7, <1>8, <1>9

\* After a separator, clean lines are equal only if all their fields are.
LEMMA LineSplit ==
  ASSUME NEW a \in Strings, NEW b \in Strings, NEW s \in Shows, NEW t \in Shows,
         EndsIn(a, {NUL, LF}), EndsIn(b, {NUL, LF}), CleanLine(s), CleanLine(t),
         a \o Line(s) = b \o Line(t)
  PROVE  a = b /\ s = t
<1>1. /\ s.u \in Strings /\ s.t \in Strings /\ s.r \in Strings /\ t.u \in Strings /\ t.t \in Strings /\ t.r \in Strings
      /\ <<NUL>> \in Strings /\ <<LF>> \in Strings
  BY ShowBytes, CanonicalAssumption DEF Strings
<1>2. \A x, y \in Strings : x \o y \in Strings
  BY ConcatProperties DEF Strings
<1>3. \A x, y, z \in Strings : x \o z = y \o z => x = y
  BY ConcatSimplifications DEF Strings
<1>4. /\ UpToUrl(a, s) \in Strings /\ EndsIn(UpToUrl(a, s), {NUL})
      /\ UpToTitle(a, s) \in Strings /\ EndsIn(UpToTitle(a, s), {NUL})
      /\ UpToUrl(b, t) \in Strings /\ EndsIn(UpToUrl(b, t), {NUL})
      /\ UpToTitle(b, t) \in Strings /\ EndsIn(UpToTitle(b, t), {NUL})
  BY LineApart
<1>5. UpToTitle(a, s) \o s.r = UpToTitle(b, t) \o t.r
  <2>1. (UpToTitle(a, s) \o s.r) \o <<LF>> = (UpToTitle(b, t) \o t.r) \o <<LF>>
    BY LineApart
  <2>2. UpToTitle(a, s) \o s.r \in Strings /\ UpToTitle(b, t) \o t.r \in Strings
    BY <1>1, <1>2, <1>4
  <2> QED
    BY <1>1, <1>3, <2>1, <2>2
<1>6. UpToTitle(a, s) = UpToTitle(b, t) /\ s.r = t.r
  BY <1>1, <1>4, <1>5, SplitAfter, ZenonT(30) DEF CleanLine
<1>7. UpToUrl(a, s) \o s.t = UpToUrl(b, t) \o t.t
  <2>1. UpToUrl(a, s) \o s.t \in Strings /\ UpToUrl(b, t) \o t.t \in Strings
    BY <1>1, <1>2, <1>4
  <2> QED
    BY <1>1, <1>3, <1>6, <2>1 DEF UpToTitle
<1>8. UpToUrl(a, s) = UpToUrl(b, t) /\ s.t = t.t
  BY <1>1, <1>4, <1>7, SplitAfter DEF CleanLine
<1>9. a \o s.u = b \o t.u
  <2>1. a \o s.u \in Strings /\ b \o t.u \in Strings
    BY <1>1, <1>2
  <2> QED
    BY <1>1, <1>3, <1>8, <2>1 DEF UpToUrl
<1>10. a = b /\ s.u = t.u
  BY <1>1, <1>9, SplitAfter DEF CleanLine
<1> QED
  BY <1>6, <1>8, <1>10 DEF Shows

\* What comes before the lines: the query and the time.
Head2(q, t) == ((q \o <<NUL>>) \o Decimal[t]) \o <<NUL>>

\* A form in its parts: the query, the time, and the lines after them.
LEMMA FormParts ==
  ASSUME NEW q \in Queries, NEW t \in Times, NEW b \in Strings
  PROVE  /\ q \in Strings /\ q \o <<NUL>> \in Strings /\ EndsIn(q \o <<NUL>>, {NUL})
         /\ Decimal[t] \in Strings /\ Free(Decimal[t], {NUL})
         /\ Head2(q, t) \in Strings /\ EndsIn(Head2(q, t), {NUL})
         /\ Form(q, t, b) = Head2(q, t) \o b /\ Form(q, t, b) \in Strings
         /\ Form(q, t, <<>>) = Head2(q, t)
<1>1. NUL \in Bytes /\ q \in Strings
  BY CanonicalAssumption DEF Strings
<1>2. Decimal[t] \in Seq(Bytes \ {NUL})
  BY FormAssumption
<1>3. Decimal[t] \in Strings /\ Free(Decimal[t], {NUL})
  <2>1. Decimal[t] \in Strings
    BY <1>2, SeqMonotonic DEF Strings
  <2>2. \A i \in DOMAIN Decimal[t] : Decimal[t][i] \in Bytes \ {NUL}
    BY <1>2, ElementOfSeq, LenProperties
  <2> QED
    BY <2>1, <2>2 DEF Free
<1>4. q \o <<NUL>> \in Strings /\ EndsIn(q \o <<NUL>>, {NUL})
  BY <1>1, EndByte
<1>5. (q \o <<NUL>>) \o Decimal[t] \in Strings
  BY <1>3, <1>4, ConcatProperties DEF Strings
<1>6. Head2(q, t) \in Strings /\ EndsIn(Head2(q, t), {NUL})
  BY <1>1, <1>5, EndByte DEF Head2
<1>7. Form(q, t, b) = Head2(q, t) \o b /\ Form(q, t, <<>>) = Head2(q, t) \o <<>>
  BY DEF Form, Head2
<1>8. Head2(q, t) \o b \in Strings /\ Head2(q, t) \o <<>> = Head2(q, t)
  BY <1>6, ConcatProperties, ConcatEmptySeq DEF Strings
<1> QED
  BY <1>1, <1>3, <1>4, <1>6, <1>7, <1>8

\* Forms without lines are equal only if they are of one query and one time,
\* whatever bytes the queries have.
LEMMA HeadSplit ==
  ASSUME NEW q \in Queries, NEW p \in Queries, NEW t \in Times, NEW s \in Times,
         Head2(q, t) = Head2(p, s)
  PROVE  q = p /\ t = s
<1>1. <<>> \in Strings /\ <<NUL>> \in Strings
  BY EmptySeq, CanonicalAssumption DEF Strings
<1>2. \A x, y, z \in Strings : x \o z = y \o z => x = y
  BY ConcatSimplifications DEF Strings
<1>3. /\ q \in Strings /\ q \o <<NUL>> \in Strings /\ EndsIn(q \o <<NUL>>, {NUL})
      /\ Decimal[t] \in Strings /\ Free(Decimal[t], {NUL})
  BY <1>1, FormParts
<1>4. /\ p \in Strings /\ p \o <<NUL>> \in Strings /\ EndsIn(p \o <<NUL>>, {NUL})
      /\ Decimal[s] \in Strings /\ Free(Decimal[s], {NUL})
  BY <1>1, FormParts
<1>5. (q \o <<NUL>>) \o Decimal[t] = (p \o <<NUL>>) \o Decimal[s]
  <2>1. (q \o <<NUL>>) \o Decimal[t] \in Strings /\ (p \o <<NUL>>) \o Decimal[s] \in Strings
    BY <1>3, <1>4, ConcatProperties DEF Strings
  <2> QED
    BY <1>1, <1>2, <2>1, ZenonT(30) DEF Head2
<1>6. q \o <<NUL>> = p \o <<NUL>> /\ Decimal[t] = Decimal[s]
  BY <1>3, <1>4, <1>5, SplitAfter
<1>7. q = p
  BY <1>1, <1>2, <1>3, <1>4, <1>6
<1> QED
  BY <1>6, <1>7, FormAssumption

\* A line more in the response is the line at the end of the form.
LEMMA FormGrows ==
  ASSUME NEW q \in Queries, NEW t \in Times, NEW b \in Strings, NEW s \in Shows
  PROVE  /\ b \o Line(s) \in Strings
         /\ Form(q, t, b \o Line(s)) = Form(q, t, b) \o Line(s)
         /\ EndsIn(Form(q, t, b \o Line(s)), {LF})
<1>1. Line(s) \in Strings /\ b \o Line(s) \in Strings
  BY LineApart, ConcatProperties DEF Strings
<1>2. Form(q, t, b \o Line(s)) = Head2(q, t) \o (b \o Line(s))
  BY <1>1, FormParts
<1>3. Head2(q, t) \o (b \o Line(s)) = (Head2(q, t) \o b) \o Line(s)
  <2>1. Head2(q, t) \in Strings
    BY FormParts
  <2> QED
    BY <1>1, <2>1, ConcatAssociative, SMTT(30) DEF Strings
<1>4. Form(q, t, b \o Line(s)) = Form(q, t, b) \o Line(s)
  BY <1>2, <1>3, FormParts
<1>5. EndsIn(Form(q, t, b) \o Line(s), {LF})
  <2> DEFINE a == UpToTitle(Form(q, t, b), s) \o s.r
  <2>1. Form(q, t, b) \in Strings
    BY FormParts
  <2>2. a \in Strings /\ Form(q, t, b) \o Line(s) = a \o <<LF>>
    BY <2>1, LineApart, ShowBytes, ConcatProperties DEF Strings
  <2>3. LF \in Bytes
    BY CanonicalAssumption
  <2> HIDE DEF a
  <2> QED
    BY <2>2, <2>3, EndByte
<1> QED
  BY <1>1, <1>4, <1>5

-----------------------------------------------------------------------------
(* Types.                                                                  *)

\* The form of a gossip post is a byte string, and is read from its end, too:
\* the digest is as long as any, and what comes before it is a head.
LEMMA GossipForm ==
  ASSUME NEW t \in Times, NEW p \in Payloads
  PROVE  LET id == Id \o <<NUL>>
             head == (id \o Decimal[t]) \o <<NUL>>
         IN  /\ id \in Strings /\ EndsIn(id, {NUL}) /\ Decimal[t] \in Strings /\ Free(Decimal[t], {NUL})
             /\ id \o Decimal[t] \in Strings /\ head \in Strings /\ Digest[p] \in Strings
             /\ GossipAuth(t, p) = head \o Digest[p] /\ GossipAuth(t, p) \in Strings
<1> DEFINE id == Id \o <<NUL>>
           head == (id \o Decimal[t]) \o <<NUL>>
<1>1. NUL \in Bytes /\ Id \in Strings /\ Digest[p] \in Strings /\ Decimal[t] \in Seq(Bytes \ {NUL})
  BY CanonicalAssumption, FormAssumption DEF Strings
<1>2. id \in Strings /\ EndsIn(id, {NUL})
  BY <1>1, EndByte
<1>3. Decimal[t] \in Strings /\ Free(Decimal[t], {NUL})
  <2>1. Decimal[t] \in Strings
    BY <1>1, SeqMonotonic DEF Strings
  <2>2. \A i \in DOMAIN Decimal[t] : Decimal[t][i] \in Bytes \ {NUL}
    BY <1>1, ElementOfSeq, LenProperties
  <2> QED
    BY <2>1, <2>2 DEF Free
<1>4. id \o Decimal[t] \in Strings
  <2> HIDE DEF id
  <2> QED
    BY <1>2, <1>3, ConcatProperties DEF Strings
<1>5. head \in Strings
  <2> HIDE DEF id
  <2> QED
    BY <1>1, <1>4, EndByte
<1>6. GossipAuth(t, p) = head \o Digest[p]
  BY DEF GossipAuth
<1>7. head \o Digest[p] \in Strings
  <2> HIDE DEF head
  <2> QED
    BY <1>1, <1>5, ConcatProperties DEF Strings
<1> QED
  BY <1>1, <1>2, <1>3, <1>4, <1>5, <1>6, <1>7

Jobs == [query : Queries, results : Results, ts : Times]

\* Nothing is left of a response when it is sent.
Idle == job = Absent => todo = <<>> /\ body = <<>>

Typed == TypeOK /\ Idle

\* The types hold at first; there is no response in work.
LEMMA InitTypes == Init => Typed
<1>1. <<>> \in Seq(Items) /\ <<>> \in Seq(Bytes)
  BY EmptySeq
<1> QED
  BY <1>1 DEF Init, Typed, TypeOK, Idle

\* Each step keeps the types; there are lines only of a response in work.
LEMMA StepTypes == Typed /\ [Next]_vars => Typed'
<1> SUFFICES ASSUME Typed, [Next]_vars PROVE Typed'
  OBVIOUS
<1> USE DEF Typed, TypeOK, Idle
<1>0. job # Absent => job.query \in Queries /\ job.results \in Results /\ job.ts \in Times
  OBVIOUS
<1>1. ASSUME NEW q \in Queries, NEW r \in Results, SignResults(q, r) PROVE Typed'
  <2>1. Array(r) \in Seq(Items)
    BY CanonicalAssumption, EmptySeq DEF Array
  <2>2. job' \in Jobs /\ job' # Absent /\ todo' \in Seq(Items)
    BY <1>1, <2>1, CanonicalAssumption DEF SignResults, Jobs
  <2> QED
    BY <1>1, <2>2 DEF SignResults, Jobs
<1>2. CASE AddLine
  <2> DEFINE s == Show(Head(todo))
  <2>1. Head(todo) \in Items /\ Tail(todo) \in Seq(Items)
    BY <1>2, HeadTailProperties DEF AddLine
  <2>2. s \in Shows
    BY <2>1, ShowType
  <2> HIDE DEF s
  <2>3. body \o Line(s) \in Seq(Bytes)
    BY <2>2, LineApart, ConcatProperties DEF Strings
  <2>4. body' = body \o Line(s)
    BY <1>2 DEF AddLine, s
  <2> QED
    BY <1>2, <2>1, <2>3, <2>4 DEF AddLine
<1>3. CASE SendResults
  <2>1. Form(job.query, job.ts, body) \in Seq(Bytes)
    BY <1>0, <1>3, FormParts DEF SendResults, Strings
  <2>2. sent' \subseteq [query : Queries, ts : Times, results : Results, signature : Seq(Bytes)]
    BY <1>0, <1>3, <2>1 DEF SendResults
  <2> QED
    BY <1>3, <2>2, EmptySeq DEF SendResults
<1>4. ASSUME NEW p \in Payloads, PostGossip(p) PROVE Typed'
  <2>1. GossipAuth(now, p) \in Seq(Bytes)
    BY GossipForm DEF Strings
  <2> QED
    BY <1>4, <2>1 DEF PostGossip, work
<1>5. CASE Clock
  BY <1>5 DEF Clock, work
<1>6. CASE UNCHANGED vars
  BY <1>6 DEF vars, work
<1> QED
  BY <1>1, <1>2, <1>3, <1>4, <1>5, <1>6 DEF Next

\* The locals of the signer and what goes out keep their types.
THEOREM TypeCorrect == Spec => []TypeOK
<1>1. Typed => TypeOK
  BY DEF Typed
<1> QED
  BY <1>1, InitTypes, StepTypes, PTL DEF Spec

-----------------------------------------------------------------------------
(* Gossip posts.                                                           *)

GossipSigned == \A f \in posted : f.signature = GossipAuth(f.ts, f.payload)

\* Two forms of gossip posts are one only if time and payload are.
LEMMA GossipSplit ==
  ASSUME NEW t \in Times, NEW s \in Times, NEW p \in Payloads, NEW o \in Payloads,
         GossipAuth(t, p) = GossipAuth(s, o)
  PROVE  t = s /\ p = o
<1> DEFINE id == Id \o <<NUL>>
           dt == id \o Decimal[t]
           ds == id \o Decimal[s]
           ht == dt \o <<NUL>>
           hs == ds \o <<NUL>>
<1>1. /\ id \in Strings /\ EndsIn(id, {NUL}) /\ Decimal[t] \in Strings /\ Free(Decimal[t], {NUL})
      /\ dt \in Strings /\ ht \in Strings /\ Digest[p] \in Strings /\ GossipAuth(t, p) = ht \o Digest[p]
  BY GossipForm
<1>2. /\ Decimal[s] \in Strings /\ Free(Decimal[s], {NUL})
      /\ ds \in Strings /\ hs \in Strings /\ Digest[o] \in Strings /\ GossipAuth(s, o) = hs \o Digest[o]
  BY GossipForm
<1>3. <<NUL>> \in Strings
  BY CanonicalAssumption DEF Strings
<1>4. ht = hs /\ Digest[p] = Digest[o]
  <2> HIDE DEF ht, hs, dt, ds, id
  <2>1. ht \o Digest[p] = hs \o Digest[o] /\ Len(Digest[p]) = Len(Digest[o])
    BY <1>1, <1>2, FormAssumption
  <2>2. ht \in Strings /\ Digest[p] \in Strings
    BY <1>1
  <2>3. hs \in Strings /\ Digest[o] \in Strings
    BY <1>2
  <2> QED
    BY <2>1, <2>2, <2>3, SameTail, ZenonT(30)
<1>5. dt = ds
  <2>1. dt \o <<NUL>> = ds \o <<NUL>>
    BY <1>4
  <2> HIDE DEF dt, ds
  <2> QED
    BY <1>1, <1>2, <1>3, <2>1, ConcatSimplifications DEF Strings
<1>6. Decimal[t] = Decimal[s]
  <2> HIDE DEF id
  <2> QED
    BY <1>1, <1>2, <1>5, SplitAfter
<1> QED
  BY <1>4, <1>6, FormAssumption

\* Each gossip post is signed over its own form, and stays so.
LEMMA StepGossip == GossipSigned /\ [Next]_vars => GossipSigned'
<1> SUFFICES ASSUME GossipSigned, [Next]_vars PROVE GossipSigned'
  OBVIOUS
<1>1. ASSUME NEW p \in Payloads, PostGossip(p) PROVE GossipSigned'
  BY <1>1 DEF PostGossip, GossipSigned
<1>2. CASE UNCHANGED posted
  BY <1>2 DEF GossipSigned
<1> QED
  BY <1>1, <1>2 DEF Next, SignResults, AddLine, SendResults, Clock, vars, work

\* Whatever is posted and when, a gossip signature stands for one post.
THEOREM GossipBound == Spec => []GossipBinds
<1>1. Init => GossipSigned
  BY DEF Init, GossipSigned
<1>2. Typed /\ GossipSigned => GossipBinds
  <2> SUFFICES ASSUME Typed, GossipSigned, NEW f \in posted, NEW g \in posted,
                      f.signature = g.signature
               PROVE  f.ts = g.ts /\ f.payload = g.payload
    BY DEF GossipBinds
  <2>1. /\ f.ts \in Times /\ g.ts \in Times /\ f.payload \in Payloads /\ g.payload \in Payloads
    BY DEF Typed, TypeOK
  <2>2. GossipAuth(f.ts, f.payload) = GossipAuth(g.ts, g.payload)
    BY DEF GossipSigned
  <2> QED
    BY <2>1, <2>2, GossipSplit
<1> QED
  BY <1>1, <1>2, InitTypes, StepTypes, StepGossip, PTL DEF Spec

-----------------------------------------------------------------------------
(* Lines.                                                                  *)

\* Of no items there is no line, of one more there is its line at the end, and
\* of any there are bytes.
LEMMA LinesGrow ==
  ASSUME NEW v \in Seq(Shows), NEW s \in Shows
  PROVE  /\ Lines(<<>>) = <<>>
         /\ Lines(v) \in Strings /\ Lines(Append(v, s)) = Lines(v) \o Line(s)
<1> DEFINE w == Append(v, s)
           x == [i \in DOMAIN v |-> Line(v[i])]
           y == [i \in DOMAIN w |-> Line(w[i])]
<1>1. /\ Len(v) \in Nat /\ DOMAIN v = 1 .. Len(v) /\ \A i \in 1 .. Len(v) : v[i] \in Shows
      /\ w \in Seq(Shows) /\ DOMAIN w = 1 .. Len(v) + 1
      /\ w[Len(v) + 1] = s /\ \A i \in 1 .. Len(v) : w[i] = v[i]
  BY AppendProperties, LenProperties, ElementOfSeq
<1>2. \A t \in Shows : Line(t) \in Strings
  <2>1. <<>> \in Strings
    BY EmptySeq DEF Strings
  <2> QED
    BY <2>1, LineApart
<1>3. x \in Seq(Strings) /\ Len(x) = Len(v)
  BY <1>1, <1>2
<1>4. y = Append(x, Line(s))
  <2> DEFINE z == Append(x, Line(s))
  <2>1. /\ z \in Seq(Strings) /\ Len(z) = Len(v) + 1 /\ z[Len(v) + 1] = Line(s)
        /\ \A i \in 1 .. Len(v) : z[i] = x[i]
    <3> HIDE DEF x
    <3> QED
      BY <1>2, <1>3, AppendProperties
  <2>2. y \in Seq(Strings) /\ Len(y) = Len(v) + 1
    <3> HIDE DEF w
    <3>1. \A i \in 1 .. Len(v) + 1 : Line(w[i]) \in Strings
      BY <1>1, <1>2
    <3> QED
      BY <1>1, <3>1
  <2>3. \A i \in 1 .. Len(v) + 1 : y[i] = z[i]
    <3> HIDE DEF w, z
    <3> QED
      BY <1>1, <2>1
  <2> HIDE DEF y, z
  <2> QED
    BY <2>1, <2>2, <2>3, SeqEqual DEF z
<1>5. Lines(v) = FlattenSeq(x) /\ Lines(w) = FlattenSeq(y)
  BY DEF Lines
<1> HIDE DEF x, y
<1>6. FlattenSeq(<<>>) = <<>> /\ FlattenSeq(y) = FlattenSeq(x) \o Line(s) /\ FlattenSeq(x) \in Strings
  BY <1>2, <1>3, <1>4, FlattenAppend, FlattenType DEF Strings
<1>7. Lines(<<>>) = FlattenSeq(<<>>)
  <2>1. [i \in DOMAIN <<>> |-> Line(<<>>[i])] = <<>>
    OBVIOUS
  <2> QED
    BY <2>1 DEF Lines
<1> QED
  BY <1>5, <1>6, <1>7

\* A clean list is clean without its last member, whose line is clean.
LEMMA CleanParts ==
  ASSUME NEW v \in Seq(Shows), NEW s \in Shows, Clean(Append(v, s))
  PROVE  Clean(v) /\ CleanLine(s)
<1> DEFINE w == Append(v, s)
<1>1. /\ Len(v) \in Nat /\ DOMAIN v = 1 .. Len(v) /\ DOMAIN w = 1 .. Len(v) + 1
      /\ w[Len(v) + 1] = s /\ \A i \in 1 .. Len(v) : w[i] = v[i]
  BY AppendProperties, LenProperties
<1>2. Clean(w)
  OBVIOUS
<1> HIDE DEF w
<1>3. Clean(v)
  BY <1>1, <1>2 DEF Clean
<1>4. ~Has(s.u, NUL) /\ ~Has(s.u, LF) /\ ~Has(s.t, NUL) /\ ~Has(s.r, NUL)
  BY <1>1, <1>2 DEF Clean
<1>5. CleanLine(s)
  BY <1>4 DEF CleanLine, Free, Has
<1> QED
  BY <1>3, <1>5

\* The form of a whole list.
Whole(q, t, v) == Form(q, t, Lines(v))

\* A form ends in NUL when it has no lines, and in LF otherwise.
LEMMA WholeEnds ==
  ASSUME NEW q \in Queries, NEW t \in Times, NEW v \in Seq(Shows)
  PROVE  /\ Whole(q, t, v) \in Strings
         /\ v = <<>> => Whole(q, t, v) = Head2(q, t) /\ EndsIn(Whole(q, t, v), {NUL})
         /\ v # <<>> => EndsIn(Whole(q, t, v), {LF})
         /\ EndsIn(Whole(q, t, v), {NUL, LF})
         /\ \A s \in Shows : Whole(q, t, Append(v, s)) = Whole(q, t, v) \o Line(s)
<1>1. \A w \in Seq(Shows), s \in Shows :
        /\ Lines(<<>>) = <<>> /\ Lines(w) \in Strings
        /\ Whole(q, t, Append(w, s)) = Whole(q, t, w) \o Line(s)
        /\ EndsIn(Whole(q, t, Append(w, s)), {LF})
  <2> SUFFICES ASSUME NEW w \in Seq(Shows), NEW s \in Shows
               PROVE  /\ Lines(<<>>) = <<>> /\ Lines(w) \in Strings
                      /\ Whole(q, t, Append(w, s)) = Whole(q, t, w) \o Line(s)
                      /\ EndsIn(Whole(q, t, Append(w, s)), {LF})
    OBVIOUS
  <2>1. Lines(<<>>) = <<>> /\ Lines(w) \in Strings /\ Lines(Append(w, s)) = Lines(w) \o Line(s)
    BY LinesGrow
  <2>2. /\ Form(q, t, Lines(w) \o Line(s)) = Form(q, t, Lines(w)) \o Line(s)
        /\ EndsIn(Form(q, t, Lines(w) \o Line(s)), {LF})
    BY <2>1, FormGrows
  <2> QED
    BY <2>1, <2>2 DEF Whole
<1>2. \E s : s \in Shows
  <2>1. [u |-> <<>>, t |-> <<>>, r |-> <<>>] \in Shows
    BY DEF Shows
  <2> QED
    BY <2>1
<1>3. Whole(q, t, v) \in Strings
  BY <1>1, <1>2, FormParts DEF Whole
<1>4. v = <<>> => Whole(q, t, v) = Head2(q, t) /\ EndsIn(Whole(q, t, v), {NUL})
  <2>1. v = <<>> => Whole(q, t, v) = Form(q, t, <<>>)
    BY <1>1, <1>2 DEF Whole
  <2>2. Form(q, t, <<>>) = Head2(q, t) /\ EndsIn(Head2(q, t), {NUL})
    <3>1. <<>> \in Strings
      BY EmptySeq DEF Strings
    <3> QED
      BY <3>1, FormParts
  <2> QED
    BY <2>1, <2>2
<1>5. v # <<>> => EndsIn(Whole(q, t, v), {LF})
  <2> SUFFICES ASSUME v # <<>> PROVE EndsIn(Whole(q, t, v), {LF})
    OBVIOUS
  <2>1. PICK w \in Seq(Shows), s \in Shows : v = Append(w, s)
    BY LastApart
  <2> QED
    BY <1>1, <2>1
<1>6. EndsIn(Whole(q, t, v), {NUL, LF})
  BY <1>4, <1>5 DEF EndsIn
<1> QED
  BY <1>1, <1>3, <1>4, <1>5, <1>6

\* No form of another list, query and time is that of the list v.
OneForm(v) ==
  \A w \in Seq(Shows), q, p \in Queries, t, s \in Times :
    Clean(v) /\ Clean(w) /\ Whole(q, t, v) = Whole(p, s, w) => q = p /\ t = s /\ v = w

\* Lists of clean texts, of any length, with one form are one list, and were
\* asked for with one query at one time.  In a shortest list for which this were
\* not so, the last line could be taken off.
LEMMA FormsUnique == \A v \in Seq(Shows) : OneForm(v)
<1> DEFINE T == {n \in Nat : \E v \in Seq(Shows) : Len(v) = n /\ ~OneForm(v)}
<1>1. T = {} => \A v \in Seq(Shows) : OneForm(v)
  BY LenProperties
<1> SUFFICES ASSUME T # {} PROVE FALSE
  BY <1>1
<1>2. PICK n \in T : \A i \in T : n <= i
  BY Least
<1>3. PICK v \in Seq(Shows) : Len(v) = n /\ ~OneForm(v)
  BY <1>2
<1>4. \A x \in Seq(Shows) : Len(x) + 1 = Len(v) => OneForm(x)
  <2> SUFFICES ASSUME NEW x \in Seq(Shows), Len(x) + 1 = Len(v), ~OneForm(x) PROVE FALSE
    OBVIOUS
  <2>1. Len(x) \in Nat /\ Len(x) \in T
    BY LenProperties
  <2> HIDE DEF T
  <2>2. n <= Len(x)
    BY <1>2, <2>1
  <2> QED
    BY <1>3, <2>1, <2>2
<1> HIDE DEF T
<1>5. PICK w \in Seq(Shows), q \in Queries, p \in Queries, t \in Times, s \in Times :
        Clean(v) /\ Clean(w) /\ Whole(q, t, v) = Whole(p, s, w) /\ ~(q = p /\ t = s /\ v = w)
  BY <1>3 DEF OneForm
<1>6. NUL # LF /\ Whole(q, t, v) \in Strings /\ Whole(p, s, w) \in Strings
  BY CanonicalAssumption, WholeEnds
<1>7. CASE v = <<>>
  <2>1. w = <<>>
    BY <1>5, <1>6, <1>7, WholeEnds, OtherEnd
  <2>2. Head2(q, t) = Head2(p, s)
    <3>1. Whole(q, t, v) = Head2(q, t)
      BY <1>7, WholeEnds
    <3>2. Whole(p, s, w) = Head2(p, s)
      BY <2>1, WholeEnds
    <3> QED
      BY <1>5, <3>1, <3>2
  <2> QED
    BY <1>5, <1>7, <2>1, <2>2, HeadSplit
<1>8. CASE v # <<>>
  <2>1. w # <<>>
    BY <1>5, <1>6, <1>8, WholeEnds, OtherEnd
  <2>2. PICK x \in Seq(Shows), a \in Shows : v = Append(x, a) /\ Len(v) = Len(x) + 1
    BY <1>8, LastApart
  <2>3. PICK y \in Seq(Shows), b \in Shows : w = Append(y, b)
    BY <2>1, LastApart
  <2>4. Clean(x) /\ CleanLine(a) /\ Clean(y) /\ CleanLine(b)
    BY <1>5, <2>2, <2>3, CleanParts
  <2>5. Whole(q, t, x) \o Line(a) = Whole(p, s, y) \o Line(b)
    <3>1. Whole(q, t, v) = Whole(q, t, x) \o Line(a)
      BY <2>2, WholeEnds
    <3>2. Whole(p, s, w) = Whole(p, s, y) \o Line(b)
      BY <2>3, WholeEnds
    <3> QED
      BY <1>5, <3>1, <3>2
  <2>6. Whole(q, t, x) = Whole(p, s, y) /\ a = b
    <3>1. /\ Whole(q, t, x) \in Strings /\ EndsIn(Whole(q, t, x), {NUL, LF})
          /\ Whole(p, s, y) \in Strings /\ EndsIn(Whole(p, s, y), {NUL, LF})
      BY WholeEnds
    <3> QED
      BY <2>4, <2>5, <3>1, LineSplit
  <2>7. OneForm(x)
    BY <1>4, <2>2
  <2>8. q = p /\ t = s /\ x = y
    BY <2>4, <2>6, <2>7 DEF OneForm
  <2> QED
    BY <1>5, <2>2, <2>3, <2>6, <2>8
<1> QED
  BY <1>7, <1>8

-----------------------------------------------------------------------------
(* Signed results.                                                         *)

\* The lines of the response in work are those of its items up to `todo`.
Current ==
  job # Absent =>
    LET shows == Showing(job.results)
        done  == Len(shows) - Len(todo)
    IN  /\ Len(todo) <= Len(shows)
        /\ \A i \in 1 .. Len(todo) : Show(todo[i]) = shows[done + i]
        /\ body = Lines(SubSeq(shows, 1, done))

Signed == Typed /\ Current /\ Verifies

\* What a result shows is a list of three texts an item.
LEMMA ShowingType ==
  ASSUME NEW r \in Results
  PROVE  /\ Array(r) \in Seq(Items) /\ Showing(r) \in Seq(Shows)
         /\ Len(Showing(r)) = Len(Array(r)) /\ Len(Array(r)) \in Nat
         /\ \A i \in 1 .. Len(Array(r)) : Showing(r)[i] = Show(Array(r)[i])
<1>1. Array(r) \in Seq(Items)
  BY CanonicalAssumption, EmptySeq DEF Array
<1>2. Len(Array(r)) \in Nat /\ \A i \in 1 .. Len(Array(r)) : Show(Array(r)[i]) \in Shows
  BY <1>1, LenProperties, ElementOfSeq, ShowType
<1> QED
  BY <1>1, <1>2 DEF Showing

\* There is no response in work at first, and none is sent.
LEMMA InitSigned == Init => Signed
BY InitTypes DEF Init, Signed, Current, Verifies

\* Each step keeps the lines in step with the items: SignResults has none of
\* either, AddLine goes on by one in both, and SendResults sends a response whose
\* items all have their lines.
LEMMA StepSigned == Signed /\ [Next]_vars => Signed'
<1> SUFFICES ASSUME Signed, [Next]_vars PROVE Signed'
  OBVIOUS
<1> USE DEF Signed
<1>0. Typed' /\ (job # Absent => job \in Jobs)
  BY StepTypes DEF Typed, TypeOK, Jobs
<1>1. ASSUME NEW q \in Queries, NEW r \in Results, SignResults(q, r) PROVE Signed'
  <2> DEFINE shows == Showing(r)
  <2>1. /\ job' = [query |-> q, results |-> r, ts |-> now]
        /\ todo' = Array(r) /\ body' = <<>> /\ sent' = sent
    BY <1>1 DEF SignResults, Typed, Idle
  <2>2. /\ Len(shows) \in Nat /\ Len(todo') = Len(shows) /\ Len(shows) - Len(todo') = 0
        /\ \A i \in 1 .. Len(todo') : Show(todo'[i]) = shows[i]
    BY <2>1, ShowingType
  <2> HIDE DEF shows
  <2>3. body' = Lines(SubSeq(shows, 1, 0))
    <3>1. SubSeq(shows, 1, 0) = <<>>
      BY SubSeqEmpty
    <3>2. Lines(<<>>) = <<>>
      <4>1. <<>> \in Seq(Shows) /\ [u |-> <<>>, t |-> <<>>, r |-> <<>>] \in Shows
        BY EmptySeq DEF Shows
      <4> QED
        BY <4>1, LinesGrow
    <3> QED
      BY <2>1, <3>1, <3>2
  <2>4. Current'
    BY <2>1, <2>2, <2>3 DEF Current, shows
  <2> QED
    BY <1>0, <2>1, <2>4 DEF Verifies
<1>2. CASE AddLine
  <2> DEFINE shows == Showing(job.results)
             done  == Len(shows) - Len(todo)
             s     == Show(Head(todo))
  <2>1. job # Absent /\ todo # <<>> /\ todo \in Seq(Items) /\ job.results \in Results
    BY <1>0, <1>2 DEF AddLine, Typed, TypeOK, Idle, Jobs
  <2>2. job' = job /\ todo' = Tail(todo) /\ body' = body \o Line(s) /\ sent' = sent
    BY <1>2 DEF AddLine
  <2>3. /\ Len(todo) <= Len(shows) /\ body = Lines(SubSeq(shows, 1, done))
        /\ \A i \in 1 .. Len(todo) : Show(todo[i]) = shows[done + i]
    BY <2>1 DEF Current
  <2>4. shows \in Seq(Shows) /\ Len(shows) \in Nat
    BY <2>1, ShowingType
  <2>5. /\ Len(todo) \in Nat \ {0} /\ Head(todo) = todo[1] /\ Len(Tail(todo)) = Len(todo) - 1
        /\ \A i \in 1 .. Len(Tail(todo)) : Tail(todo)[i] = todo[i + 1]
    BY <2>1, EmptySeq, HeadTailProperties
  <2> HIDE DEF shows
  <2>6. done \in Nat /\ done < Len(shows) /\ Len(shows) - Len(todo') = done + 1 /\ s = shows[done + 1]
    BY <2>2, <2>3, <2>4, <2>5
  <2> HIDE DEF done, s
  <2>7. /\ SubSeq(shows, 1, done) \in Seq(Shows) /\ shows[done + 1] \in Shows
        /\ SubSeq(shows, 1, done + 1) = Append(SubSeq(shows, 1, done), shows[done + 1])
    BY <2>4, <2>6, PrefixGrows
  <2>8. body' = Lines(SubSeq(shows, 1, done + 1))
    BY <2>2, <2>3, <2>6, <2>7, LinesGrow
  <2>9. \A i \in 1 .. Len(todo') : Show(todo'[i]) = shows[(done + 1) + i]
    <3> SUFFICES ASSUME NEW i \in 1 .. Len(todo') PROVE Show(todo'[i]) = shows[(done + 1) + i]
      OBVIOUS
    <3>1. i \in 1 .. Len(Tail(todo)) /\ todo'[i] = Tail(todo)[i]
      BY <2>2
    <3>2. i + 1 \in 1 .. Len(todo) /\ done + (i + 1) = (done + 1) + i
      BY <2>5, <2>6, <3>1
    <3>3. todo'[i] = todo[i + 1]
      BY <2>5, <3>1
    <3> QED
      BY <2>3, <3>2, <3>3
  <2>10. Len(todo') <= Len(shows)
    BY <2>2, <2>3, <2>4, <2>5
  <2>11. Current'
    BY <2>2, <2>6, <2>8, <2>9, <2>10 DEF Current, shows
  <2> QED
    BY <1>0, <2>2, <2>11 DEF Verifies
<1>3. CASE SendResults
  <2> DEFINE shows == Showing(job.results)
             f == [query |-> job.query, results |-> job.results, ts |-> job.ts,
                   signature |-> Form(job.query, job.ts, body)]
  <2>1. /\ job # Absent /\ todo = <<>> /\ job' = Absent /\ sent' = sent \cup {f}
    BY <1>3 DEF SendResults
  <2>2. shows \in Seq(Shows) /\ Len(shows) \in Nat
    BY <1>0, <2>1, ShowingType DEF Jobs
  <2>3. body = Lines(SubSeq(shows, 1, Len(shows) - Len(todo)))
    BY <2>1 DEF Current
  <2>4. body = Lines(shows)
    <3> HIDE DEF shows
    <3>1. Len(todo) = 0
      BY <2>1, EmptySeq
    <3>2. Len(shows) - Len(todo) = Len(shows)
      BY <2>2, <3>1
    <3> QED
      BY <2>2, <2>3, <3>2, SubSeqFull
  <2>5. f.signature = Form(f.query, f.ts, Lines(Showing(f.results)))
    BY <2>4
  <2> HIDE DEF f
  <2>6. Verifies'
    BY <2>1, <2>5 DEF Verifies
  <2> QED
    BY <1>0, <2>1, <2>6 DEF Current
<1>4. ASSUME NEW p \in Payloads, PostGossip(p) PROVE Signed'
  BY <1>0, <1>4 DEF PostGossip, work, Current, Verifies
<1>5. CASE Clock
  BY <1>0, <1>5 DEF Clock, work, Current, Verifies
<1>6. CASE UNCHANGED vars
  BY <1>0, <1>6 DEF vars, work, Current, Verifies
<1> QED
  BY <1>1, <1>2, <1>3, <1>4, <1>5, <1>6 DEF Next

\* What goes out verifies: from the query, and from the time and the results as
\* they are sent, the form can be computed that was signed, line by line, from a
\* list of any length.
THEOREM SentVerifies == Spec => []Verifies
<1>1. Signed => Verifies
  BY DEF Signed
<1> QED
  BY <1>1, InitSigned, StepSigned, PTL DEF Spec

\* No two clean results that an agent ever sends share a signature, be they of
\* any length, of any texts and signed at any times.
THEOREM SignatureBinds == Spec => []Binds
<1>1. Signed => Binds
  <2> SUFFICES ASSUME Signed, NEW f \in sent, NEW g \in sent, f.signature = g.signature,
                      Clean(Showing(f.results)), Clean(Showing(g.results))
               PROVE  f.query = g.query /\ f.ts = g.ts /\ Showing(f.results) = Showing(g.results)
    BY DEF Binds
  <2>1. /\ f.query \in Queries /\ g.query \in Queries /\ f.ts \in Times /\ g.ts \in Times
        /\ f.results \in Results /\ g.results \in Results
    BY DEF Signed, Typed, TypeOK
  <2>2. Whole(f.query, f.ts, Showing(f.results)) = Whole(g.query, g.ts, Showing(g.results))
    BY DEF Signed, Verifies, Whole
  <2>3. Showing(f.results) \in Seq(Shows) /\ Showing(g.results) \in Seq(Shows)
    BY <2>1, ShowingType
  <2> QED
    BY <2>1, <2>2, <2>3, FormsUnique DEF OneForm
<1> QED
  BY <1>1, InitSigned, StepSigned, PTL DEF Spec

-----------------------------------------------------------------------------
(* The decoder of html.rs.                                                 *)

\* The texts of the decoder.
T == Seq(Tokens)

-----------------------------------------------------------------------------
(* Texts put together and taken apart.                                     *)

\* What stands where in two texts put together.
LEMMA Together ==
  ASSUME NEW p \in T, NEW u \in T
  PROVE  /\ p \o u \in T /\ Len(p \o u) = Len(p) + Len(u)
         /\ Len(p) \in Nat /\ Len(u) \in Nat
         /\ \A i \in 1 .. Len(p) : (p \o u)[i] = p[i]
         /\ \A i \in 1 .. Len(u) : (p \o u)[Len(p) + i] = u[i]
<1>1. Len(p) \in Nat /\ Len(u) \in Nat
  BY LenProperties DEF T
<1>2. /\ p \o u \in T /\ Len(p \o u) = Len(p) + Len(u)
      /\ \A i \in 1 .. Len(p) + Len(u) : (p \o u)[i] = IF i <= Len(p) THEN p[i] ELSE u[i - Len(p)]
  BY ConcatProperties DEF T
<1> DEFINE c == p \o u
<1> HIDE DEF c
<1>3. \A i \in 1 .. Len(u) : c[Len(p) + i] = u[i]
  <2> SUFFICES ASSUME NEW i \in 1 .. Len(u) PROVE c[Len(p) + i] = u[i]
    OBVIOUS
  <2>1. Len(p) + i \in 1 .. Len(p) + Len(u) /\ ~(Len(p) + i <= Len(p)) /\ (Len(p) + i) - Len(p) = i
    BY <1>1
  <2> QED
    BY <1>2, <2>1 DEF c
<1>4. \A i \in 1 .. Len(p) : c[i] = p[i]
  BY <1>1, <1>2 DEF c
<1> QED
  BY <1>1, <1>2, <1>3, <1>4 DEF c

\* It does not matter in which order they are put together.
LEMMA Grouped ==
  ASSUME NEW a \in T, NEW b \in T, NEW c \in T
  PROVE  a \o (b \o c) = (a \o b) \o c
BY ConcatAssociative DEF T

\* The first tokens of s are those of w.
Begins(s, w) == Len(w) <= Len(s) /\ \A j \in 1 .. Len(w) : s[j] = w[j]

\* A text begins with another when it is that and something more.
LEMMA BeginsApart ==
  ASSUME NEW s \in T, NEW w \in T
  PROVE  Begins(s, w) <=> \E u \in T : s = w \o u
<1>1. Len(s) \in Nat /\ Len(w) \in Nat
  BY LenProperties DEF T
<1>2. ASSUME NEW u \in T, s = w \o u PROVE Begins(s, w)
  BY <1>2, Together DEF Begins
<1>3. ASSUME Begins(s, w) PROVE \E u \in T : s = w \o u
  <2> DEFINE n == Len(s) - Len(w)
             u == [i \in 1 .. n |-> s[Len(w) + i]]
  <2>1. n \in Nat /\ Len(s) = Len(w) + n
    BY <1>1, <1>3 DEF Begins
  <2> HIDE DEF n
  <2>2. \A i \in 1 .. n : s[Len(w) + i] \in Tokens
    <3> SUFFICES ASSUME NEW i \in 1 .. n PROVE s[Len(w) + i] \in Tokens
      OBVIOUS
    <3>1. Len(w) + i \in 1 .. Len(s)
      BY <1>1, <2>1
    <3> QED
      BY <3>1, ElementOfSeq DEF T
  <2>3. u \in T /\ Len(u) = n /\ \A i \in 1 .. n : u[i] = s[Len(w) + i]
    BY <2>1, <2>2 DEF T
  <2> HIDE DEF u
  <2>4. /\ w \o u \in T /\ Len(w \o u) = Len(s)
        /\ \A i \in 1 .. Len(w) : (w \o u)[i] = w[i]
        /\ \A i \in 1 .. n : (w \o u)[Len(w) + i] = u[i]
    BY <2>1, <2>3, Together
  <2> DEFINE c == w \o u
  <2> HIDE DEF c
  <2>5. \A i \in 1 .. Len(s) : s[i] = c[i]
    <3> SUFFICES ASSUME NEW i \in 1 .. Len(s) PROVE s[i] = c[i]
      OBVIOUS
    <3>1. CASE i <= Len(w)
      BY <1>1, <1>3, <2>4, <3>1 DEF Begins, c
    <3>2. CASE ~(i <= Len(w))
      <4>1. i - Len(w) \in 1 .. n /\ Len(w) + (i - Len(w)) = i
        BY <1>1, <2>1, <3>2
      <4>2. c[i] = u[i - Len(w)] /\ u[i - Len(w)] = s[i]
        BY <2>3, <2>4, <4>1 DEF c
      <4> QED
        BY <4>2
    <3> QED
      BY <3>1, <3>2
  <2>6. s = c
    BY <2>4, <2>5, SeqEqual DEF T, c
  <2> QED
    BY <2>3, <2>6 DEF c
<1> QED
  BY <1>2, <1>3

\* An entity stands in a text where the rest of the text begins with it.
LEMMA AtBegins ==
  ASSUME NEW p \in T, NEW u \in T, NEW e \in T, e # <<>>
  PROVE  At(p \o u, Len(p) + 1, e) <=> Begins(u, e)
<1> DEFINE s == p \o u
           i == Len(p) + 1
           n == i + Len(e) - 1
<1>1. /\ s \in T /\ Len(s) = Len(p) + Len(u) /\ Len(p) \in Nat /\ Len(u) \in Nat
      /\ \A j \in 1 .. Len(u) : s[Len(p) + j] = u[j]
  BY Together
<1>2. Len(e) \in Nat \ {0}
  BY EmptySeq, LenProperties DEF T
<1>3. i \in Int /\ n \in Int /\ n = Len(p) + Len(e) /\ i <= n + 1 /\ n - i + 1 = Len(e)
  BY <1>1, <1>2
<1>4. n <= Len(s) <=> Len(e) <= Len(u)
  BY <1>1, <1>2, <1>3
<1> HIDE DEF s
<1>5. ASSUME Len(e) <= Len(u)
      PROVE  SubSeq(s, i, n) = e <=> \A j \in 1 .. Len(e) : u[j] = e[j]
  <2>1. \A k \in i .. n : k \in 1 .. Len(s) /\ s[k] \in Tokens
    <3> SUFFICES ASSUME NEW k \in i .. n PROVE k \in 1 .. Len(s) /\ s[k] \in Tokens
      OBVIOUS
    <3>1. k \in 1 .. Len(s)
      BY <1>1, <1>2, <1>3, <1>4, <1>5
    <3> QED
      BY <1>1, <3>1, ElementOfSeq DEF T
  <2>2. /\ SubSeq(s, i, n) \in Seq(Tokens) /\ Len(SubSeq(s, i, n)) = Len(e)
        /\ \A j \in 1 .. Len(e) : SubSeq(s, i, n)[j] = s[i + j - 1]
    <3> HIDE DEF i, n
    <3>1. /\ SubSeq(s, i, n) \in Seq(Tokens)
          /\ Len(SubSeq(s, i, n)) = IF i <= n THEN n - i + 1 ELSE 0
          /\ \A j \in 1 .. n - i + 1 : SubSeq(s, i, n)[j] = s[i + j - 1]
      BY <1>3, <2>1, SubSeqProperties
    <3>2. i <= n
      BY <1>2, <1>3
    <3> QED
      BY <1>3, <3>1, <3>2
  <2>3. \A j \in 1 .. Len(e) : s[i + j - 1] = u[j]
    <3> SUFFICES ASSUME NEW j \in 1 .. Len(e) PROVE s[i + j - 1] = u[j]
      OBVIOUS
    <3>1. j \in 1 .. Len(u) /\ i + j - 1 = Len(p) + j
      BY <1>1, <1>2, <1>5
    <3> QED
      BY <1>1, <3>1
  <2> DEFINE c == SubSeq(s, i, n)
  <2> HIDE DEF c, i, n
  <2>4. c = e <=> \A j \in 1 .. Len(e) : c[j] = e[j]
    BY <2>2, SeqEqual DEF T, c
  <2> QED
    BY <2>2, <2>3, <2>4 DEF c
<1> QED
  BY <1>3, <1>4, <1>5 DEF At, Begins, s

-----------------------------------------------------------------------------
(* ReplaceEach.                                                            *)

\* The match that is replaced at a place, and f at that place if it is what the
\* recursion of ReplaceEach computes.
The(found, i) == CHOOSE m \in found[i] : TRUE

Turn(f, s, found, i) ==
  IF i > Len(s) THEN <<>>
  ELSE IF found[i] = {} THEN <<s[i]>> \o f[i + 1]
  ELSE The(found, i).by \o f[i + The(found, i).len]

Computes(f, s, found, lo) == f = [i \in lo .. Len(s) + 1 |-> Turn(f, s, found, i)]

\* Matches are of texts that are not empty, within the text.
Fits(found, s) ==
  \A i \in 1 .. Len(s) : \A m \in found[i] :
    m.len \in Nat \ {0} /\ i + m.len <= Len(s) + 1 /\ m.by \in T

\* From any place the rest of the text can be computed, and is a text.
LEMMA Computable ==
  ASSUME NEW s \in T, NEW found, Fits(found, s), NEW lo \in 1 .. Len(s) + 1
  PROVE  \E f : Computes(f, s, found, lo) /\ \A i \in lo .. Len(s) + 1 : f[i] \in T
<1> DEFINE n == Len(s) + 1
           Good(k) == \E f : Computes(f, s, found, k) /\ \A i \in k .. n : f[i] \in T
           Bad == {k \in Nat : k < n /\ ~Good(n - k)}
<1>1. n \in Nat \ {0} /\ Len(s) \in Nat /\ n > Len(s) /\ \A i \in 1 .. Len(s) : s[i] \in Tokens
  BY LenProperties, ElementOfSeq DEF T
<1>2. Good(n)
  <2> DEFINE f == [i \in n .. n |-> <<>>]
  <2>1. \A i \in n .. n : Turn(f, s, found, i) = <<>>
    BY <1>1 DEF Turn
  <2>2. f = [i \in n .. n |-> Turn(f, s, found, i)]
    BY <2>1
  <2>3. \A i \in n .. n : f[i] \in T
    BY EmptySeq DEF T
  <2> HIDE DEF f
  <2> QED
    BY <2>2, <2>3 DEF Computes
<1> HIDE DEF Good
<1>3. Bad = {}
  <2> SUFFICES ASSUME Bad # {} PROVE FALSE
    OBVIOUS
  <2>1. PICK b \in Bad : \A k \in Bad : b <= k
    <3>1. Bad \in SUBSET Nat
      OBVIOUS
    <3> HIDE DEF Bad
    <3> QED
      BY <3>1, Least
  <2> DEFINE k == n - b
  <2>2. b \in Nat /\ b < n /\ ~Good(k) /\ b # 0
    BY <1>1, <1>2
  <2>3. k \in 1 .. Len(s) /\ k + 1 \in 1 .. n /\ n - (b - 1) = k + 1
    BY <1>1, <2>2
  <2>4. Good(k + 1)
    <3>1. b - 1 \in Nat /\ b - 1 < n /\ ~(b <= b - 1)
      BY <1>1, <2>2
    <3>2. b - 1 \notin Bad
      BY <2>1, <3>1
    <3> QED
      BY <2>3, <3>1, <3>2
  <2> HIDE DEF Bad, k
  <2>5. PICK g : Computes(g, s, found, k + 1) /\ \A i \in k + 1 .. n : g[i] \in T
    BY <2>4 DEF Good
  <2> DEFINE f == [i \in k .. n |-> IF i = k THEN Turn(g, s, found, k) ELSE g[i]]
  <2>6. \A i \in k + 1 .. n : g[i] = Turn(g, s, found, i) /\ i \in k .. n /\ i # k
    BY <1>1, <2>3, <2>5, SMTT(30) DEF Computes
  <2>7. \A i \in k + 1 .. n : f[i] = g[i]
    BY <2>6
  <2>8. f[k] = Turn(g, s, found, k)
    BY <1>1, <2>3
  <2>9. DOMAIN f = k .. n
    OBVIOUS
  <2> HIDE DEF f
  <2>10. \A i \in k .. n : Turn(f, s, found, i) = Turn(g, s, found, i)
    <3> SUFFICES ASSUME NEW i \in k .. n PROVE Turn(f, s, found, i) = Turn(g, s, found, i)
      OBVIOUS
    <3>1. CASE i > Len(s)
      BY <3>1 DEF Turn
    <3>2. CASE ~(i > Len(s))
      <4>1. i \in 1 .. Len(s) /\ i + 1 \in k + 1 .. n
        BY <1>1, <2>3, <3>2
      <4>2. CASE found[i] = {}
        BY <2>7, <3>2, <4>1, <4>2 DEF Turn
      <4>3. CASE found[i] # {}
        <5>1. The(found, i) \in found[i]
          BY <4>3 DEF The
        <5>2. The(found, i).len \in Nat \ {0} /\ i + The(found, i).len <= n
          BY <4>1, <5>1 DEF Fits
        <5>3. i + The(found, i).len \in k + 1 .. n
          BY <1>1, <2>3, <4>1, <5>2
        <5> QED
          BY <2>7, <3>2, <4>3, <5>3 DEF Turn
      <4> QED
        BY <4>2, <4>3
    <3> QED
      BY <3>1, <3>2
  <2>11. \A i \in k .. n : f[i] = Turn(f, s, found, i)
    <3> SUFFICES ASSUME NEW i \in k .. n PROVE f[i] = Turn(g, s, found, i)
      BY <2>10
    <3>1. i = k \/ i \in k + 1 .. n
      BY <1>1, <2>3
    <3> QED
      BY <2>6, <2>7, <2>8, <3>1
  <2>12. Computes(f, s, found, k)
    <3>1. f = [i \in k .. n |-> f[i]]
      BY <2>9, <2>8 DEF f
    <3> QED
      BY <2>11, <3>1 DEF Computes
  <2>13. Turn(g, s, found, k) \in T
    <3>1. k + 1 \in k + 1 .. n /\ ~(k > Len(s))
      BY <1>1, <2>3
    <3>2. CASE found[k] = {}
      <4>1. <<s[k]>> \in T /\ g[k + 1] \in T
        BY <1>1, <2>3, <2>5, <3>1 DEF T
      <4>2. <<s[k]>> \o g[k + 1] \in T
        BY <4>1, Together
      <4> QED
        BY <3>1, <3>2, <4>2 DEF Turn
    <3>3. CASE found[k] # {}
      <4>1. The(found, k) \in found[k]
        BY <3>3 DEF The
      <4>2. /\ The(found, k).len \in Nat \ {0} /\ k + The(found, k).len <= n
            /\ The(found, k).by \in T
        BY <2>3, <4>1 DEF Fits
      <4>3. k + The(found, k).len \in k + 1 .. n
        BY <1>1, <2>3, <4>2
      <4>4. The(found, k).by \o g[k + The(found, k).len] \in T
        BY <2>5, <4>2, <4>3, Together
      <4> QED
        BY <3>1, <3>3, <4>4 DEF Turn
    <3> QED
      BY <3>2, <3>3
  <2>14. \A i \in k .. n : f[i] \in T
    <3> SUFFICES ASSUME NEW i \in k .. n PROVE f[i] \in T
      OBVIOUS
    <3>1. i = k \/ i \in k + 1 .. n
      BY <1>1, <2>3
    <3> QED
      BY <2>5, <2>7, <2>8, <2>13, <3>1
  <2>15. Good(k)
    BY <2>12, <2>14 DEF Good
  <2> QED
    BY <2>2, <2>15 DEF k
<1>4. n - lo \in Nat /\ n - lo < n /\ n - (n - lo) = lo
  BY <1>1
<1>5. Good(lo)
  BY <1>3, <1>4
<1> QED
  BY <1>5 DEF Good

\* The rest of s from k + 1 on is t, and in it is found what is found in t.
IsRest(s, a, k, t, b) ==
  /\ Len(s) = k + Len(t)
  /\ \A i \in 1 .. Len(t) : s[k + i] = t[i] /\ a[k + i] = b[i]

\* It depends on the rest of the text alone, and on what is found there.
LEMMA RestAlone ==
  ASSUME NEW s \in T, NEW t \in T, NEW k \in Nat, NEW a, NEW b, IsRest(s, a, k, t, b), Fits(b, t),
         NEW f, Computes(f, s, a, 1), NEW g, Computes(g, t, b, 1), NEW j \in 1 .. Len(t) + 1
  PROVE  f[k + j] = g[j]
<1> DEFINE n == Len(t) + 1
           Bad == {x \in Nat : x < n /\ f[k + (n - x)] # g[n - x]}
<1>0. /\ Len(t) \in Nat /\ n \in Nat \ {0} /\ Len(s) = k + Len(t)
      /\ \A i \in 1 .. Len(t) : s[k + i] = t[i] /\ a[k + i] = b[i]
  BY LenProperties DEF T, IsRest
<1>1. Bad = {}
  <2> SUFFICES ASSUME Bad # {} PROVE FALSE
    OBVIOUS
  <2>1. PICK x \in Bad : \A y \in Bad : x <= y
    <3>1. Bad \in SUBSET Nat
      OBVIOUS
    <3> HIDE DEF Bad
    <3> QED
      BY <3>1, Least
  <2> DEFINE i == n - x
  <2>2. x \in Nat /\ x < n /\ f[k + i] # g[i]
    OBVIOUS
  <2>3. i \in 1 .. n /\ k + i \in 1 .. Len(s) + 1
    BY <1>0, <2>2
  <2>4. \A m \in i + 1 .. n : f[k + m] = g[m]
    <3> SUFFICES ASSUME NEW m \in i + 1 .. n PROVE f[k + m] = g[m]
      OBVIOUS
    <3>0. n \in Nat \ {0} /\ x \in Nat /\ x < n /\ m \in (n - x) + 1 .. n
      BY <1>0, <2>2
    <3> HIDE DEF n, Bad
    <3>1. n - m \in Nat /\ n - m < n /\ ~(x <= n - m) /\ n - (n - m) = m
      BY <3>0
    <3> USE DEF Bad
    <3>2. n - m \notin Bad
      BY <2>1, <3>1
    <3> QED
      BY <3>1, <3>2
  <2> HIDE DEF Bad, i
  <2>5. f[k + i] = Turn(f, s, a, k + i) /\ g[i] = Turn(g, t, b, i)
    BY <2>3 DEF Computes
  <2>6. k + i > Len(s) <=> i > Len(t)
    BY <1>0, <2>3
  <2>7. CASE i > Len(t)
    BY <2>2, <2>5, <2>6, <2>7 DEF Turn, i
  <2>8. CASE ~(i > Len(t))
    <3>1. i \in 1 .. Len(t) /\ i + 1 \in i + 1 .. n /\ (k + i) + 1 = k + (i + 1)
      BY <1>0, <2>3, <2>8
    <3>2. s[k + i] = t[i] /\ a[k + i] = b[i] /\ f[(k + i) + 1] = g[i + 1]
      BY <1>0, <2>4, <3>1
    <3>3. CASE b[i] = {}
      BY <2>2, <2>5, <2>6, <2>8, <3>2, <3>3 DEF Turn, i
    <3>4. CASE b[i] # {}
      <4>1. The(b, i) \in b[i] /\ The(a, k + i) = The(b, i)
        BY <3>2, <3>4 DEF The
      <4> DEFINE l == The(b, i).len
      <4>2. l \in Nat \ {0} /\ i + l <= n
        BY <3>1, <4>1 DEF Fits
      <4>3. i + l \in i + 1 .. n /\ (k + i) + l = k + (i + l)
        BY <1>0, <3>1, <4>2
      <4>4. f[(k + i) + l] = g[i + l]
        BY <2>4, <4>3
      <4> QED
        BY <2>2, <2>5, <2>6, <2>8, <3>2, <3>4, <4>1, <4>4 DEF Turn, i
    <3> QED
      BY <3>3, <3>4
  <2> QED
    BY <2>7, <2>8
<1>2. n - j \in Nat /\ n - j < n /\ n - (n - j) = j
  BY <1>0
<1> QED
  BY <1>1, <1>2

\* What ReplaceEach takes is such a function.
LEMMA ReplaceComputes ==
  ASSUME NEW s \in T, NEW found, Fits(found, s)
  PROVE  \E f : /\ Computes(f, s, found, 1) /\ ReplaceEach(s, found) = f[1]
                /\ \A i \in 1 .. Len(s) + 1 : f[i] \in T
<1> DEFINE f == CHOOSE f : f = [i \in 1 .. Len(s) + 1 |->
                  IF i > Len(s) THEN <<>>
                  ELSE IF found[i] = {} THEN <<s[i]>> \o f[i + 1]
                  ELSE LET m == CHOOSE m \in found[i] : TRUE IN m.by \o f[i + m.len]]
<1>0. Len(s) \in Nat
  BY LenProperties DEF T
<1>1. PICK g : Computes(g, s, found, 1) /\ \A i \in 1 .. Len(s) + 1 : g[i] \in T
  <2>1. 1 \in 1 .. Len(s) + 1
    BY <1>0
  <2> QED
    BY <2>1, Computable
<1>2. Computes(f, s, found, 1)
  BY <1>1 DEF Computes, Turn, The
<1>3. ReplaceEach(s, found) = f[1]
  BY DEF ReplaceEach
<1> HIDE DEF f
<1>4. \A i \in 1 .. Len(s) + 1 : f[i] \in T
  <2> SUFFICES ASSUME NEW i \in 1 .. Len(s) + 1 PROVE f[i] \in T
    OBVIOUS
  <2>0. PICK k \in Nat : k = 0
    OBVIOUS
  <2>1. /\ Len(s) = k + Len(s) /\ k + i = i
        /\ \A j \in 1 .. Len(s) : s[k + j] = s[j] /\ found[k + j] = found[j]
    BY <1>0, <2>0
  <2>2. f[k + i] = g[i]
    <3>1. IsRest(s, found, k, s, found)
      BY <2>1 DEF IsRest
    <3> QED
      BY <1>1, <1>2, <3>1, RestAlone
  <2> QED
    BY <1>1, <2>1, <2>2
<1> QED
  BY <1>2, <1>3, <1>4

-----------------------------------------------------------------------------
(* Sets of rules: what is replaced by what.                                *)

\* A rule is what stands behind the `&` of an entity, up to its `;`, and what the
\* entity is replaced by.
Rule(rest, by) == [rest |-> rest, by |-> by]
Entity(r) == <<"&">> \o r.rest

Inside == Numbers \cup Names \cup {"#", "x", "X"}

Rules == [rest : T, by : T]

\* An entity ends with the first `;` behind its `&`, and no two rules are for one.
Proper(R) ==
  /\ R \subseteq Rules
  /\ \A r \in R : \E w \in Seq(Inside) : r.rest = Append(w, Semicolon)
  /\ \A r, q \in R : r.rest = q.rest => r = q

FoundBy(R, s) ==
  [i \in DOMAIN s |-> {Match(Entity(r), r.by) : r \in {r \in R : At(s, i, Entity(r))}}]

Replace(R, s) == ReplaceEach(s, FoundBy(R, s))

\* An ampersand and a semicolon stand inside no entity.
LEMMA Apart == Semicolon \notin Inside /\ "&" \notin Inside /\ Semicolon # "&"
<1>1. Semicolon \notin {"#", "x", "X", "&"}
  BY Zenon DEF Semicolon
<1>2. Semicolon \notin Names
  <2>1. Names \subseteq {"nbsp", "amp", "lt", "gt", "quot", "apos", "eacute", "egrave", "agrave",
                         "ccedil", "ocirc", "ecirc", "icirc", "ugrave", "aacute"}
    BY DEF Names, Table
  <2> QED
    BY <2>1, Zenon DEF Semicolon
<1>3. "&" \notin Names
  BY DEF Names, Table
<1> QED
  BY <1>1, <1>2, <1>3, EntityAssumption DEF Inside

\* The tokens of an entity.
LEMMA EntityTokens ==
  ASSUME NEW R, Proper(R), NEW r \in R
  PROVE  /\ r \in Rules /\ r.rest \in T /\ r.by \in T /\ Entity(r) \in T
         /\ Len(r.rest) \in Nat \ {0} /\ Len(Entity(r)) = Len(r.rest) + 1
         /\ Entity(r)[1] = "&" /\ \A j \in 1 .. Len(r.rest) : Entity(r)[j + 1] = r.rest[j]
         /\ \A j \in 1 .. Len(r.rest) : r.rest[j] \in Inside \cup {Semicolon}
         /\ \A j \in 1 .. Len(r.rest) : r.rest[j] = Semicolon <=> j = Len(r.rest)
         /\ Entity(r) # <<>>
<1>1. r \in Rules /\ r.rest \in T /\ r.by \in T
  BY DEF Proper, Rules
<1>2. <<"&">> \in T /\ Len(<<"&">>) = 1 /\ <<"&">>[1] = "&"
  BY EntityAssumption DEF T
<1>3. PICK w \in Seq(Inside) : r.rest = Append(w, Semicolon)
  BY DEF Proper
<1>4. Semicolon \notin Inside
  BY Apart
<1>5. /\ Len(r.rest) = Len(w) + 1 /\ Len(w) \in Nat /\ r.rest[Len(w) + 1] = Semicolon
      /\ \A j \in 1 .. Len(w) : r.rest[j] = w[j] /\ w[j] \in Inside
  BY <1>3, AppendProperties, LenProperties, ElementOfSeq
<1>6. /\ Entity(r) \in T /\ Len(Entity(r)) = 1 + Len(r.rest) /\ Entity(r)[1] = "&"
      /\ \A j \in 1 .. Len(r.rest) : Entity(r)[1 + j] = r.rest[j]
  <2> DEFINE a == <<"&">>
             u == r.rest
  <2>1. a \in T /\ u \in T /\ Len(a) = 1 /\ a[1] = "&"
    BY <1>1, <1>2
  <2> HIDE DEF a, u
  <2>2. /\ a \o u \in T /\ Len(a \o u) = 1 + Len(u) /\ (a \o u)[1] = a[1]
        /\ \A j \in 1 .. Len(u) : (a \o u)[1 + j] = u[j]
    <3>1. /\ a \o u \in T /\ Len(a \o u) = Len(a) + Len(u)
          /\ \A j \in 1 .. Len(a) : (a \o u)[j] = a[j]
          /\ \A j \in 1 .. Len(u) : (a \o u)[Len(a) + j] = u[j]
      BY <2>1, Together
    <3> QED
      BY <2>1, <3>1
  <2> QED
    BY <2>1, <2>2 DEF Entity, a, u
<1>7. /\ \A j \in 1 .. Len(r.rest) : r.rest[j] \in Inside \cup {Semicolon}
      /\ \A j \in 1 .. Len(r.rest) : r.rest[j] = Semicolon <=> j = Len(r.rest)
  <2> SUFFICES ASSUME NEW j \in 1 .. Len(r.rest)
               PROVE  r.rest[j] \in Inside \cup {Semicolon} /\ (r.rest[j] = Semicolon <=> j = Len(r.rest))
    OBVIOUS
  <2>1. j \in 1 .. Len(w) \/ j = Len(w) + 1
    BY <1>5
  <2>2. CASE j \in 1 .. Len(w)
    <3>1. r.rest[j] \in Inside /\ j # Len(r.rest)
      BY <1>5, <2>2
    <3> QED
      BY <1>4, <3>1
  <2>3. CASE j = Len(w) + 1
    BY <1>5, <2>3
  <2> QED
    BY <2>1, <2>2, <2>3
<1>8. Entity(r) # <<>>
  BY <1>5, <1>6, EmptySeq
<1>9. \A j \in 1 .. Len(r.rest) : j + 1 = 1 + j
  BY <1>5
<1> QED
  BY <1>1, <1>5, <1>6, <1>7, <1>8, <1>9

\* A text begins with the entity of one rule at most.
LEMMA OneRule ==
  ASSUME NEW R, Proper(R), NEW r \in R, NEW q \in R, NEW s \in T,
         Begins(s, Entity(r)), Begins(s, Entity(q))
  PROVE  r = q
<1>1. ASSUME NEW x \in R, NEW y \in R, Begins(s, Entity(x)), Begins(s, Entity(y))
      PROVE  ~(Len(x.rest) < Len(y.rest))
  <2> SUFFICES ASSUME Len(x.rest) < Len(y.rest) PROVE FALSE
    OBVIOUS
  <2> DEFINE j == Len(x.rest)
  <2>1. /\ j \in Nat \ {0} /\ Len(Entity(x)) = j + 1 /\ Entity(x)[j + 1] = x.rest[j]
        /\ x.rest[j] = Semicolon
    <3>1. Len(x.rest) \in Nat \ {0} /\ Len(Entity(x)) = Len(x.rest) + 1
      BY EntityTokens
    <3>2. Len(x.rest) \in 1 .. Len(x.rest)
      BY <3>1
    <3>3. \A m \in 1 .. Len(x.rest) : Entity(x)[m + 1] = x.rest[m]
      BY EntityTokens
    <3>4. \A m \in 1 .. Len(x.rest) : x.rest[m] = Semicolon <=> m = Len(x.rest)
      BY EntityTokens
    <3> QED
      BY <3>1, <3>2, <3>3, <3>4
  <2>2. Len(y.rest) \in Nat /\ j \in 1 .. Len(y.rest) /\ Len(Entity(y)) = Len(y.rest) + 1
    BY <2>1, EntityTokens
  <2>3. Entity(y)[j + 1] = y.rest[j] /\ y.rest[j] # Semicolon
    <3>1. j # Len(y.rest)
      BY <2>1, <2>2
    <3> HIDE DEF j
    <3> QED
      BY <2>2, <3>1, EntityTokens
  <2> HIDE DEF j
  <2>4. j + 1 \in 1 .. Len(Entity(x)) /\ j + 1 \in 1 .. Len(Entity(y))
    BY <2>1, <2>2
  <2>5. s[j + 1] = Entity(x)[j + 1] /\ s[j + 1] = Entity(y)[j + 1]
    BY <1>1, <2>4 DEF Begins
  <2> QED
    BY <2>1, <2>3, <2>5
<1>2. /\ r.rest \in T /\ q.rest \in T /\ Len(r.rest) \in Nat /\ Len(q.rest) \in Nat
  BY EntityTokens
<1>3. Len(r.rest) = Len(q.rest)
  BY <1>1, <1>2
<1>4. \A j \in 1 .. Len(r.rest) : r.rest[j] = q.rest[j]
  <2> SUFFICES ASSUME NEW j \in 1 .. Len(r.rest) PROVE r.rest[j] = q.rest[j]
    OBVIOUS
  <2>1. /\ Entity(r)[j + 1] = r.rest[j] /\ j + 1 \in 1 .. Len(Entity(r))
    BY <1>2, EntityTokens
  <2>2. /\ Entity(q)[j + 1] = q.rest[j] /\ j + 1 \in 1 .. Len(Entity(q))
    <3>1. j \in 1 .. Len(q.rest)
      BY <1>3
    <3>2. Entity(q)[j + 1] = q.rest[j] /\ Len(Entity(q)) = Len(q.rest) + 1
      BY <3>1, EntityTokens
    <3> QED
      BY <1>2, <3>1, <3>2
  <2> QED
    BY <2>1, <2>2 DEF Begins
<1>5. r.rest = q.rest
  BY <1>2, <1>3, <1>4, SeqEqual DEF T
<1> QED
  BY <1>5 DEF Proper

\* A text can be taken apart at any place.
LEMMA SplitAt ==
  ASSUME NEW u \in T, NEW k \in 0 .. Len(u)
  PROVE  \E p \in T, v \in T : u = p \o v /\ Len(p) = k
<1> DEFINE p == SubSeq(u, 1, k)
<1>1. p \in T /\ Len(p) = k /\ \A i \in 1 .. k : p[i] = u[i]
  BY Prefix DEF T
<1> HIDE DEF p
<1>2. Begins(u, p)
  BY <1>1 DEF Begins
<1> QED
  BY <1>1, <1>2, BeginsApart

\* A text that is not empty is a token and a text.
LEMMA FirstApart ==
  ASSUME NEW s \in T, s # <<>>
  PROVE  \E c \in Tokens, u \in T : s = <<c>> \o u /\ Len(s) = Len(u) + 1 /\ Len(u) \in Nat
<1>1. Len(s) \in Nat /\ Len(s) # 0
  BY EmptySeq, LenProperties DEF T
<1>2. 1 \in 0 .. Len(s)
  BY <1>1
<1>3. PICK p \in T, u \in T : s = p \o u /\ Len(p) = 1
  BY <1>2, SplitAt
<1>4. p[1] \in Tokens /\ p = <<p[1]>>
  <2>1. Len(p) = 1 /\ p \in Seq(Tokens)
    BY <1>3 DEF T
  <2>2. p[1] \in Tokens
    BY <2>1, ElementOfSeq
  <2>3. <<p[1]>> \in Seq(Tokens) /\ Len(<<p[1]>>) = 1 /\ <<p[1]>>[1] = p[1]
    BY <2>2
  <2>4. \A i \in 1 .. 1 : p[i] = <<p[1]>>[i]
    BY <2>3
  <2> QED
    BY <2>1, <2>2, <2>3, <2>4, SeqEqual
<1>5. Len(s) = Len(u) + 1 /\ Len(u) \in Nat
  <2>1. Len(p \o u) = Len(p) + Len(u) /\ Len(u) \in Nat
    BY Together
  <2> QED
    BY <1>3, <2>1
<1> QED
  BY <1>3, <1>4, <1>5

\* A token before a text.
LEMMA Longer ==
  ASSUME NEW c \in Tokens, NEW u \in T
  PROVE  /\ <<c>> \o u \in T /\ Len(<<c>> \o u) = Len(u) + 1 /\ Len(u) \in Nat
         /\ (<<c>> \o u)[1] = c /\ \A j \in 1 .. Len(u) : (<<c>> \o u)[j + 1] = u[j]
<1> DEFINE p == <<c>>
<1>1. p \in T /\ Len(p) = 1 /\ p[1] = c
  BY DEF T
<1> HIDE DEF p
<1>2. /\ p \o u \in T /\ Len(p \o u) = Len(p) + Len(u) /\ Len(u) \in Nat
      /\ \A i \in 1 .. Len(p) : (p \o u)[i] = p[i]
      /\ \A j \in 1 .. Len(u) : (p \o u)[Len(p) + j] = u[j]
  BY <1>1, Together
<1>3. 1 \in 1 .. Len(p) /\ \A j \in 1 .. Len(u) : Len(p) + j = j + 1
  BY <1>1, <1>2
<1>4. /\ p \o u \in T /\ Len(p \o u) = Len(u) + 1 /\ Len(u) \in Nat
      /\ (p \o u)[1] = c /\ \A j \in 1 .. Len(u) : (p \o u)[j + 1] = u[j]
  BY <1>1, <1>2, <1>3
<1> QED
  BY <1>4 DEF p

\* One text begins with another, token by token.
LEMMA BeginsStep ==
  ASSUME NEW c \in Tokens, NEW u \in T, NEW x \in Tokens, NEW w \in T
  PROVE  Begins(<<c>> \o u, <<x>> \o w) <=> c = x /\ Begins(u, w)
<1> DEFINE s == <<c>> \o u
           e == <<x>> \o w
<1>1. /\ Len(w) \in Nat /\ Len(e) = Len(w) + 1
      /\ e[1] = x /\ \A j \in 1 .. Len(w) : e[j + 1] = w[j]
  BY Longer, Zenon
<1>3. Len(s) = Len(u) + 1 /\ Len(u) \in Nat /\ s[1] = c /\ \A j \in 1 .. Len(u) : s[j + 1] = u[j]
  BY Longer, Zenon
<1> HIDE DEF s, e
<1>4. ASSUME Begins(s, e) PROVE c = x /\ Begins(u, w)
  <2>1. Len(e) <= Len(s) /\ \A j \in 1 .. Len(e) : s[j] = e[j]
    BY <1>4 DEF Begins
  <2>2. 1 \in 1 .. Len(e) /\ Len(w) <= Len(u)
    BY <1>1, <1>3, <2>1
  <2>3. ASSUME NEW j \in 1 .. Len(w) PROVE u[j] = w[j]
    <3>1. j + 1 \in 1 .. Len(e) /\ j \in 1 .. Len(u)
      BY <1>1, <1>3, <2>2
    <3> QED
      BY <1>1, <1>3, <2>1, <3>1
  <2> QED
    BY <1>1, <1>3, <2>1, <2>2, <2>3 DEF Begins
<1>5. ASSUME c = x, Begins(u, w) PROVE Begins(s, e)
  <2>1. Len(w) <= Len(u) /\ \A j \in 1 .. Len(w) : u[j] = w[j]
    BY <1>5 DEF Begins
  <2>2. ASSUME NEW j \in 1 .. Len(e) PROVE s[j] = e[j]
    <3>1. CASE j = 1
      BY <1>1, <1>3, <1>5, <3>1
    <3>2. CASE j # 1
      <4>1. j - 1 \in 1 .. Len(w) /\ j - 1 \in 1 .. Len(u) /\ (j - 1) + 1 = j
        BY <1>1, <1>3, <2>1, <3>2
      <4>2. s[(j - 1) + 1] = u[j - 1] /\ e[(j - 1) + 1] = w[j - 1] /\ u[j - 1] = w[j - 1]
        BY <1>1, <1>3, <2>1, <4>1
      <4> QED
        BY <4>1, <4>2
    <3> QED
      BY <3>1, <3>2
  <2> QED
    BY <1>1, <1>3, <2>1, <2>2 DEF Begins
<1> QED
  BY <1>4, <1>5 DEF s, e

\* What is found in the rest of a text is what is found there in the text.
LEMMA FoundInRest ==
  ASSUME NEW R, Proper(R), NEW p \in T, NEW u \in T
  PROVE  IsRest(p \o u, FoundBy(R, p \o u), Len(p), u, FoundBy(R, u))
<1> DEFINE s == p \o u
<1>1. /\ s \in T /\ Len(s) = Len(p) + Len(u) /\ Len(p) \in Nat /\ Len(u) \in Nat
      /\ \A i \in 1 .. Len(u) : s[Len(p) + i] = u[i]
      /\ DOMAIN s = 1 .. Len(s) /\ DOMAIN u = 1 .. Len(u)
  BY Together, LenProperties DEF T
<1>2. ASSUME NEW i \in 1 .. Len(u) PROVE FoundBy(R, s)[Len(p) + i] = FoundBy(R, u)[i]
  <2>1. PICK q \in T, v \in T : u = q \o v /\ Len(q) = i - 1
    <3>1. i - 1 \in 0 .. Len(u)
      BY <1>1
    <3> QED
      BY <3>1, SplitAt
  <2>2. p \o q \in T /\ Len(p \o q) = Len(p) + Len(q)
    BY Together
  <2>3. s = (p \o q) \o v
    BY <2>1, ConcatAssociative, SMTT(30) DEF T
  <2>4. Len(q) + 1 = i /\ Len(p \o q) + 1 = Len(p) + i
    BY <1>1, <2>1, <2>2
  <2> HIDE DEF s
  <2>5. \A r \in R : At(s, Len(p) + i, Entity(r)) <=> At(u, i, Entity(r))
    <3> SUFFICES ASSUME NEW r \in R PROVE At(s, Len(p) + i, Entity(r)) <=> At(u, i, Entity(r))
      OBVIOUS
    <3>1. Entity(r) \in T /\ Entity(r) # <<>>
      BY EntityTokens
    <3>2. At((p \o q) \o v, Len(p \o q) + 1, Entity(r)) <=> Begins(v, Entity(r))
      BY <2>2, <3>1, AtBegins
    <3>3. At(q \o v, Len(q) + 1, Entity(r)) <=> Begins(v, Entity(r))
      BY <3>1, AtBegins
    <3> QED
      BY <2>1, <2>3, <2>4, <3>2, <3>3
  <2>6. {r \in R : At(s, Len(p) + i, Entity(r))} = {r \in R : At(u, i, Entity(r))}
    BY <2>5
  <2>7. Len(p) + i \in DOMAIN s /\ i \in DOMAIN u
    BY <1>1
  <2> QED
    BY <2>6, <2>7 DEF FoundBy
<1> QED
  BY <1>1, <1>2 DEF IsRest

\* What is found is within the text.
LEMMA FoundFits ==
  ASSUME NEW R, Proper(R), NEW s \in T
  PROVE  Fits(FoundBy(R, s), s)
<1> SUFFICES ASSUME NEW i \in 1 .. Len(s), NEW m \in FoundBy(R, s)[i]
             PROVE  m.len \in Nat \ {0} /\ i + m.len <= Len(s) + 1 /\ m.by \in T
  BY DEF Fits
<1>1. i \in DOMAIN s /\ Len(s) \in Nat
  BY LenProperties DEF T
<1>2. PICK r \in R : At(s, i, Entity(r)) /\ m = Match(Entity(r), r.by)
  BY <1>1 DEF FoundBy
<1>3. m.len = Len(Entity(r)) /\ m.by = r.by
  BY <1>2 DEF Match
<1>4. Len(Entity(r)) \in Nat \ {0} /\ r.by \in T
  <2>1. Len(r.rest) \in Nat \ {0} /\ Len(Entity(r)) = Len(r.rest) + 1 /\ r.by \in T
    BY EntityTokens
  <2> QED
    BY <2>1
<1>5. i + Len(Entity(r)) - 1 <= Len(s)
  BY <1>2 DEF At
<1> QED
  BY <1>1, <1>3, <1>4, <1>5

\* f gives what is made of s and of each rest of it.
OfEachRest(f, R, s) ==
  /\ Replace(R, s) = f[1] /\ f[1] \in T
  /\ f[1] = Turn(f, s, FoundBy(R, s), 1)
  /\ \A p, u \in T : s = p \o u => f[Len(p) + 1] = Replace(R, u)

\* What is made of a text follows from what is found at its beginning, and from
\* what is made of its rest.
LEMMA ReplaceRest ==
  ASSUME NEW R, Proper(R), NEW s \in T
  PROVE  \E f : OfEachRest(f, R, s)
<1>1. PICK f : /\ Computes(f, s, FoundBy(R, s), 1) /\ Replace(R, s) = f[1]
               /\ \A i \in 1 .. Len(s) + 1 : f[i] \in T
  BY FoundFits, ReplaceComputes DEF Replace
<1>2. 1 \in 1 .. Len(s) + 1
  BY LenProperties DEF T
<1>3. f[1] \in T /\ f[1] = Turn(f, s, FoundBy(R, s), 1)
  BY <1>1, <1>2 DEF Computes
<1>4. ASSUME NEW p \in T, NEW u \in T, s = p \o u PROVE f[Len(p) + 1] = Replace(R, u)
  <2>1. PICK g : Computes(g, u, FoundBy(R, u), 1) /\ Replace(R, u) = g[1]
    BY FoundFits, ReplaceComputes DEF Replace
  <2>2. IsRest(s, FoundBy(R, s), Len(p), u, FoundBy(R, u)) /\ Fits(FoundBy(R, u), u)
    BY <1>4, FoundInRest, FoundFits
  <2>3. 1 \in 1 .. Len(u) + 1 /\ Len(p) \in Nat
    BY LenProperties DEF T
  <2>4. f[Len(p) + 1] = g[1]
    BY <1>1, <2>1, <2>2, <2>3, RestAlone
  <2> QED
    BY <2>1, <2>4
<1> QED
  BY <1>1, <1>3, <1>4 DEF OfEachRest

\* An empty text stays as it is.
LEMMA ReplaceNothing ==
  ASSUME NEW R, Proper(R)
  PROVE  Replace(R, <<>>) = <<>>
<1>1. <<>> \in T /\ 1 > Len(<<>>)
  BY EmptySeq DEF T
<1>2. PICK f : OfEachRest(f, R, <<>>)
  BY <1>1, ReplaceRest
<1> QED
  BY <1>1, <1>2 DEF OfEachRest, Turn

\* What is made of a text is a text.
LEMMA ReplaceType ==
  ASSUME NEW R, Proper(R), NEW s \in T
  PROVE  Replace(R, s) \in T
BY ReplaceRest DEF OfEachRest

\* A token with which no entity begins is left as it is.
LEMMA ReplaceToken ==
  ASSUME NEW R, Proper(R), NEW c \in Tokens, NEW u \in T,
         \A r \in R : ~Begins(<<c>> \o u, Entity(r))
  PROVE  Replace(R, <<c>> \o u) = <<c>> \o Replace(R, u)
<1> DEFINE p == <<c>>
           s == p \o u
<1>1. p \in T /\ Len(p) = 1 /\ p[1] = c
  BY DEF T
<1> HIDE DEF p
<1>2. s \in T /\ Len(s) = 1 + Len(u) /\ Len(u) \in Nat /\ s[1] = c
  <2>1. s \in T /\ Len(s) = Len(p) + Len(u) /\ Len(u) \in Nat /\ \A i \in 1 .. Len(p) : s[i] = p[i]
    BY <1>1, Together
  <2> QED
    BY <1>1, <2>1
<1>3. FoundBy(R, s)[1] = {}
  <2>1. <<>> \in T /\ Len(<<>>) + 1 = 1 /\ <<>> \o s = s
    BY <1>2, EmptySeq, ConcatEmptySeq DEF T
  <2>2. \A r \in R : ~At(s, 1, Entity(r))
    <3> SUFFICES ASSUME NEW r \in R PROVE ~At(s, 1, Entity(r))
      OBVIOUS
    <3>1. Entity(r) \in T /\ Entity(r) # <<>> /\ ~Begins(s, Entity(r))
      BY EntityTokens DEF p
    <3>2. At(<<>> \o s, Len(<<>>) + 1, Entity(r)) <=> Begins(s, Entity(r))
      BY <1>2, <2>1, <3>1, AtBegins
    <3> QED
      BY <2>1, <3>1, <3>2
  <2>3. 1 \in DOMAIN s
    BY <1>2, LenProperties DEF T
  <2> HIDE DEF s
  <2> QED
    BY <2>2, <2>3 DEF FoundBy
<1>4. s = p \o u
  OBVIOUS
<1> HIDE DEF s
<1>5. PICK f : OfEachRest(f, R, s)
  BY <1>2, ReplaceRest
<1>6. f[1 + 1] = Replace(R, u)
  BY <1>1, <1>4, <1>5 DEF OfEachRest
<1>7. Turn(f, s, FoundBy(R, s), 1) = <<c>> \o f[1 + 1]
  BY <1>2, <1>3 DEF Turn
<1>8. Replace(R, s) = <<c>> \o Replace(R, u)
  BY <1>5, <1>6, <1>7 DEF OfEachRest
<1> QED
  BY <1>4, <1>8 DEF p

\* An entity is replaced, and what follows as if it stood alone.
LEMMA ReplaceEntity ==
  ASSUME NEW R, Proper(R), NEW r \in R, NEW u \in T
  PROVE  Replace(R, Entity(r) \o u) = r.by \o Replace(R, u)
<1> DEFINE e == Entity(r)
           s == e \o u
<1>1. e \in T /\ e # <<>> /\ Len(e) \in Nat \ {0}
  <2>1. e \in T /\ e # <<>>
    BY EntityTokens
  <2> QED
    BY <2>1, EmptySeq, LenProperties DEF T
<1> HIDE DEF e
<1>2. s \in T /\ Len(s) = Len(e) + Len(u) /\ Len(u) \in Nat
  BY <1>1, Together
<1>3. Begins(s, e)
  BY <1>1, <1>2, BeginsApart
<1>4. FoundBy(R, s)[1] = {Match(e, r.by)}
  <2>1. <<>> \in T /\ Len(<<>>) + 1 = 1 /\ <<>> \o s = s
    BY <1>2, EmptySeq, ConcatEmptySeq DEF T
  <2>2. \A q \in R : At(s, 1, Entity(q)) <=> q = r
    <3> SUFFICES ASSUME NEW q \in R PROVE At(s, 1, Entity(q)) <=> q = r
      OBVIOUS
    <3>1. Entity(q) \in T /\ Entity(q) # <<>>
      BY EntityTokens
    <3>2. At(<<>> \o s, Len(<<>>) + 1, Entity(q)) <=> Begins(s, Entity(q))
      BY <1>2, <2>1, <3>1, AtBegins
    <3>3. Begins(s, Entity(q)) => q = r
      BY <1>2, <1>3, OneRule DEF e
    <3> QED
      BY <1>3, <2>1, <3>2, <3>3 DEF e
  <2>3. 1 \in DOMAIN s
    BY <1>1, <1>2, LenProperties DEF T
  <2> HIDE DEF s
  <2>4. {q \in R : At(s, 1, Entity(q))} = {r}
    BY <2>2
  <2> QED
    BY <2>3, <2>4 DEF FoundBy, e
<1>5. s = e \o u
  OBVIOUS
<1> HIDE DEF s
<1>6. PICK f : OfEachRest(f, R, s)
  BY <1>2, ReplaceRest
<1>7. f[1 + Len(e)] = Replace(R, u)
  <2>1. \A p, v \in T : s = p \o v => f[Len(p) + 1] = Replace(R, v)
    BY <1>6 DEF OfEachRest
  <2>2. f[Len(e) + 1] = Replace(R, u)
    BY <1>1, <1>5, <2>1
  <2>3. Len(e) + 1 = 1 + Len(e)
    BY <1>1
  <2> QED
    BY <2>2, <2>3
<1>8. The(FoundBy(R, s), 1) = Match(e, r.by)
  <2>1. FoundBy(R, s)[1] # {}
    BY <1>4
  <2>2. The(FoundBy(R, s), 1) \in FoundBy(R, s)[1]
    BY <2>1 DEF The
  <2> QED
    BY <1>4, <2>2
<1>9. Match(e, r.by).len = Len(e) /\ Match(e, r.by).by = r.by
  BY DEF Match
<1>10. Turn(f, s, FoundBy(R, s), 1) = r.by \o f[1 + Len(e)]
  <2>1. ~(1 > Len(s)) /\ FoundBy(R, s)[1] # {}
    BY <1>1, <1>2, <1>4
  <2> QED
    BY <1>8, <1>9, <2>1 DEF Turn
<1>11. Replace(R, s) = r.by \o Replace(R, u)
  BY <1>6, <1>7, <1>10 DEF OfEachRest
<1> QED
  BY <1>5, <1>11 DEF e

-----------------------------------------------------------------------------
(* Two passes.                                                             *)

\* What rules put in is one token, or none.
Small(R) == \A r \in R : r.by = <<>> \/ \E c \in Tokens : r.by = <<c>>

\* What B finds in what A makes of s stood in s; or an entity for which nothing is put
\* in stood before it.
Quiet(A, B, s) ==
  \A p, u \in T, q \in B :
    s = p \o u /\ Begins(Replace(A, u), Entity(q)) =>
      Begins(u, Entity(q)) \/ \E r \in A : r.by = <<>> /\ Begins(u, Entity(r))

\* What is quiet is so from any place on.
LEMMA QuietRest ==
  ASSUME NEW A, NEW B, NEW x \in T, NEW s \in T, Quiet(A, B, x \o s)
  PROVE  Quiet(A, B, s)
<1> SUFFICES ASSUME NEW p \in T, NEW u \in T, NEW q \in B,
                    s = p \o u, Begins(Replace(A, u), Entity(q))
             PROVE  Begins(u, Entity(q)) \/ \E r \in A : r.by = <<>> /\ Begins(u, Entity(r))
  BY DEF Quiet
<1>1. x \o (p \o u) = (x \o p) \o u
  BY Grouped
<1>2. x \o p \in T
  BY Together
<1> QED
  BY <1>1, <1>2 DEF Quiet

\* What B finds at the beginning of what A makes of a text.
LEMMA QuietHead ==
  ASSUME NEW A, NEW B, NEW s \in T, Quiet(A, B, s), NEW q \in B, Begins(Replace(A, s), Entity(q))
  PROVE  Begins(s, Entity(q)) \/ \E r \in A : r.by = <<>> /\ Begins(s, Entity(r))
<1>1. <<>> \in T /\ s = <<>> \o s
  BY EmptySeq, ConcatEmptySeq DEF T
<1> QED
  BY <1>1 DEF Quiet

\* A text is empty, or begins with an entity, or with a token that begins none.
LEMMA HeadCases ==
  ASSUME NEW R, Proper(R), NEW s \in T
  PROVE  \/ s = <<>>
         \/ \E r \in R, u \in T : s = Entity(r) \o u
         \/ \E c \in Tokens, u \in T : s = <<c>> \o u /\ \A r \in R : ~Begins(s, Entity(r))
<1>1. ASSUME NEW r \in R, Begins(s, Entity(r)) PROVE \E u \in T : s = Entity(r) \o u
  <2>1. Entity(r) \in T
    BY EntityTokens
  <2> QED
    BY <1>1, <2>1, BeginsApart
<1>2. ASSUME s # <<>> PROVE \E c \in Tokens, u \in T : s = <<c>> \o u
  BY <1>2, FirstApart
<1> QED
  BY <1>1, <1>2

\* An ampersand and what stands behind it make an entity.
LEMMA EntityBegins ==
  ASSUME NEW R, Proper(R), NEW r \in R, NEW c \in Tokens, NEW u \in T
  PROVE  Begins(<<c>> \o u, Entity(r)) <=> c = "&" /\ Begins(u, r.rest)
<1>1. r.rest \in T /\ "&" \in Tokens
  BY EntityTokens, EntityAssumption
<1> QED
  BY <1>1, BeginsStep DEF Entity

\* What has no ampersand is left as it is.
LEMMA LeftAlone ==
  ASSUME NEW R, Proper(R), NEW w \in T, NEW u \in T, \A j \in 1 .. Len(w) : w[j] # "&"
  PROVE  Replace(R, w \o u) = w \o Replace(R, u)
<1> DEFINE Left(v) == (\A j \in 1 .. Len(v) : v[j] # "&") => Replace(R, v \o u) = v \o Replace(R, u)
           Bad == {Len(v) : v \in {v \in T : ~Left(v)}}
<1> SUFFICES ASSUME Bad # {} PROVE FALSE
  OBVIOUS
<1>1. PICK n \in Bad : \A m \in Bad : n <= m
  <2>1. Bad \in SUBSET Nat
    BY LenProperties DEF T
  <2> HIDE DEF Bad
  <2> QED
    BY <2>1, Least
<1>2. PICK v \in T : ~Left(v) /\ Len(v) = n
  OBVIOUS
<1>3. v # <<>>
  <2>1. <<>> \o u = u /\ <<>> \o Replace(R, u) = Replace(R, u)
    BY ReplaceType, ConcatEmptySeq DEF T
  <2> QED
    BY <1>2, <2>1
<1>4. PICK c \in Tokens, x \in T : v = <<c>> \o x /\ Len(v) = Len(x) + 1 /\ Len(x) \in Nat
  BY <1>3, FirstApart
<1>5. Left(x)
  <2>1. Len(x) \notin Bad
    <3>1. ~(n <= Len(x))
      BY <1>2, <1>4
    <3> HIDE DEF Bad
    <3> QED
      BY <1>1, <3>1
  <2> QED
    BY <2>1
<1>6. \A j \in 1 .. Len(v) : v[j] # "&"
  BY <1>2
<1>7. c # "&" /\ \A j \in 1 .. Len(x) : x[j] # "&"
  <2>1. v[1] = c /\ \A j \in 1 .. Len(x) : v[j + 1] = x[j]
    <3>1. (<<c>> \o x)[1] = c /\ \A j \in 1 .. Len(x) : (<<c>> \o x)[j + 1] = x[j]
      BY Longer, Zenon
    <3> QED
      BY <1>4, <3>1, Zenon
  <2>2. 1 \in 1 .. Len(v) /\ \A j \in 1 .. Len(x) : j + 1 \in 1 .. Len(v)
    BY <1>4
  <2> QED
    BY <1>6, <2>1, <2>2
<1>8. v \o u = <<c>> \o (x \o u) /\ v \o Replace(R, u) = <<c>> \o (x \o Replace(R, u)) /\ x \o u \in T
  <2> HIDE DEF Bad, Left
  <2> DEFINE p == <<c>>
             y == Replace(R, u)
  <2>1. p \in T /\ y \in T
    BY ReplaceType DEF T
  <2> HIDE DEF p, y
  <2>2. p \o (x \o u) = (p \o x) \o u
    BY <2>1, Grouped, SMTT(30)
  <2>4. p \o (x \o y) = (p \o x) \o y
    BY <2>1, Grouped, SMTT(30)
  <2>3. x \o u \in T
    BY Together
  <2>5. v = p \o x
    BY <1>4 DEF p
  <2>6. v \o u = p \o (x \o u) /\ v \o y = p \o (x \o y)
    BY <2>2, <2>4, <2>5
  <2> QED
    BY <2>3, <2>6 DEF p, y
<1>9. Replace(R, <<c>> \o (x \o u)) = <<c>> \o Replace(R, x \o u)
  <2> DEFINE y == x \o u
  <2>1. y \in T
    BY <1>8
  <2> HIDE DEF y
  <2>2. \A r \in R : ~Begins(<<c>> \o y, Entity(r))
    BY <1>7, <2>1, EntityBegins
  <2>3. Replace(R, <<c>> \o y) = <<c>> \o Replace(R, y)
    BY <2>1, <2>2, ReplaceToken
  <2> QED
    BY <2>3 DEF y
<1>10. Replace(R, x \o u) = x \o Replace(R, u)
  BY <1>5, <1>7
<1>11. Replace(R, v \o u) = v \o Replace(R, u)
  BY <1>8, <1>9, <1>10
<1> QED
  BY <1>2, <1>11

\* Two passes, of which the second finds no entity that the first one has made, are
\* one pass with the rules of both.
LEMMA TwoPasses ==
  ASSUME NEW A, NEW B, Proper(A), Proper(B), Proper(A \cup B), A \cap B = {},
         Small(A), NEW s \in T, Quiet(A, B, s)
  PROVE  Replace(B, Replace(A, s)) = Replace(A \cup B, s)
<1> DEFINE C == A \cup B
           Merged(v) == Quiet(A, B, v) => Replace(B, Replace(A, v)) = Replace(C, v)
           Bad == {Len(v) : v \in {v \in T : ~Merged(v)}}
<1> SUFFICES ASSUME Bad # {} PROVE FALSE
  OBVIOUS
<1>1. PICK n \in Bad : \A m \in Bad : n <= m
  <2>1. Bad \in SUBSET Nat
    BY LenProperties DEF T
  <2> HIDE DEF Bad
  <2> QED
    BY <2>1, Least
<1>2. PICK v \in T : ~Merged(v) /\ Len(v) = n
  OBVIOUS
<1>3. Quiet(A, B, v) /\ Replace(B, Replace(A, v)) # Replace(C, v)
  BY <1>2
<1>4. ASSUME NEW x \in T, NEW u \in T, v = x \o u, x # <<>>
      PROVE  /\ Quiet(A, B, u) /\ Replace(B, Replace(A, u)) = Replace(C, u)
             /\ Replace(A, u) \in T /\ Replace(C, u) \in T
  <2>1. Len(v) = Len(x) + Len(u) /\ Len(x) \in Nat /\ Len(u) \in Nat
    BY <1>4, Together
  <2>2. Len(x) # 0
    BY <1>4, EmptySeq DEF T
  <2>3. ~(n <= Len(u))
    BY <1>2, <2>1, <2>2
  <2>4. Len(u) \notin Bad
    <3> HIDE DEF Bad
    <3> QED
      BY <1>1, <2>3
  <2>5. Merged(u)
    BY <2>4
  <2>6. Quiet(A, B, u)
    BY <1>3, <1>4, QuietRest
  <2> QED
    BY <2>5, <2>6, ReplaceType
<1> HIDE DEF Bad, Merged
<1>5. Proper(C) /\ A \subseteq C /\ B \subseteq C
  OBVIOUS
<1> HIDE DEF C
<1>6. CASE v = <<>>
  <2>1. Replace(A, v) = <<>> /\ Replace(B, <<>>) = <<>> /\ Replace(C, v) = <<>>
    BY <1>5, <1>6, ReplaceNothing
  <2> QED
    BY <1>3, <2>1
<1>7. ASSUME NEW r \in A, NEW u \in T, v = Entity(r) \o u PROVE FALSE
  <2>1. Entity(r) \in T /\ Entity(r) # <<>> /\ Begins(v, Entity(r))
    <3>1. Entity(r) \in T /\ Entity(r) # <<>>
      BY EntityTokens
    <3> QED
      BY <1>7, <3>1, BeginsApart
  <2>2. /\ Replace(B, Replace(A, u)) = Replace(C, u)
        /\ Replace(A, u) \in T /\ Replace(C, u) \in T
    BY <1>4, <1>7, <2>1
  <2>3. Replace(A, v) = r.by \o Replace(A, u) /\ Replace(C, v) = r.by \o Replace(C, u)
    BY <1>5, <1>7, ReplaceEntity
  <2>4. CASE r.by = <<>>
    <3>1. \A x \in T : <<>> \o x = x
      BY ConcatEmptySeq DEF T
    <3>2. Replace(A, v) = Replace(A, u) /\ Replace(C, v) = Replace(C, u)
      BY <2>2, <2>3, <2>4, <3>1
    <3> QED
      BY <1>3, <2>2, <3>2
  <2>5. ASSUME NEW c \in Tokens, r.by = <<c>> PROVE FALSE
    <3>1. ASSUME NEW q \in B, Begins(<<c>> \o Replace(A, u), Entity(q)) PROVE FALSE
      <4>1. Begins(Replace(A, v), Entity(q))
        BY <2>3, <2>5, <3>1
      <4>2. PICK t \in C : Begins(v, Entity(t)) /\ (t = q \/ t.by = <<>>)
        BY <1>3, <1>5, <4>1, QuietHead
      <4>3. t = r
        BY <1>5, <2>1, <4>2, OneRule
      <4>4. <<c>> # <<>>
        OBVIOUS
      <4> QED
        BY <2>5, <4>2, <4>3, <4>4
    <3>2. Replace(B, <<c>> \o Replace(A, u)) = <<c>> \o Replace(B, Replace(A, u))
      BY <2>2, <3>1, ReplaceToken
    <3> QED
      BY <1>3, <2>2, <2>3, <2>5, <3>2
  <2> QED
    BY <2>4, <2>5 DEF Small
<1>8. ASSUME NEW q \in B, NEW u \in T, v = Entity(q) \o u, \A r \in A : ~Begins(v, Entity(r))
      PROVE  FALSE
  <2> DEFINE w == q.rest
             a == <<"&">>
  <2>1. /\ Entity(q) \in T /\ Entity(q) # <<>> /\ w \in T /\ Entity(q) = a \o w
        /\ \A j \in 1 .. Len(w) : w[j] # "&"
    <3>1. \A j \in 1 .. Len(w) : w[j] \in Inside \cup {Semicolon}
      BY EntityTokens
    <3>2. Entity(q) \in T /\ Entity(q) # <<>> /\ w \in T
      BY EntityTokens
    <3> QED
      BY <3>1, <3>2, Apart DEF Entity
  <2>2. /\ Replace(B, Replace(A, u)) = Replace(C, u) /\ Replace(A, u) \in T
    BY <1>4, <1>8, <2>1
  <2>3. "&" \in Tokens /\ a \in T
    BY EntityAssumption DEF T
  <2> HIDE DEF a, w
  <2>4. w \o u \in T /\ v = a \o (w \o u)
    <3>1. a \o (w \o u) = (a \o w) \o u
      BY <2>1, <2>3, Grouped, SMTT(30)
    <3>2. w \o u \in T
      BY <2>1, Together
    <3> QED
      BY <1>8, <2>1, <3>1, <3>2
  <2>5. Replace(A, v) = a \o Replace(A, w \o u)
    <3>1. \A r \in A : ~Begins(a \o (w \o u), Entity(r))
      BY <1>8, <2>4
    <3> QED
      BY <2>3, <2>4, <3>1, ReplaceToken DEF a
  <2>6. Replace(A, w \o u) = w \o Replace(A, u)
    BY <2>1, LeftAlone
  <2>7. Replace(A, v) = Entity(q) \o Replace(A, u)
    <3> DEFINE y == Replace(A, u)
    <3>0. y \in T
      BY <2>2
    <3> HIDE DEF y
    <3>2. a \o (w \o y) = (a \o w) \o y
      BY <2>1, <2>3, <3>0, Grouped
    <3>1. a \o (w \o Replace(A, u)) = (a \o w) \o Replace(A, u)
      BY <3>2 DEF y
    <3> QED
      BY <2>1, <2>5, <2>6, <3>1
  <2>8. Replace(B, Replace(A, v)) = q.by \o Replace(B, Replace(A, u))
    BY <2>2, <2>7, ReplaceEntity, ZenonT(30)
  <2>9. Replace(C, v) = q.by \o Replace(C, u)
    BY <1>5, <1>8, ReplaceEntity
  <2> QED
    BY <1>3, <2>2, <2>8, <2>9
<1>9. ASSUME NEW c \in Tokens, NEW u \in T, v = <<c>> \o u, \A r \in C : ~Begins(v, Entity(r))
      PROVE  FALSE
  <2>1. <<c>> \in T /\ <<c>> # <<>>
    BY DEF T
  <2>2. /\ Replace(B, Replace(A, u)) = Replace(C, u) /\ Replace(A, u) \in T
    BY <1>4, <1>9, <2>1
  <2>3. Replace(A, v) = <<c>> \o Replace(A, u)
    BY <1>5, <1>9, ReplaceToken
  <2>4. Replace(C, v) = <<c>> \o Replace(C, u)
    BY <1>5, <1>9, ReplaceToken
  <2>5. ASSUME NEW q \in B, Begins(<<c>> \o Replace(A, u), Entity(q)) PROVE FALSE
    <3>0. Begins(Replace(A, v), Entity(q))
      BY <2>3, <2>5
    <3>1. Begins(v, Entity(q)) \/ \E r \in A : Begins(v, Entity(r))
      BY <1>3, <3>0, QuietHead
    <3> QED
      BY <1>5, <1>9, <3>1
  <2>6. Replace(B, <<c>> \o Replace(A, u)) = <<c>> \o Replace(B, Replace(A, u))
    BY <2>2, <2>5, ReplaceToken
  <2> QED
    BY <1>3, <2>2, <2>3, <2>4, <2>6
<1>10. ASSUME NEW r \in C, NEW u \in T, v = Entity(r) \o u PROVE FALSE
  <2>1. ASSUME NEW q \in A, Begins(v, Entity(q)) PROVE FALSE
    <3>1. Entity(q) \in T
      BY EntityTokens
    <3>2. PICK x \in T : v = Entity(q) \o x
      BY <2>1, <3>1, BeginsApart
    <3> QED
      BY <1>7, <3>2
  <2>2. r \in B
    BY <1>7, <1>10 DEF C
  <2> QED
    BY <1>8, <1>10, <2>1, <2>2
<1>11. \/ v = <<>>
       \/ \E r \in C, u \in T : v = Entity(r) \o u
       \/ \E c \in Tokens, u \in T : v = <<c>> \o u /\ \A r \in C : ~Begins(v, Entity(r))
  BY <1>5, HeadCases
<1> QED
  BY <1>6, <1>9, <1>10, <1>11

-----------------------------------------------------------------------------
(* The passes of the decoder.                                              *)

Decimals == {Rule(<<"#", d, Semicolon>>, DecimalChar[d]) : d \in DOMAIN DecimalChar}
Hexes    == {Rule(<<"#", x, h, Semicolon>>, HexChar[h]) : x \in {"x", "X"}, h \in DOMAIN HexChar}
Name(k)  == Rule(<<Table[k][1], Semicolon>>, <<Table[k][2]>>)
UpTo(k)  == (Decimals \cup Hexes) \cup {Name(j) : j \in 1 .. k}

\* The rows of the table: no name stands twice.
LEMMA Rows ==
  /\ Len(Table) = 15 /\ DOMAIN Table = 1 .. 15
  /\ \A k \in 1 .. 15 : Table[k][1] \in Names /\ Table[k][2] \in Chars
  /\ \A j, k \in 1 .. 15 : Table[j][1] = Table[k][1] => j = k
<1>1. Len(Table) = 15 /\ DOMAIN Table = 1 .. 15
  BY DEF Table
<1>2. \A j, k \in 1 .. 15 : Table[j][1] = Table[k][1] => j = k
  BY SMTT(60) DEF Table
<1>3. \A k \in 1 .. 15 : Table[k][1] \in Names /\ Table[k][2] \in Chars
  BY <1>1 DEF Names, Chars
<1> QED
  BY <1>1, <1>2, <1>3

\* A named entity, spelled out.
LEMMA SpelledName ==
  ASSUME NEW a, NEW b
  PROVE  <<"&">> \o <<a, b>> = <<"&", a, b>>
<1> DEFINE S == {"&", a, b}
           p == <<"&">>
           w == <<a, b>>
           e == <<"&", a, b>>
<1>1. w \in Seq(S) /\ Len(w) = 2 /\ w[1] = a /\ w[2] = b
  OBVIOUS
<1>2. e \in Seq(S) /\ Len(e) = 3 /\ e[1] = "&" /\ e[2] = a /\ e[3] = b
  OBVIOUS
<1>3. p \in Seq(S) /\ Len(p) = 1 /\ p[1] = "&"
  OBVIOUS
<1> HIDE DEF p, w, e, S
<1>4. /\ p \o w \in Seq(S) /\ Len(p \o w) = Len(p) + Len(w)
      /\ \A i \in 1 .. Len(p) + Len(w) : (p \o w)[i] = IF i <= Len(p) THEN p[i] ELSE w[i - Len(p)]
  BY <1>1, <1>3, ConcatProperties
<1>5. \A i \in 1 .. 3 : (p \o w)[i] = e[i]
  BY <1>1, <1>2, <1>3, <1>4
<1>6. p \o w = e
  BY <1>1, <1>2, <1>3, <1>4, <1>5, SeqEqual
<1> QED
  BY <1>6 DEF p, w, e

\* A decimal one.
LEMMA SpelledDecimal ==
  ASSUME NEW a, NEW b, NEW c
  PROVE  <<"&">> \o <<a, b, c>> = <<"&", a, b, c>>
<1> DEFINE S == {"&", a, b, c}
           p == <<"&">>
           w == <<a, b, c>>
           e == <<"&", a, b, c>>
<1>1. w \in Seq(S) /\ Len(w) = 3 /\ w[1] = a /\ w[2] = b /\ w[3] = c
  OBVIOUS
<1>2. e \in Seq(S) /\ Len(e) = 4 /\ e[1] = "&" /\ e[2] = a /\ e[3] = b /\ e[4] = c
  OBVIOUS
<1>3. p \in Seq(S) /\ Len(p) = 1 /\ p[1] = "&"
  OBVIOUS
<1> HIDE DEF p, w, e, S
<1>4. /\ p \o w \in Seq(S) /\ Len(p \o w) = Len(p) + Len(w)
      /\ \A i \in 1 .. Len(p) + Len(w) : (p \o w)[i] = IF i <= Len(p) THEN p[i] ELSE w[i - Len(p)]
  BY <1>1, <1>3, ConcatProperties
<1>5. \A i \in 1 .. 4 : (p \o w)[i] = e[i]
  BY <1>1, <1>2, <1>3, <1>4
<1>6. p \o w = e
  BY <1>1, <1>2, <1>3, <1>4, <1>5, SeqEqual, SMTT(30)
<1> QED
  BY <1>6 DEF p, w, e

\* A hexadecimal one.
LEMMA SpelledHex ==
  ASSUME NEW a, NEW b, NEW c, NEW d
  PROVE  <<"&">> \o <<a, b, c, d>> = <<"&", a, b, c, d>>
<1> DEFINE S == {"&", a, b, c, d}
           p == <<"&">>
           w == <<a, b, c, d>>
           e == <<"&", a, b, c, d>>
<1>1. w \in Seq(S) /\ Len(w) = 4 /\ w[1] = a /\ w[2] = b /\ w[3] = c /\ w[4] = d
  OBVIOUS
<1>2. e \in Seq(S) /\ Len(e) = 5 /\ e[1] = "&" /\ e[2] = a /\ e[3] = b /\ e[4] = c /\ e[5] = d
  OBVIOUS
<1>3. p \in Seq(S) /\ Len(p) = 1 /\ p[1] = "&"
  OBVIOUS
<1> HIDE DEF p, w, e, S
<1>4. /\ p \o w \in Seq(S) /\ Len(p \o w) = Len(p) + Len(w)
      /\ \A i \in 1 .. Len(p) + Len(w) : (p \o w)[i] = IF i <= Len(p) THEN p[i] ELSE w[i - Len(p)]
  BY <1>1, <1>3, ConcatProperties
<1>5. \A i \in 1 .. 5 : (p \o w)[i] = e[i]
  BY <1>1, <1>2, <1>3, <1>4
<1>6. p \o w = e
  BY <1>1, <1>2, <1>3, <1>4, <1>5, SeqEqual, SMTT(30)
<1> QED
  BY <1>6 DEF p, w, e

\* What a number stands for is a character, and none that stands inside an entity
\* but for `#`; or it is none.
LEMMA NumberChars ==
  ASSUME NEW by \in {DecimalChar[d] : d \in DOMAIN DecimalChar} \cup {HexChar[h] : h \in DOMAIN HexChar}
  PROVE  /\ by = <<>> \/ \E c \in Tokens : c \notin Numbers \cup Names \cup {"x", "X"} /\ by = <<c>>
         /\ by \in T
<1>1. by = <<>> \/ \E c \in Tokens : c \notin Numbers \cup Names \cup {"x", "X"} /\ by = <<c>>
  BY EntityAssumption
<1>2. <<>> \in T /\ \A c \in Tokens : <<c>> \in T
  BY EmptySeq DEF T
<1> QED
  BY <1>1, <1>2

\* A rule of a number is a rule, and one of a name is one.
LEMMA EachRule ==
  ASSUME NEW r \in UpTo(15)
  PROVE  /\ r \in Rules
         /\ \/ \E d \in DOMAIN DecimalChar : r = Rule(<<"#", d, Semicolon>>, DecimalChar[d])
            \/ \E x \in {"x", "X"}, h \in DOMAIN HexChar :
                 r = Rule(<<"#", x, h, Semicolon>>, HexChar[h])
            \/ \E k \in 1 .. 15 : r = Name(k)
         /\ \E w \in Seq(Inside) : r.rest = Append(w, Semicolon)
<1>0. {"#", Semicolon, "x", "X"} \cup Numbers \cup Names \cup Chars \subseteq Tokens
  BY EntityAssumption
<1>1. ASSUME NEW d \in DOMAIN DecimalChar, r = Rule(<<"#", d, Semicolon>>, DecimalChar[d])
      PROVE  r \in Rules /\ \E w \in Seq(Inside) : r.rest = Append(w, Semicolon)
  <2>1. d \in Numbers /\ d \in Tokens /\ d \in Inside /\ "#" \in Inside
    BY <1>0 DEF Numbers, Inside
  <2>2. DecimalChar[d] \in T
    BY NumberChars
  <2>3. <<"#", d, Semicolon>> \in T
    BY <1>0, <2>1 DEF T
  <2>4. <<"#", d>> \in Seq(Inside) /\ <<"#", d, Semicolon>> = Append(<<"#", d>>, Semicolon)
    BY <2>1
  <2> QED
    BY <1>1, <2>2, <2>3, <2>4 DEF Rule, Rules
<1>2. ASSUME NEW x \in {"x", "X"}, NEW h \in DOMAIN HexChar,
             r = Rule(<<"#", x, h, Semicolon>>, HexChar[h])
      PROVE  r \in Rules /\ \E w \in Seq(Inside) : r.rest = Append(w, Semicolon)
  <2>1. h \in Numbers /\ h \in Tokens /\ x \in Tokens /\ h \in Inside /\ x \in Inside /\ "#" \in Inside
    BY <1>0 DEF Numbers, Inside
  <2>2. HexChar[h] \in T
    BY NumberChars
  <2>3. <<"#", x, h, Semicolon>> \in T
    BY <1>0, <2>1 DEF T
  <2>4. <<"#", x, h>> \in Seq(Inside) /\ <<"#", x, h, Semicolon>> = Append(<<"#", x, h>>, Semicolon)
    BY <2>1
  <2> QED
    BY <1>2, <2>2, <2>3, <2>4 DEF Rule, Rules
<1>3. ASSUME NEW k \in 1 .. 15, r = Name(k)
      PROVE  r \in Rules /\ \E w \in Seq(Inside) : r.rest = Append(w, Semicolon)
  <2> DEFINE n == Table[k][1]
             c == Table[k][2]
  <2>1. n \in Tokens /\ c \in Tokens /\ n \in Inside
    BY <1>0, Rows DEF Inside
  <2>2. r = Rule(<<n, Semicolon>>, <<c>>)
    BY <1>3 DEF Name
  <2> HIDE DEF n, c
  <2>3. <<n, Semicolon>> \in T /\ <<c>> \in T
    BY <1>0, <2>1 DEF T
  <2>4. <<n>> \in Seq(Inside) /\ <<n, Semicolon>> = Append(<<n>>, Semicolon)
    BY <2>1
  <2> QED
    BY <2>2, <2>3, <2>4 DEF Rule, Rules
<1>4. \/ \E d \in DOMAIN DecimalChar : r = Rule(<<"#", d, Semicolon>>, DecimalChar[d])
      \/ \E x \in {"x", "X"}, h \in DOMAIN HexChar : r = Rule(<<"#", x, h, Semicolon>>, HexChar[h])
      \/ \E k \in 1 .. 15 : r = Name(k)
  BY DEF UpTo, Decimals, Hexes
<1> QED
  BY <1>1, <1>2, <1>3, <1>4

\* No two rules of all kinds are for one entity.
LEMMA AllProper == Proper(UpTo(15))
<1>1. ASSUME NEW r \in UpTo(15), NEW q \in UpTo(15), r.rest = q.rest PROVE r = q
  <2> DEFINE IsDecimal(x, d) == x = Rule(<<"#", d, Semicolon>>, DecimalChar[d])
             IsHex(x, y, h) == x = Rule(<<"#", y, h, Semicolon>>, HexChar[h])
             IsName(x, k) == x = Name(k)
  <2>1. /\ \A x, d : IsDecimal(x, d) => Len(x.rest) = 3 /\ x.rest[2] = d /\ x.by = DecimalChar[d]
        /\ \A x, y, h : IsHex(x, y, h) => Len(x.rest) = 4 /\ x.rest[3] = h /\ x.by = HexChar[h]
        /\ \A x, k : IsName(x, k) => Len(x.rest) = 2 /\ x.rest[1] = Table[k][1]
    BY DEF Rule, Name
  <2>2. \A x \in {r, q} : \/ \E d \in DOMAIN DecimalChar : IsDecimal(x, d)
                          \/ \E y \in {"x", "X"}, h \in DOMAIN HexChar : IsHex(x, y, h)
                          \/ \E k \in 1 .. 15 : IsName(x, k)
    <3> SUFFICES ASSUME NEW x \in {r, q}
                 PROVE  \/ \E d \in DOMAIN DecimalChar : IsDecimal(x, d)
                        \/ \E y \in {"x", "X"}, h \in DOMAIN HexChar : IsHex(x, y, h)
                        \/ \E k \in 1 .. 15 : IsName(x, k)
      OBVIOUS
    <3>1. x \in UpTo(15)
      OBVIOUS
    <3> QED
      BY <3>1, EachRule
  <2>3. r \in Rules /\ q \in Rules
    BY EachRule
  <2>4. r.by = q.by \/ \E j, k \in 1 .. 15 : IsName(r, k) /\ IsName(q, j)
    <3> HIDE DEF IsDecimal, IsHex, IsName
    <3>1. CASE \E d \in DOMAIN DecimalChar : IsDecimal(r, d)
      BY <1>1, <2>1, <2>2, <3>1
    <3>2. CASE \E y \in {"x", "X"}, h \in DOMAIN HexChar : IsHex(r, y, h)
      BY <1>1, <2>1, <2>2, <3>2
    <3>3. CASE \E k \in 1 .. 15 : IsName(r, k)
      BY <1>1, <2>1, <2>2, <3>3
    <3> QED
      BY <2>2, <3>1, <3>2, <3>3
  <2>5. CASE r.by = q.by
    BY <1>1, <2>3, <2>5 DEF Rules
  <2>6. ASSUME NEW j \in 1 .. 15, NEW k \in 1 .. 15, IsName(r, k), IsName(q, j) PROVE r = q
    <3>1. Table[k][1] = Table[j][1]
      BY <1>1, <2>1, <2>6
    <3> QED
      BY <2>6, <3>1, Rows
  <2> QED
    BY <2>4, <2>5, <2>6
<1> QED
  BY <1>1, EachRule DEF Proper

\* Fewer rules are proper, too.
LEMMA Fewer ==
  ASSUME NEW R, NEW S, Proper(R), S \subseteq R
  PROVE  Proper(S)
BY DEF Proper

\* What the patterns find is what the rules find.
LEMMA FoundAlike ==
  ASSUME NEW s \in T, NEW i \in DOMAIN s
  PROVE  /\ FoundBy(Decimals, s)[i] = DecimalAt(s, i)
         /\ FoundBy(Hexes, s)[i] = HexAt(s, i)
         /\ \A k \in 1 .. 15 : FoundBy({Name(k)}, s)[i] = NamedAt(Table[k], s, i)
         /\ FoundBy(UpTo(15), s)[i] = AnyAt(s, i)
<1> DEFINE Found(R) == {Match(Entity(r), r.by) : r \in {r \in R : At(s, i, Entity(r))}}
<1>0. \A R : FoundBy(R, s)[i] = Found(R)
  BY DEF FoundBy
<1>1. Found(Decimals) = DecimalAt(s, i)
  <2>1. \A d \in DOMAIN DecimalChar :
          LET r == Rule(<<"#", d, Semicolon>>, DecimalChar[d]) IN
          Entity(r) = <<"&", "#", d, Semicolon>> /\ r.by = DecimalChar[d]
    BY SpelledDecimal DEF Entity, Rule
  <2> QED
    BY <2>1 DEF Decimals, DecimalAt
<1>2. Found(Hexes) = HexAt(s, i)
  <2>1. \A x \in {"x", "X"}, h \in DOMAIN HexChar :
          LET r == Rule(<<"#", x, h, Semicolon>>, HexChar[h]) IN
          Entity(r) = <<"&", "#", x, h, Semicolon>> /\ r.by = HexChar[h]
    <3> SUFFICES ASSUME NEW x \in {"x", "X"}, NEW h \in DOMAIN HexChar
                 PROVE  LET r == Rule(<<"#", x, h, Semicolon>>, HexChar[h]) IN
                        Entity(r) = <<"&", "#", x, h, Semicolon>> /\ r.by = HexChar[h]
      OBVIOUS
    <3>1. <<"&">> \o <<"#", x, h, Semicolon>> = <<"&", "#", x, h, Semicolon>>
      BY SpelledHex
    <3> QED
      BY <3>1 DEF Entity, Rule
  <2>2. \A x, y, h : Match(<<"&", "#", x, h, Semicolon>>, HexChar[h])
                       = Match(<<"&", "#", y, h, Semicolon>>, HexChar[h])
    BY DEF Match
  <2>3. ASSUME NEW m \in Found(Hexes) PROVE m \in HexAt(s, i)
    <3>1. PICK x \in {"x", "X"}, h \in DOMAIN HexChar :
            LET r == Rule(<<"#", x, h, Semicolon>>, HexChar[h]) IN
            At(s, i, Entity(r)) /\ m = Match(Entity(r), r.by)
      BY <2>3, SMTT(30) DEF Hexes
    <3>2. At(s, i, <<"&", "#", x, h, Semicolon>>) /\ m = Match(<<"&", "#", x, h, Semicolon>>, HexChar[h])
      BY <2>1, <3>1
    <3>3. m = Match(<<"&", "#", "x", h, Semicolon>>, HexChar[h])
      BY <2>2, <3>2
    <3> QED
      BY <3>2, <3>3 DEF HexAt
  <2>4. ASSUME NEW m \in HexAt(s, i) PROVE m \in Found(Hexes)
    <3>1. PICK x \in {"x", "X"}, h \in DOMAIN HexChar :
            /\ At(s, i, <<"&", "#", x, h, Semicolon>>)
            /\ m = Match(<<"&", "#", "x", h, Semicolon>>, HexChar[h])
      BY <2>4 DEF HexAt
    <3> DEFINE r == Rule(<<"#", x, h, Semicolon>>, HexChar[h])
    <3>2. r \in Hexes
      BY DEF Hexes
    <3>3. At(s, i, Entity(r)) /\ m = Match(Entity(r), r.by)
      BY <2>1, <2>2, <3>1
    <3> HIDE DEF r
    <3> QED
      BY <3>2, <3>3
  <2> HIDE DEF Found
  <2> QED
    BY <2>3, <2>4
<1>3. ASSUME NEW k \in 1 .. 15 PROVE Found({Name(k)}) = NamedAt(Table[k], s, i)
  <2>1. Entity(Name(k)) = <<"&", Table[k][1], Semicolon>> /\ Name(k).by = <<Table[k][2]>>
    BY SpelledName DEF Entity, Rule, Name
  <2> QED
    BY <2>1 DEF NamedAt
<1>4. Found(UpTo(15)) = AnyAt(s, i)
  <2>1. NamesAt(s, i) = UNION {NamedAt(Table[k], s, i) : k \in 1 .. 15}
    BY Rows DEF NamesAt
  <2>2. Found({Name(j) : j \in 1 .. 15}) = UNION {Found({Name(k)}) : k \in 1 .. 15}
    OBVIOUS
  <2>3. UNION {Found({Name(k)}) : k \in 1 .. 15} = UNION {NamedAt(Table[k], s, i) : k \in 1 .. 15}
    <3> HIDE DEF Found
    <3> QED
      BY <1>3
  <2> DEFINE N == {Name(j) : j \in 1 .. 15}
  <2>4. UpTo(15) = (Decimals \cup Hexes) \cup N
    BY DEF UpTo
  <2> HIDE DEF N
  <2>5. Found(UpTo(15)) = (Found(Decimals) \cup Found(Hexes)) \cup Found(N)
    BY <2>4
  <2> HIDE DEF Found
  <2> QED
    BY <1>1, <1>2, <2>1, <2>2, <2>3, <2>5 DEF AnyAt, N
<1> QED
  BY <1>0, <1>1, <1>2, <1>3, <1>4

\* Each pass of the decoder, and the one pass for all kinds, are such passes.
LEMMA PassesAlike ==
  ASSUME NEW s \in T
  PROVE  /\ DecodeDecimal(s) = Replace(Decimals, s) /\ DecodeHex(s) = Replace(Hexes, s)
         /\ \A k \in 1 .. 15 : ReplaceNamed(Table[k], s) = Replace({Name(k)}, s)
         /\ DecodeOnce(s) = Replace(UpTo(15), s)
<1>1. \A R : FoundBy(R, s) = [i \in DOMAIN s |-> FoundBy(R, s)[i]]
  BY DEF FoundBy
<1>2. [i \in DOMAIN s |-> FoundBy(Decimals, s)[i]] = [i \in DOMAIN s |-> DecimalAt(s, i)]
  BY FoundAlike
<1>3. [i \in DOMAIN s |-> FoundBy(Hexes, s)[i]] = [i \in DOMAIN s |-> HexAt(s, i)]
  BY FoundAlike
<1>4. ASSUME NEW k \in 1 .. 15
      PROVE  [i \in DOMAIN s |-> FoundBy({Name(k)}, s)[i]] = [i \in DOMAIN s |-> NamedAt(Table[k], s, i)]
  BY FoundAlike
<1>5. [i \in DOMAIN s |-> FoundBy(UpTo(15), s)[i]] = [i \in DOMAIN s |-> AnyAt(s, i)]
  BY FoundAlike
<1>6. DecodeDecimal(s) = Replace(Decimals, s) /\ DecodeHex(s) = Replace(Hexes, s)
  BY <1>1, <1>2, <1>3 DEF DecodeDecimal, DecodeHex, Replace
<1>7. \A k \in 1 .. 15 : ReplaceNamed(Table[k], s) = Replace({Name(k)}, s)
  BY <1>1, <1>4 DEF ReplaceNamed, Replace
<1>8. DecodeOnce(s) = Replace(UpTo(15), s)
  BY <1>1, <1>5 DEF DecodeOnce, Replace
<1> QED
  BY <1>6, <1>7, <1>8

\* The rules of pass k, and those of the passes before it.
Own(k)     == IF k = 0 THEN Hexes ELSE {Name(k)}
Earlier(k) == IF k = 0 THEN Decimals ELSE UpTo(k - 1)

\* They are other rules, and all are proper.
LEMMA OwnApart ==
  ASSUME NEW k \in 0 .. 15
  PROVE  /\ Own(k) \subseteq UpTo(15) /\ Earlier(k) \subseteq UpTo(15)
         /\ Own(k) \cap Earlier(k) = {} /\ Own(k) \cup Earlier(k) = UpTo(k)
<1>1. /\ \A d, c : Len(Rule(<<"#", d, Semicolon>>, c).rest) = 3
      /\ \A x, h, c : Len(Rule(<<"#", x, h, Semicolon>>, c).rest) = 4
      /\ \A j : Len(Name(j).rest) = 2 /\ Name(j).rest[1] = Table[j][1]
  BY DEF Rule, Name
<1>2. (\A r \in Decimals : Len(r.rest) = 3) /\ (\A r \in Hexes : Len(r.rest) = 4)
  <2>1. ASSUME NEW r \in Decimals PROVE Len(r.rest) = 3
    <3>1. PICK d \in DOMAIN DecimalChar : r = Rule(<<"#", d, Semicolon>>, DecimalChar[d])
      BY DEF Decimals
    <3> QED
      BY <1>1, <3>1
  <2>2. ASSUME NEW r \in Hexes PROVE Len(r.rest) = 4
    <3>1. PICK x \in {"x", "X"}, h \in DOMAIN HexChar : r = Rule(<<"#", x, h, Semicolon>>, HexChar[h])
      BY DEF Hexes
    <3> QED
      BY <1>1, <3>1
  <2> QED
    BY <2>1, <2>2
<1>3. CASE k = 0
  <2>1. Own(k) = Hexes /\ Earlier(k) = Decimals /\ UpTo(k) = Decimals \cup Hexes
    BY <1>3 DEF Own, Earlier, UpTo
  <2> QED
    BY <1>2, <2>1 DEF UpTo
<1>4. CASE k # 0
  <2>1. k \in 1 .. 15 /\ 1 .. k = (1 .. k - 1) \cup {k} /\ k \notin 1 .. k - 1 /\ 1 .. k - 1 \subseteq 1 .. 15
    BY <1>4
  <2>2. Own(k) = {Name(k)} /\ Earlier(k) = UpTo(k - 1)
    BY <1>4 DEF Own, Earlier
  <2>3. {Name(j) : j \in 1 .. k} = {Name(j) : j \in 1 .. k - 1} \cup {Name(k)}
    BY <2>1
  <2>4. Own(k) \cup Earlier(k) = UpTo(k)
    BY <2>2, <2>3 DEF UpTo
  <2>5. \A j \in 1 .. k - 1 : Name(j) # Name(k)
    <3> SUFFICES ASSUME NEW j \in 1 .. k - 1, Name(j) = Name(k) PROVE FALSE
      OBVIOUS
    <3>1. Table[j][1] = Table[k][1]
      BY <1>1
    <3>2. j \in 1 .. 15 /\ j # k
      BY <2>1
    <3> QED
      BY <2>1, <3>1, <3>2, Rows
  <2>6. Name(k) \notin Decimals \cup Hexes
    BY <1>1, <1>2
  <2>7. Own(k) \cap Earlier(k) = {}
    BY <2>2, <2>5, <2>6 DEF UpTo
  <2>8. Own(k) \subseteq UpTo(15) /\ Earlier(k) \subseteq UpTo(15)
    BY <2>1, <2>2 DEF UpTo
  <2> QED
    BY <2>4, <2>7, <2>8
<1> QED
  BY <1>3, <1>4

\* What each rule puts in is a token, or nothing.
LEMMA AllSmall ==
  ASSUME NEW R, R \subseteq UpTo(15)
  PROVE  Small(R)
<1> SUFFICES ASSUME NEW r \in UpTo(15) PROVE r.by = <<>> \/ \E c \in Tokens : r.by = <<c>>
  BY DEF Small
<1>1. CASE r \in Decimals \cup Hexes
  <2>1. r.by \in {DecimalChar[d] : d \in DOMAIN DecimalChar} \cup {HexChar[h] : h \in DOMAIN HexChar}
    <3>1. CASE r \in Decimals
      BY <3>1 DEF Decimals, Rule
    <3>2. CASE r \in Hexes
      BY <3>2 DEF Hexes, Rule
    <3> QED
      BY <1>1, <3>1, <3>2
  <2> QED
    BY <2>1, NumberChars
<1>2. ASSUME NEW k \in 1 .. 15, r = Name(k) PROVE \E c \in Tokens : r.by = <<c>>
  <2>1. r.by = <<Table[k][2]>> /\ Table[k][2] \in Chars
    BY <1>2, Rows DEF Name, Rule
  <2> QED
    BY <2>1, EntityAssumption
<1> QED
  BY <1>1, <1>2 DEF UpTo

\* What the passes before pass k find, and what pass k looks for.
LEMMA EarlierAlike ==
  ASSUME NEW s \in T, NEW k \in 0 .. 15
  PROVE  /\ [i \in DOMAIN s |-> EarlierAt(k, s, i)] = FoundBy(Earlier(k), s)
         /\ Wanted(k) = {Entity(q) : q \in Own(k)}
<1>1. Wanted(k) = {Entity(q) : q \in Own(k)}
  <2>1. CASE k = 0
    <3>1. \A x, h : Entity(Rule(<<"#", x, h, Semicolon>>, HexChar[h])) = <<"&", "#", x, h, Semicolon>>
      BY SpelledHex DEF Entity, Rule
    <3>2. Wanted(k) = {<<"&", "#", x, h, Semicolon>> : x \in {"x", "X"}, h \in DOMAIN HexChar}
      BY <2>1 DEF Wanted
    <3>3. Own(k) = Hexes
      BY <2>1 DEF Own
    <3>4. ASSUME NEW e \in Wanted(k) PROVE \E q \in Hexes : e = Entity(q)
      <4>1. PICK x \in {"x", "X"}, h \in DOMAIN HexChar : e = <<"&", "#", x, h, Semicolon>>
        BY <3>2
      <4> DEFINE q == Rule(<<"#", x, h, Semicolon>>, HexChar[h])
      <4>2. q \in Hexes
        BY DEF Hexes
      <4>3. e = Entity(q)
        BY <3>1, <4>1
      <4> HIDE DEF q
      <4> QED
        BY <4>2, <4>3
    <3>5. ASSUME NEW q \in Hexes PROVE Entity(q) \in Wanted(k)
      <4>1. PICK x \in {"x", "X"}, h \in DOMAIN HexChar : q = Rule(<<"#", x, h, Semicolon>>, HexChar[h])
        BY DEF Hexes
      <4>2. Entity(q) = <<"&", "#", x, h, Semicolon>>
        BY <3>1, <4>1
      <4> QED
        BY <3>2, <4>2
    <3> QED
      BY <3>3, <3>4, <3>5
  <2>2. CASE k # 0
    <3>1. Entity(Name(k)) = <<"&", Table[k][1], Semicolon>>
      BY SpelledName DEF Entity, Rule, Name
    <3>2. Wanted(k) = {<<"&", Table[k][1], Semicolon>>} /\ Own(k) = {Name(k)}
      BY <2>2 DEF Wanted, Own
    <3> QED
      BY <3>1, <3>2
  <2> QED
    BY <2>1, <2>2
<1>2. ASSUME NEW i \in DOMAIN s PROVE EarlierAt(k, s, i) = FoundBy(Earlier(k), s)[i]
  <2>1. /\ FoundBy(Decimals, s)[i] = DecimalAt(s, i) /\ FoundBy(Hexes, s)[i] = HexAt(s, i)
        /\ \A j \in 1 .. 15 : FoundBy({Name(j)}, s)[i] = NamedAt(Table[j], s, i)
    BY FoundAlike
  <2>2. CASE k = 0
    BY <2>1, <2>2 DEF EarlierAt, Earlier
  <2>3. CASE k # 0
    <3> DEFINE Found(R) == {Match(Entity(r), r.by) : r \in {r \in R : At(s, i, Entity(r))}}
               N == {Name(j) : j \in 1 .. k - 1}
    <3>1. \A R : FoundBy(R, s)[i] = Found(R)
      BY DEF FoundBy
    <3>2. Found({Name(j) : j \in 1 .. k - 1}) = UNION {Found({Name(j)}) : j \in 1 .. k - 1}
      OBVIOUS
    <3>3. \A j \in 1 .. k - 1 : j \in 1 .. 15
      OBVIOUS
    <3>4. Found(N) = UNION {NamedAt(Table[j], s, i) : j \in 1 .. k - 1}
      <4>1. UNION {Found({Name(j)}) : j \in 1 .. k - 1} = UNION {NamedAt(Table[j], s, i) : j \in 1 .. k - 1}
        <5> HIDE DEF Found
        <5> QED
          BY <2>1, <3>1, <3>3
      <4> QED
        BY <3>2, <4>1
    <3>5. Earlier(k) = (Decimals \cup Hexes) \cup N
      BY <2>3 DEF Earlier, UpTo
    <3> HIDE DEF N
    <3>6. Found(Earlier(k)) = (Found(Decimals) \cup Found(Hexes)) \cup Found(N)
      BY <3>5
    <3>7. EarlierAt(k, s, i) = DecimalAt(s, i) \cup (HexAt(s, i) \cup UNION {NamedAt(Table[j], s, i) : j \in 1 .. k - 1})
      BY <2>3 DEF EarlierAt
    <3> HIDE DEF Found
    <3> QED
      BY <2>1, <3>1, <3>4, <3>6, <3>7
  <2> QED
    BY <2>2, <2>3
<1>3. FoundBy(Earlier(k), s) = [i \in DOMAIN s |-> FoundBy(Earlier(k), s)[i]]
  BY DEF FoundBy
<1> QED
  BY <1>1, <1>2, <1>3

\* The rest of a text, cut out.
LEMMA RestCut ==
  ASSUME NEW p \in T, NEW u \in T, u # <<>>
  PROVE  SubSeq(p \o u, Len(p) + 1, Len(p \o u)) = u
<1>1. Begins(u, u)
  BY LenProperties DEF Begins, T
<1>2. At(p \o u, Len(p) + 1, u)
  BY <1>1, AtBegins
<1>3. Len(p \o u) = Len(p) + Len(u) /\ Len(p) \in Nat /\ Len(u) \in Nat
  BY Together
<1>4. Len(p) + 1 + Len(u) - 1 = Len(p \o u)
  BY <1>3
<1> QED
  BY <1>2, <1>4 DEF At

\* A text that is not decoded twice is quiet in each pass.
LEMMA NotTwiceQuiet ==
  ASSUME NEW s \in T, ~Twice(s), NEW k \in 0 .. 15
  PROVE  Quiet(Earlier(k), Own(k), s)
<1> DEFINE A == Earlier(k)
           B == Own(k)
<1>0. Proper(A) /\ Proper(B)
  BY OwnApart, AllProper, Fewer
<1> SUFFICES ASSUME NEW p \in T, NEW u \in T, NEW q \in B, s = p \o u, Begins(Replace(A, u), Entity(q))
             PROVE  Begins(u, Entity(q)) \/ \E r \in A : r.by = <<>> /\ Begins(u, Entity(r))
  BY DEF Quiet
<1> HIDE DEF A, B
<1> DEFINE i == Len(p) + 1
<1>1. /\ Entity(q) \in T /\ Entity(q) # <<>> /\ Len(Entity(q)) \in Nat \ {0} /\ Entity(q)[1] = "&"
  <2>1. Entity(q) \in T /\ Entity(q) # <<>> /\ Entity(q)[1] = "&"
    BY <1>0, EntityTokens
  <2> QED
    BY <2>1, EmptySeq, LenProperties DEF T
<1>2. Replace(A, u) \in T
  BY <1>0, ReplaceType
<1>3. u # <<>>
  <2> SUFFICES ASSUME u = <<>> PROVE FALSE
    OBVIOUS
  <2>1. Replace(A, u) = <<>> /\ Len(<<>>) = 0
    BY <1>0, ReplaceNothing
  <2> QED
    BY <1>1, <2>1 DEF Begins
<1>4. \A v \in T, e \in T : e # <<>> => (At(v, 1, e) <=> Begins(v, e))
  <2> SUFFICES ASSUME NEW v \in T, NEW e \in T, e # <<>> PROVE At(v, 1, e) <=> Begins(v, e)
    OBVIOUS
  <2>1. <<>> \in T /\ Len(<<>>) + 1 = 1 /\ <<>> \o v = v
    BY EmptySeq, ConcatEmptySeq DEF T
  <2>2. At(<<>> \o v, Len(<<>>) + 1, e) <=> Begins(v, e)
    BY <2>1, AtBegins
  <2> QED
    BY <2>1, <2>2
<1>5. i \in DOMAIN s /\ SubSeq(s, i, Len(s)) = u /\ s[i] = u[1]
  <2>1. /\ Len(s) = Len(p) + Len(u) /\ Len(p) \in Nat /\ Len(u) \in Nat
        /\ \A j \in 1 .. Len(u) : s[Len(p) + j] = u[j]
    BY Together
  <2>2. Len(u) # 0
    BY <1>3, EmptySeq DEF T
  <2>3. DOMAIN s = 1 .. Len(s)
    BY LenProperties DEF T
  <2>4. 1 \in 1 .. Len(u) /\ i \in 1 .. Len(s)
    BY <2>1, <2>2
  <2>5. SubSeq(s, i, Len(s)) = u
    BY <1>3, RestCut
  <2> QED
    BY <2>1, <2>3, <2>4, <2>5
<1>6. PICK c \in Tokens, z \in T : u = <<c>> \o z
  BY <1>3, FirstApart
<1>7. u[1] = c
  <2>1. (<<c>> \o z)[1] = c
    BY Longer
  <2> QED
    BY <1>6, <2>1
<1> HIDE DEF i
<1>8. CASE c # "&"
  <2>1. \A r \in A : ~Begins(<<c>> \o z, Entity(r))
    BY <1>0, <1>8, EntityBegins
  <2>2. Replace(A, u) = <<c>> \o Replace(A, z) /\ Replace(A, z) \in T
    BY <1>0, <1>6, <2>1, ReplaceToken, ReplaceType
  <2>3. Begins(<<c>> \o Replace(A, z), Entity(q))
    BY <2>2
  <2> QED
    BY <1>0, <1>8, <2>2, <2>3, EntityBegins
<1>9. CASE c = "&"
  <2> DEFINE found == [j \in DOMAIN u |-> EarlierAt(k, u, j)]
             made == ReplaceEach(u, found)
  <2>1. found = FoundBy(A, u) /\ made = Replace(A, u) /\ Entity(q) \in Wanted(k)
    BY EarlierAlike, ZenonT(30) DEF Replace, A, B
  <2>2. k \in 0 .. Len(Table)
    BY Rows
  <2>3. i \in {j \in DOMAIN s : s[j] = "&"}
    BY <1>5, <1>7, <1>9
  <2>4. ~( /\ \A m \in found[1] : m.by # <<>>
           /\ \E entity \in Wanted(k) : ~At(u, 1, entity) /\ At(made, 1, entity))
    BY <1>5, <2>2, <2>3 DEF Twice
  <2> HIDE DEF found, made
  <2>5. At(made, 1, Entity(q))
    BY <1>1, <1>2, <1>4, <2>1
  <2>6. CASE At(u, 1, Entity(q))
    BY <1>1, <1>4, <2>6
  <2>7. ASSUME NEW m \in found[1], m.by = <<>> PROVE \E r \in A : r.by = <<>> /\ Begins(u, Entity(r))
    <3>1. 1 \in DOMAIN u
      <4>1. Len(u) \in Nat /\ Len(u) # 0 /\ DOMAIN u = 1 .. Len(u)
        BY <1>3, EmptySeq, LenProperties DEF T
      <4> QED
        BY <4>1
    <3>2. PICK r \in A : At(u, 1, Entity(r)) /\ m = Match(Entity(r), r.by)
      BY <2>1, <2>7, <3>1 DEF FoundBy
    <3>3. r.by = <<>>
      BY <2>7, <3>2 DEF Match
    <3>4. Entity(r) \in T /\ Entity(r) # <<>>
      BY <1>0, EntityTokens
    <3> QED
      BY <1>4, <3>2, <3>3, <3>4
  <2> QED
    BY <2>1, <2>4, <2>5, <2>6, <2>7
<1> QED
  BY <1>8, <1>9

\* Pass by pass, all that came so far is one pass with the rules of all of them.
LEMMA SoFar ==
  ASSUME NEW s \in T, ~Twice(s), NEW k \in 0 .. 15
  PROVE  /\ Replace(Earlier(k), s) \in T
         /\ Replace(Own(k), Replace(Earlier(k), s)) = Replace(UpTo(k), s)
<1> DEFINE A == Earlier(k)
           B == Own(k)
<1>1. A \cap B = {} /\ A \cup B = UpTo(k) /\ A \subseteq UpTo(15) /\ B \subseteq UpTo(15)
  BY OwnApart
<1>2. A \cup B \subseteq UpTo(15)
  BY <1>1
<1>3. Quiet(A, B, s)
  BY NotTwiceQuiet
<1> HIDE DEF A, B
<1>4. Proper(A) /\ Proper(B) /\ Proper(A \cup B) /\ Small(A)
  BY <1>1, <1>2, AllProper, Fewer, AllSmall
<1>5. Replace(B, Replace(A, s)) = Replace(A \cup B, s) /\ Replace(A, s) \in T
  BY <1>1, <1>3, <1>4, TwoPasses, ReplaceType
<1> QED
  BY <1>1, <1>5 DEF A, B

\* The two passes for numbers are one.
LEMMA FirstPasses ==
  ASSUME NEW s \in T, ~Twice(s)
  PROVE  DecodeHex(DecodeDecimal(s)) = Replace(UpTo(0), s)
<1>1. Earlier(0) = Decimals /\ Own(0) = Hexes /\ 0 \in 0 .. 15
  BY DEF Earlier, Own
<1>2. Replace(Decimals, s) \in T /\ Replace(Hexes, Replace(Decimals, s)) = Replace(UpTo(0), s)
  BY <1>1, SoFar
<1> QED
  BY <1>2, PassesAlike

\* What the next row of the table adds is one rule more.
LEMMA NextPass ==
  ASSUME NEW s \in T, ~Twice(s), NEW k \in 1 .. 15
  PROVE  ReplaceNamed(Table[k], Replace(UpTo(k - 1), s)) = Replace(UpTo(k), s)
<1>1. Earlier(k) = UpTo(k - 1) /\ Own(k) = {Name(k)} /\ k \in 0 .. 15
  BY DEF Earlier, Own
<1>2. /\ Replace(UpTo(k - 1), s) \in T
      /\ Replace({Name(k)}, Replace(UpTo(k - 1), s)) = Replace(UpTo(k), s)
  BY <1>1, SoFar
<1> QED
  BY <1>2, PassesAlike

\* All rows are one pass with the rules of all, on what the numbers have left.
LEMMA AllPasses ==
  ASSUME NEW s \in T, ~Twice(s)
  PROVE  DecodeNamed(Replace(UpTo(0), s)) = Replace(UpTo(15), s)
<1> DEFINE t == Replace(UpTo(0), s)
           h == [k \in 0 .. 15 |-> Replace(UpTo(k), s)]
           pass == CHOOSE f : f = [k \in 0 .. Len(Table) |->
                                     IF k = 0 THEN t ELSE ReplaceNamed(Table[k], f[k - 1])]
<1>1. Len(Table) = 15
  BY Rows
<1>2. h = [k \in 0 .. 15 |-> IF k = 0 THEN t ELSE ReplaceNamed(Table[k], h[k - 1])]
  <2>1. ASSUME NEW k \in 0 .. 15
        PROVE  Replace(UpTo(k), s) = IF k = 0 THEN t ELSE ReplaceNamed(Table[k], h[k - 1])
    <3>1. CASE k = 0
      BY <3>1
    <3>2. CASE k # 0
      <4>1. k \in 1 .. 15 /\ k - 1 \in 0 .. 15
        BY <3>2
      <4>2. h[k - 1] = Replace(UpTo(k - 1), s)
        BY <4>1
      <4> QED
        BY <3>2, <4>1, <4>2, NextPass
    <3> QED
      BY <3>1, <3>2
  <2> QED
    BY <2>1
<1> HIDE DEF h, t
<1>3. pass = [k \in 0 .. 15 |-> IF k = 0 THEN t ELSE ReplaceNamed(Table[k], pass[k - 1])]
  BY <1>1, <1>2, ZenonT(30)
<1> HIDE DEF pass
<1>4. pass[15] = h[15]
  <2> DEFINE Bad == {k \in 0 .. 15 : pass[k] # h[k]}
  <2> SUFFICES ASSUME Bad # {} PROVE FALSE
    OBVIOUS
  <2>1. PICK k \in Bad : \A j \in Bad : k <= j
    <3>1. Bad \in SUBSET Nat
      OBVIOUS
    <3> HIDE DEF Bad
    <3> QED
      BY <3>1, Least
  <2>2. k \in 0 .. 15 /\ pass[k] # h[k]
    OBVIOUS
  <2>3. pass[k] = IF k = 0 THEN t ELSE ReplaceNamed(Table[k], pass[k - 1])
    BY <1>3, <2>2
  <2>4. h[k] = IF k = 0 THEN t ELSE ReplaceNamed(Table[k], h[k - 1])
    BY <1>2, <2>2
  <2>5. k # 0
    BY <2>2, <2>3, <2>4
  <2>6. k - 1 \notin Bad /\ k - 1 \in 0 .. 15
    BY <2>1, <2>2, <2>5
  <2>7. pass[k - 1] = h[k - 1]
    BY <2>6
  <2> QED
    BY <2>2, <2>3, <2>4, <2>7
<1>5. DecodeNamed(t) = pass[15]
  BY <1>1 DEF DecodeNamed, pass
<1> QED
  BY <1>4, <1>5 DEF h, t

-----------------------------------------------------------------------------

\* The passes of the decoder, for any text, decode nothing twice but what an earlier
\* one makes for a later one (the replace_all() and replace() calls that
\* decode_html_entities makes one after the other).
THEOREM TextsDecodedOnce ==
  ASSUME text \in Seq(Tokens)
  PROVE  ~Twice(text) => Decode(text) = DecodeOnce(text)
<1> SUFFICES ASSUME ~Twice(text) PROVE Decode(text) = DecodeOnce(text)
  OBVIOUS
<1>1. text \in T
  BY DEF T
<1>2. DecodeHex(DecodeDecimal(text)) = Replace(UpTo(0), text)
  BY <1>1, FirstPasses
<1>3. DecodeNamed(Replace(UpTo(0), text)) = Replace(UpTo(15), text)
  BY <1>1, AllPasses
<1>4. DecodeOnce(text) = Replace(UpTo(15), text)
  BY <1>1, PassesAlike
<1> QED
  BY <1>2, <1>3, <1>4 DEF Decode
=============================================================================
