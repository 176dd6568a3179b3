----------------------------- MODULE Canonical -----------------------------
(***************************************************************************)
(* The byte forms that an agent signs (src/crypto.rs) and the frames they  *)
(* go out with (src/identity.rs): results, bound to the query and to the   *)
(* time, and gossip posts.                                                 *)
(*                                                                         *)
(* A signature is the form it was made over, so that two things share a    *)
(* signature exactly when they share a form.  The clock runs on, or is set *)
(* back, between any two steps.                                            *)
(***************************************************************************)
EXTENDS Naturals, FiniteSets, SequencesExt

CONSTANTS
  Bytes, NUL, LF,     \* the bytes of texts; 0x00 and 0x0A are two of them
  Queries, Texts,     \* query strings, and strings in a result
  Objects,            \* JSON objects, by what they have as Fields
  Results,            \* what a handler returns: lists of Items, or NoArray
  Absent,             \* a field that is missing or is no string, or no object
  NoArray,            \* a result that is no list
  Times, Decimal,     \* milliseconds, and Decimal[t]: the digits of t
  Payloads, Digest,   \* gossip payloads, and Digest[p]: the SHA-256 of p
  Id,                 \* the agent's id
  MaxSigned           \* bounds the signatures

VARIABLES
  now,                \* the clock
  job,                \* the response in work: its query, its results, its time
  todo, body,         \* items not looked at yet, and the lines of the others
  sent, posted        \* signed results and gossip posts, as they were sent

work == <<job, todo, body>>
vars == <<now, work, sent, posted>>

-----------------------------------------------------------------------------
(* Items and forms.                                                        *)

Fields == {"url", "title", "label", "resume", "value", "description"}

\* An item that is no object is Absent, and so is `properties` that is none.
Items == [own : Objects, properties : Objects \cup {Absent}] \cup {Absent}

Shows == [u : Texts \cup {<<>>}, t : Texts \cup {<<>>}, r : Texts \cup {<<>>}]

ASSUME CanonicalAssumption ==
  /\ {NUL, LF} \subseteq Bytes /\ NUL # LF
  /\ Queries \cup Texts \subseteq Seq(Bytes) /\ Absent \notin Texts
  /\ Absent \notin [query : Queries, results : Results, ts : Times]
  /\ Objects \subseteq [Fields -> Texts \cup {Absent}]
  /\ Results \subseteq Seq(Items) \cup {NoArray} /\ NoArray \notin Seq(Items)

\* Decimals have no zero byte; digests are of one length and do not collide.
ASSUME FormAssumption ==
  /\ Decimal \in [Times -> Seq(Bytes \ {NUL})]
  /\ \A s, t \in Times : Decimal[s] = Decimal[t] => s = t
  /\ Id \in Seq(Bytes) /\ Digest \in [Payloads -> Seq(Bytes)]
  /\ \A p, q \in Payloads : /\ Len(Digest[p]) = Len(Digest[q])
                            /\ Digest[p] = Digest[q] => p = q

FirstString(object, keys) ==
  LET found == {i \in DOMAIN keys : object[keys[i]] # Absent}
  IN  IF found = {} THEN <<>> ELSE object[keys[Min(found)]]

Source(item) == IF item.properties # Absent THEN item.properties ELSE item.own

Show(item) ==
  IF item = Absent THEN [u |-> <<>>, t |-> <<>>, r |-> <<>>]
  ELSE [u |-> FirstString(Source(item), <<"url">>),
        t |-> FirstString(Source(item), <<"title", "label">>),
        r |-> FirstString(Source(item), <<"resume", "value", "description">>)]

\* Mutant: nothing is written between the second and the third field.
Line_NoSeparator(s) == s.u \o <<NUL>> \o s.t \o s.r \o <<LF>>

Line(s) == s.u \o <<NUL>> \o s.t \o <<NUL>> \o s.r \o <<LF>>

\* canonical_response_v2(), of a response whose lines are there.
Form(q, t, lines) == q \o <<NUL>> \o Decimal[t] \o <<NUL>> \o lines

\* Mutant: the time is not in the form.
GossipAuth_NoTime(t, p) == Id \o <<NUL>> \o Digest[p]

GossipAuth(t, p) == Id \o <<NUL>> \o Decimal[t] \o <<NUL>> \o Digest[p]

-----------------------------------------------------------------------------
Init ==
  /\ now \in Times /\ job = Absent
  /\ todo = <<>> /\ body = <<>>
  /\ sent = {} /\ posted = {}

\* Mutant: what is no list is looked at as one.
Array_AnyResult(r) == r

Array(r) == IF r = NoArray THEN <<>> ELSE r

MaySign == Cardinality(sent) + Cardinality(posted) < MaxSigned

SignResults(q, r) ==
  /\ job = Absent /\ MaySign
  /\ job' = [query |-> q, results |-> r, ts |-> now]
  /\ todo' = Array(r)
  /\ UNCHANGED <<now, body, sent, posted>>

AddLine ==
  /\ todo # <<>>
  /\ body' = body \o Line(Show(Head(todo))) /\ todo' = Tail(todo)
  /\ UNCHANGED <<now, job, sent, posted>>

\* Mutant: the clock is read again for the time that goes out.
SendResults_ClockAgain ==
  /\ job # Absent /\ todo = <<>>
  /\ sent' = sent \cup {[query |-> job.query, results |-> job.results, ts |-> now,
                         signature |-> Form(job.query, job.ts, body)]}
  /\ job' = Absent /\ body' = <<>>
  /\ UNCHANGED <<now, todo, posted>>

SendResults ==
  /\ job # Absent /\ todo = <<>>
  /\ sent' = sent \cup {[query |-> job.query, results |-> job.results, ts |-> job.ts,
                         signature |-> Form(job.query, job.ts, body)]}
  /\ job' = Absent /\ body' = <<>>
  /\ UNCHANGED <<now, todo, posted>>

PostGossip(p) ==
  /\ MaySign
  /\ posted' = posted \cup {[ts |-> now, payload |-> p, signature |-> GossipAuth(now, p)]}
  /\ UNCHANGED <<now, work, sent>>

Clock == now' \in Times /\ UNCHANGED <<work, sent, posted>>

Next ==
  \/ \E q \in Queries, r \in Results : SignResults(q, r)
  \/ AddLine \/ SendResults
  \/ \E p \in Payloads : PostGossip(p)
  \/ Clock

Spec == Init /\ [][Next]_vars

-----------------------------------------------------------------------------
(* Properties.                                                             *)

TypeOK ==
  /\ now \in Times
  /\ job \in [query : Queries, results : Results, ts : Times] \cup {Absent}
  /\ todo \in Seq(Items) /\ body \in Seq(Bytes)
  /\ sent \subseteq [query : Queries, ts : Times, results : Results, signature : Seq(Bytes)]
  /\ posted \subseteq [ts : Times, payload : Payloads, signature : Seq(Bytes)]

\* What the items of a result show, and the lines for it.
Showing(r)   == [i \in DOMAIN Array(r) |-> Show(Array(r)[i])]
Lines(shows) == FlattenSeq([i \in DOMAIN shows |-> Line(shows[i])])

\* Whoever knows the query, and has the time and the results as they were sent,
\* computes the form that was signed, however the clock went on meanwhile.
Verifies ==
  \A f \in sent : f.signature = Form(f.query, f.ts, Lines(Showing(f.results)))

Has(text, byte) == \E i \in DOMAIN text : text[i] = byte

\* Texts without a zero byte, and URLs on one line.
Clean(s) == \A k \in DOMAIN s : /\ ~Has(s[k].u, NUL) /\ ~Has(s[k].u, LF)
                                /\ ~Has(s[k].t, NUL) /\ ~Has(s[k].r, NUL)

\* A signature stands for one query, one time and one list of what the items
\* show, and can be taken for no other: no field can run into its neighbour,
\* be it a query of any bytes or a title with line breaks in it.
Binds ==
  \A f, g \in sent :
    f.signature = g.signature /\ Clean(Showing(f.results)) /\ Clean(Showing(g.results)) =>
      f.query = g.query /\ f.ts = g.ts /\ Showing(f.results) = Showing(g.results)

\* The signature of a gossip post stands for its time and payload and no other.
GossipBinds ==
  \A f, g \in posted : f.signature = g.signature => f.ts = g.ts /\ f.payload = g.payload
=============================================================================
