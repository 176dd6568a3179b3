------------------------- MODULE RelayClientProofs -------------------------
(***************************************************************************)
(* The safety of the relay client for every set of ids and bodies, every   *)
(* buffer size and any number of queries, faults and sessions.             *)
(*                                                                         *)
(* InOrder is not inductive: that a result answers the right query depends *)
(* on what is still in the inbox and on the frame the client works on.     *)
(* Inv follows each query from the relay through the inbox and the client  *)
(* to the outbox.                                                          *)
(***************************************************************************)
EXTENDS RelayClient, SequenceTheorems, TLAPS

Working == {"lock", "handle", "send"}
Outside == {"connect", "sleep", "dead"}

\* How many queries of the session the client has taken.
Sent  == IF greeted THEN Len(outbox) ELSE 0
Busy  == IF pc \in Working THEN 1 ELSE 0
Taken == Len(answers) + Sent + Busy

\* Before hello_ok nothing has been asked, and nothing says that it has.
Session ==
  /\ link = "none" <=> pc \in Outside
  /\ pc \in Outside => inbox = <<>> /\ outbox = <<>> /\ ~greeted
  /\ pc = "hello" => outbox = <<>> /\ ~greeted
  /\ pc \in Working \cup {"read"} => greeted
  /\ ~greeted => asked = <<>> /\ answers = <<>>
  /\ ~greeted => \A k \in DOMAIN inbox : inbox[k].action # "hello_ok"
  /\ \A k \in DOMAIN inbox : inbox[k].type = "close" => link = "cut"

\* The query the client works on is the last it took, and what the handler
\* returned was computed from it.
Work ==
  pc \in Working =>
    /\ cur \in Frames /\ IsQuery(cur)
    /\ Taken <= Len(asked)
    /\ asked[Taken] = [id |-> cur.id, body |-> cur.body]
    /\ pc = "send" => ret \in {Trim[Raw(cur.body)], NoItems, Null, Error}

\* The queries in the inbox are those asked after the last one taken, in order
\* and without a gap; as long as the connection is open, none is missing.
One(f) == IF IsQuery(f) THEN 1 ELSE 0

Chain(q, t, a) ==
  \A k \in DOMAIN q :
    /\ q[k].n <= Len(a)
    /\ q[k].n = One(q[k]) + (IF k = 1 THEN t ELSE q[k - 1].n)
    /\ IsQuery(q[k]) => a[q[k].n] = [id |-> q[k].id, body |-> q[k].body]

Newest(q, t) == IF q = <<>> THEN t ELSE q[Len(q)].n

Queued ==
  /\ Taken <= Len(asked)
  /\ Chain(inbox, Taken, asked)
  /\ link = "open" => Newest(inbox, Taken) = Len(asked)

Inv == TypeOK /\ LockScope /\ Session /\ Work /\ Queued /\ InOrder

-----------------------------------------------------------------------------
(* Chains: what reading, sending, losing and asking do to them.            *)

\* The empty sequence is the one of length zero.
LEMMA EmptyLen ==
  ASSUME NEW S, NEW s \in Seq(S)
  PROVE  Len(s) \in Nat /\ (s = <<>> <=> Len(s) = 0)
BY EmptySeq, LenProperties

\* Reading a frame leaves the chain of the frames behind it.
LEMMA ChainTail ==
  ASSUME NEW q \in Seq(Frames), NEW t \in Nat, NEW a \in Seq(Queries),
         Chain(q, t, a), q # <<>>
  PROVE  /\ Chain(Tail(q), q[1].n, a)
         /\ Newest(Tail(q), q[1].n) = Newest(q, t)
<1>1. /\ Tail(q) \in Seq(Frames) /\ Len(q) \in Nat \ {0} /\ Len(Tail(q)) = Len(q) - 1
      /\ \A k \in 1 .. Len(q) - 1 : Tail(q)[k] = q[k + 1]
  BY HeadTailProperties, LenProperties, EmptySeq
<1>2. DOMAIN q = 1 .. Len(q) /\ DOMAIN Tail(q) = 1 .. Len(q) - 1
  BY <1>1, LenProperties
<1>3. Chain(Tail(q), q[1].n, a)
  <2> SUFFICES ASSUME NEW k \in 1 .. Len(q) - 1
               PROVE  /\ q[k + 1].n <= Len(a)
                      /\ q[k + 1].n = One(q[k + 1]) + (IF k = 1 THEN q[1].n ELSE Tail(q)[k - 1].n)
                      /\ IsQuery(q[k + 1]) =>
                           a[q[k + 1].n] = [id |-> q[k + 1].id, body |-> q[k + 1].body]
    BY <1>1, <1>2 DEF Chain
  <2>1. k + 1 \in DOMAIN q /\ k + 1 # 1 /\ (k + 1) - 1 = k
    BY <1>1, <1>2
  <2>2. (IF k = 1 THEN q[1].n ELSE Tail(q)[k - 1].n) = q[k].n
    <3>1. CASE k = 1
      BY <3>1
    <3>2. CASE k # 1
      <4>1. k - 1 \in 1 .. Len(q) - 1 /\ (k - 1) + 1 = k
        BY <1>1, <3>2
      <4> QED
        BY <1>1, <3>2, <4>1
    <3> QED
      BY <3>1, <3>2
  <2>3. /\ q[k + 1].n <= Len(a)
        /\ q[k + 1].n = One(q[k + 1]) + q[(k + 1) - 1].n
        /\ IsQuery(q[k + 1]) =>
             a[q[k + 1].n] = [id |-> q[k + 1].id, body |-> q[k + 1].body]
    BY <2>1 DEF Chain
  <2> QED
    BY <2>1, <2>2, <2>3
<1>4. q # <<>> /\ (Tail(q) = <<>> <=> Len(Tail(q)) = 0)
  BY <1>1, EmptyLen
<1>5. Newest(Tail(q), q[1].n) = Newest(q, t)
  <2>1. CASE Len(q) = 1
    <3>1. Tail(q) = <<>> /\ q # <<>>
      BY <1>1, <1>4, <2>1
    <3> QED
      BY <2>1, <3>1 DEF Newest
  <2>2. CASE Len(q) # 1
    <3>1. Len(q) - 1 \in 1 .. Len(q) - 1 /\ (Len(q) - 1) + 1 = Len(q)
      BY <1>1, <2>2
    <3>2. Tail(q)[Len(q) - 1] = q[Len(q)]
      BY <1>1, <3>1
    <3> QED
      BY <1>1, <1>4, <2>2, <3>1, <3>2 DEF Newest
  <2> QED
    BY <2>1, <2>2
<1> QED
  BY <1>3, <1>5

\* A frame that is sent with the right number extends the chain.
LEMMA ChainAppend ==
  ASSUME NEW q \in Seq(Frames), NEW t \in Nat, NEW a \in Seq(Queries), NEW f \in Frames,
         Chain(q, t, a),
         f.n = One(f) + Newest(q, t), f.n <= Len(a),
         IsQuery(f) => a[f.n] = [id |-> f.id, body |-> f.body]
  PROVE  Chain(Append(q, f), t, a) /\ Newest(Append(q, f), t) = f.n
<1>1. /\ Len(q) \in Nat /\ DOMAIN q = 1 .. Len(q)
      /\ Append(q, f) \in Seq(Frames) /\ Append(q, f) # <<>>
      /\ Len(Append(q, f)) = Len(q) + 1
      /\ \A k \in 1 .. Len(q) : Append(q, f)[k] = q[k]
      /\ Append(q, f)[Len(q) + 1] = f
  BY AppendProperties, LenProperties
<1>2. DOMAIN Append(q, f) = 1 .. Len(q) + 1
  BY <1>1, LenProperties
<1>3. ASSUME NEW k \in 1 .. Len(q) + 1
      PROVE  LET e == Append(q, f) IN
             /\ e[k].n <= Len(a)
             /\ e[k].n = One(e[k]) + (IF k = 1 THEN t ELSE e[k - 1].n)
             /\ IsQuery(e[k]) => a[e[k].n] = [id |-> e[k].id, body |-> e[k].body]
  <2>1. CASE k \in 1 .. Len(q)
    <3>1. Append(q, f)[k] = q[k]
      BY <1>1, <2>1
    <3>2. k # 1 => k - 1 \in 1 .. Len(q)
      BY <1>1, <2>1
    <3>3. k # 1 => Append(q, f)[k - 1] = q[k - 1]
      BY <1>1, <3>2
    <3>4. /\ q[k].n <= Len(a)
          /\ q[k].n = One(q[k]) + (IF k = 1 THEN t ELSE q[k - 1].n)
          /\ IsQuery(q[k]) => a[q[k].n] = [id |-> q[k].id, body |-> q[k].body]
      BY <1>1, <2>1 DEF Chain
    <3> QED
      BY <3>1, <3>3, <3>4
  <2>2. CASE k = Len(q) + 1
    <3>1. Append(q, f)[k] = f
      BY <1>1, <2>2
    <3>2. k = 1 <=> q = <<>>
      BY <1>1, <2>2, EmptyLen
    <3>3. k - 1 = Len(q) /\ (k # 1 => Len(q) \in 1 .. Len(q))
      BY <1>1, <2>2
    <3>4. k # 1 => Append(q, f)[k - 1] = q[Len(q)]
      BY <1>1, <3>3
    <3> QED
      BY <3>1, <3>2, <3>3, <3>4 DEF Newest
  <2> QED
    BY <1>1, <2>1, <2>2
<1> QED
  BY <1>1, <1>2, <1>3 DEF Chain, Newest

\* Losing the frames that were sent last leaves a chain.
LEMMA ChainPrefix ==
  ASSUME NEW q \in Seq(Frames), NEW t \in Nat, NEW a \in Seq(Queries),
         Chain(q, t, a), NEW m \in 0 .. Len(q)
  PROVE  Chain(SubSeq(q, 1, m), t, a)
<1>1. /\ Len(q) \in Nat /\ DOMAIN q = 1 .. Len(q)
      /\ DOMAIN SubSeq(q, 1, m) = 1 .. m
      /\ \A k \in 1 .. m : SubSeq(q, 1, m)[k] = q[k]
  BY SubSeqProperties, LenProperties
<1>2. ASSUME NEW k \in 1 .. m
      PROVE  LET e == SubSeq(q, 1, m) IN
             /\ e[k].n <= Len(a)
             /\ e[k].n = One(e[k]) + (IF k = 1 THEN t ELSE e[k - 1].n)
             /\ IsQuery(e[k]) => a[e[k].n] = [id |-> e[k].id, body |-> e[k].body]
  <2>1. k \in DOMAIN q /\ (k # 1 => k - 1 \in 1 .. m)
    BY <1>1
  <2>2. SubSeq(q, 1, m)[k] = q[k] /\ (k # 1 => SubSeq(q, 1, m)[k - 1] = q[k - 1])
    BY <1>1, <2>1
  <2>3. /\ q[k].n <= Len(a)
        /\ q[k].n = One(q[k]) + (IF k = 1 THEN t ELSE q[k - 1].n)
        /\ IsQuery(q[k]) => a[q[k].n] = [id |-> q[k].id, body |-> q[k].body]
    BY <2>1 DEF Chain
  <2> QED
    BY <2>2, <2>3
<1> QED
  BY <1>1, <1>2 DEF Chain

\* Asking more changes nothing about what is on its way.
LEMMA ChainAsk ==
  ASSUME NEW q \in Seq(Frames), NEW t \in Nat, NEW a \in Seq(Queries), NEW x \in Queries, Chain(q, t, a)
  PROVE  Chain(q, t, Append(a, x))
<1>1. /\ Len(a) \in Nat /\ Len(Append(a, x)) = Len(a) + 1
      /\ \A k \in 1 .. Len(a) : Append(a, x)[k] = a[k]
  BY AppendProperties, LenProperties
<1>2. ASSUME NEW k \in DOMAIN q
      PROVE  /\ q[k].n <= Len(Append(a, x))
             /\ q[k].n = One(q[k]) + (IF k = 1 THEN t ELSE q[k - 1].n)
             /\ IsQuery(q[k]) => Append(a, x)[q[k].n] = [id |-> q[k].id, body |-> q[k].body]
  <2>1. /\ q[k].n <= Len(a)
        /\ q[k].n = One(q[k]) + (IF k = 1 THEN t ELSE q[k - 1].n)
        /\ IsQuery(q[k]) => a[q[k].n] = [id |-> q[k].id, body |-> q[k].body]
    BY DEF Chain
  <2>2. DOMAIN q = 1 .. Len(q) /\ Len(q) \in Nat
    BY LenProperties
  <2>3. q[k] \in Frames /\ (k # 1 => q[k - 1] \in Frames)
    BY <2>2, ElementOfSeq
  <2>4. q[k].n \in Nat /\ (k # 1 => q[k - 1].n \in Nat)
    BY <2>3 DEF Frames
  <2>5. IsQuery(q[k]) => q[k].n \in 1 .. Len(a)
    BY <1>1, <2>1, <2>4 DEF One
  <2> QED
    BY <1>1, <2>1, <2>4, <2>5
<1> QED
  BY <1>2 DEF Chain

-----------------------------------------------------------------------------
(* The inbox and the sequences of one element.                             *)

\* A sequence of one element, as the mutex and the outbox often are.
LEMMA Single ==
  ASSUME NEW x
  PROVE  Append(<<>>, x) = <<x>> /\ Tail(<<x>>) = <<>> /\ Head(<<x>>) = x /\ Len(<<x>>) = 1
OBVIOUS

\* A frame and its number can be told apart: numbering one leaves its fields.
LEMMA Numbered ==
  ASSUME NEW f \in Frames, NEW m \in Nat
  PROVE  LET g == [f EXCEPT !.n = m] IN
         /\ g \in Frames /\ g.n = m
         /\ g.type = f.type /\ g.action = f.action /\ g.id = f.id /\ g.body = f.body
         /\ IsQuery(g) <=> IsQuery(f)
BY DEF Frames, IsQuery

\* The head of the inbox carries the number after the last query taken, if it
\* is a query itself, and else the same number.
LEMMA Counts ==
  ASSUME Inv
  PROVE  /\ Len(answers) \in Nat /\ Len(outbox) \in Nat /\ Len(asked) \in Nat
         /\ Taken \in Nat
         /\ inbox # <<>> =>
              /\ Head(inbox) = inbox[1] /\ 1 \in DOMAIN inbox
              /\ inbox[1] \in Frames
              /\ inbox[1].n = Taken + One(inbox[1]) /\ inbox[1].n <= Len(asked)
              /\ IsQuery(inbox[1]) =>
                   asked[inbox[1].n] = [id |-> inbox[1].id, body |-> inbox[1].body]
<1>1. Len(answers) \in Nat /\ Len(outbox) \in Nat /\ Len(asked) \in Nat
  BY LenProperties DEF Inv, TypeOK
<1>2. Taken \in Nat
  <2>1. Sent \in Nat /\ Busy \in Nat
    BY <1>1 DEF Sent, Busy
  <2> QED
    BY <1>1, <2>1 DEF Taken
<1>3. ASSUME inbox # <<>>
      PROVE  Head(inbox) = inbox[1] /\ 1 \in DOMAIN inbox /\ inbox[1] \in Frames
  <2>1. inbox \in Seq(Frames)
    BY DEF Inv, TypeOK
  <2>2. 1 \in 1 .. Len(inbox) /\ DOMAIN inbox = 1 .. Len(inbox)
    BY <1>3, <2>1, EmptyLen, LenProperties
  <2> QED
    BY <2>1, <2>2, ElementOfSeq
<1>4. ASSUME inbox # <<>>
      PROVE  /\ inbox[1].n = One(inbox[1]) + Taken /\ inbox[1].n <= Len(asked)
             /\ IsQuery(inbox[1]) =>
                  asked[inbox[1].n] = [id |-> inbox[1].id, body |-> inbox[1].body]
  BY <1>3, <1>4 DEF Inv, Queued, Chain
<1> QED
  BY <1>1, <1>2, <1>3, <1>4 DEF One

\* The client reads a frame, and Taken counts it if it is a query.
LEMMA Reads ==
  ASSUME Inv, inbox # <<>>, inbox' = Tail(inbox), Taken' = inbox[1].n,
         UNCHANGED <<link, asked>>
  PROVE  /\ inbox' \in Seq(Frames) /\ Queued'
         /\ \A k \in DOMAIN inbox' : \E j \in DOMAIN inbox : inbox'[k] = inbox[j]
<1>1. /\ inbox \in Seq(Frames) /\ asked \in Seq(Queries) /\ Taken \in Nat
      /\ Chain(inbox, Taken, asked)
  BY Counts DEF Inv, TypeOK, Queued
<1>2. /\ Chain(inbox', Taken', asked')
      /\ Newest(inbox', Taken') = Newest(inbox, Taken)
  BY <1>1, ChainTail
<1>3. Taken' <= Len(asked')
  BY Counts
<1>4. Queued'
  BY <1>2, <1>3 DEF Inv, Queued
<1>5. /\ Tail(inbox) \in Seq(Frames)
      /\ DOMAIN Tail(inbox) = 1 .. Len(Tail(inbox))
      /\ Len(Tail(inbox)) = Len(inbox) - 1
      /\ \A k \in 1 .. Len(Tail(inbox)) : Tail(inbox)[k] = inbox[k + 1]
      /\ Len(inbox) \in Nat /\ DOMAIN inbox = 1 .. Len(inbox)
  BY <1>1, HeadTailProperties, LenProperties
<1> QED
  BY <1>4, <1>5

\* The relay sends a frame, and has asked one query more if it is a query.
LEMMA Sends ==
  ASSUME Inv, link = "open", NEW f \in Frames,
         inbox' = Append(inbox, f), Taken' = Taken,
         \/ ~IsQuery(f) /\ asked' = asked
         \/ IsQuery(f) /\ asked' = Append(asked, [id |-> f.id, body |-> f.body]),
         f.n = Len(asked')
  PROVE  /\ inbox' \in Seq(Frames) /\ asked' \in Seq(Queries) /\ Queued'
         /\ \A k \in DOMAIN inbox' : \/ inbox'[k] = f
                                     \/ \E j \in DOMAIN inbox : inbox'[k] = inbox[j]
<1>1. /\ inbox \in Seq(Frames) /\ asked \in Seq(Queries) /\ Taken \in Nat
      /\ Chain(inbox, Taken, asked) /\ Taken <= Len(asked) /\ Len(asked) \in Nat
      /\ Newest(inbox, Taken) = Len(asked)
  BY Counts DEF Inv, TypeOK, Queued
<1>2. /\ asked' \in Seq(Queries) /\ Chain(inbox, Taken, asked')
      /\ f.n = One(f) + Len(asked) /\ f.n <= Len(asked') /\ Taken <= Len(asked')
      /\ IsQuery(f) => asked'[f.n] = [id |-> f.id, body |-> f.body]
  <2>1. CASE ~IsQuery(f) /\ asked' = asked
    BY <1>1, <2>1 DEF One
  <2>2. CASE IsQuery(f) /\ asked' = Append(asked, [id |-> f.id, body |-> f.body])
    <3>1. [id |-> f.id, body |-> f.body] \in Queries
      BY <2>2 DEF Frames, IsQuery, Queries
    <3>2. /\ asked' \in Seq(Queries) /\ Len(asked') = Len(asked) + 1
          /\ asked'[Len(asked) + 1] = [id |-> f.id, body |-> f.body]
      BY <1>1, <2>2, <3>1, AppendProperties
    <3>3. Chain(inbox, Taken, asked')
      BY <1>1, <2>2, <3>1, ChainAsk
    <3> QED
      BY <1>1, <2>2, <3>2, <3>3 DEF One
  <2> QED
    BY <2>1, <2>2
<1>3. Chain(inbox', Taken', asked') /\ Newest(inbox', Taken') = f.n
  BY <1>1, <1>2, ChainAppend
<1>4. Queued'
  BY <1>2, <1>3 DEF Queued
<1>5. /\ inbox' \in Seq(Frames)
      /\ DOMAIN inbox' = 1 .. Len(inbox) + 1 /\ DOMAIN inbox = 1 .. Len(inbox)
      /\ \A k \in 1 .. Len(inbox) : inbox'[k] = inbox[k]
      /\ inbox'[Len(inbox) + 1] = f /\ Len(inbox) \in Nat
  BY <1>1, AppendProperties, LenProperties
<1> QED
  BY <1>2, <1>4, <1>5

\* The faults stay within their bound.
LEMMA Faulty == Inv /\ Fault => faults' \in 0 .. MaxFaults
BY RelayAssumption DEF Inv, TypeOK, Fault

\* Leaving a session leaves nothing of it behind.
LEMMA Leaves ==
  ASSUME Inv, NEW next \in Outside, LeaveSession(next), mutex' = <<>>, UNCHANGED faults
  PROVE  Inv'
<1> USE DEF LeaveSession, Outside
<1>1. TypeOK'
  <2>1. /\ <<>> \in Seq({"relay"}) /\ <<>> \in Seq(Frames) /\ <<>> \in Seq(Queries)
        /\ <<>> \in Seq({Hello} \cup AllAnswers) /\ <<>> \in Seq(AllAnswers)
    OBVIOUS
  <2> QED
    BY <2>1 DEF Inv, TypeOK
<1>2. LockScope'
  BY DEF LockScope
<1>3. Session' /\ Work'
  BY DEF Session, Work, Working
<1>4. Queued'
  BY DEF Queued, Taken, Sent, Busy, Chain, Newest, Working
<1>5. InOrder'
  BY DEF InOrder
<1> QED
  BY <1>1, <1>2, <1>3, <1>4, <1>5 DEF Inv

-----------------------------------------------------------------------------
(* Every step of the client keeps the invariant.                           *)

\* A new session starts with nothing asked, queued or answered.
LEMMA ConnectedStep == Inv /\ Connected => Inv'
<1> SUFFICES ASSUME Inv, Connected PROVE Inv'
  OBVIOUS
<1>1. /\ pc = "connect" /\ pc' = "hello" /\ link' = "open" /\ mutex = <<>>
      /\ inbox = <<>> /\ outbox = <<>> /\ ~greeted /\ asked = <<>> /\ answers = <<>>
      /\ UNCHANGED <<cur, ret, mutex, inbox, outbox, greeted, asked, answers, faults>>
  BY DEF Connected, relayVars, Inv, Session, Outside, LockScope
<1>2. TypeOK' /\ LockScope' /\ Session' /\ Work' /\ InOrder'
  BY <1>1 DEF Inv, TypeOK, LockScope, Session, Work, InOrder, Outside, Working
<1>3. Queued'
  BY <1>1 DEF Queued, Chain, Newest, Taken, Sent, Busy, Working
<1> QED
  BY <1>2, <1>3 DEF Inv

\* Outside a session there is nothing to preserve.
LEMMA OutsideStep == Inv /\ (ConnectFails \/ Reconnect) => Inv'
<1> SUFFICES ASSUME Inv, ConnectFails \/ Reconnect PROVE Inv'
  OBVIOUS
<1>1. /\ pc \in Outside /\ pc' \in Outside /\ mutex = <<>> /\ faults' \in 0 .. MaxFaults
      /\ inbox = <<>> /\ outbox = <<>> /\ ~greeted /\ asked = <<>> /\ answers = <<>>
      /\ UNCHANGED <<cur, ret, mutex, link, inbox, outbox, greeted, asked, answers>>
  BY RelayAssumption
     DEF ConnectFails, Reconnect, Fault, socketVars, relayVars, Inv, TypeOK, Session,
         Outside, LockScope
<1>2. TypeOK' /\ LockScope' /\ Session' /\ Work' /\ InOrder'
  BY <1>1 DEF Inv, TypeOK, LockScope, Session, Work, InOrder, Outside, Working
<1>3. Queued'
  BY <1>1 DEF Inv, Queued, Chain, Newest, Taken, Sent, Busy, Working, Outside
<1> QED
  BY <1>2, <1>3 DEF Inv

\* The hello is the first frame, and alone in the outbox.
LEMMA SendHelloStep == Inv /\ SendHello => Inv'
<1> SUFFICES ASSUME Inv, SendHello PROVE Inv'
  OBVIOUS
<1>1. /\ pc = "hello" /\ mutex = <<>> /\ mutex' = <<>> /\ UNCHANGED faults
      /\ outbox = <<>> /\ ~greeted
  BY DEF SendHello, Inv, Session, LockScope
<1>2. CASE EndSession
  BY <1>1, <1>2, Leaves DEF EndSession, Outside
<1>3. CASE /\ outbox' = Append(outbox, Hello)
           /\ pc' = "ack" /\ cur' = Absent /\ ret' = Absent
           /\ UNCHANGED <<link, inbox, relayVars>>
  <2>1. outbox' = <<Hello>> /\ UNCHANGED <<link, inbox, greeted, asked, answers>>
    BY <1>1, <1>3, Single DEF relayVars
  <2>2. TypeOK'
    BY <1>1, <1>3, <2>1 DEF Inv, TypeOK
  <2>3. LockScope' /\ Session' /\ Work' /\ InOrder'
    BY <1>1, <1>3, <2>1 DEF Inv, LockScope, Session, Work, InOrder, Outside, Working
  <2>4. Taken' = Taken
    BY <1>1, <1>3, <2>1 DEF Taken, Sent, Busy, Working
  <2>5. Queued'
    BY <2>1, <2>4 DEF Inv, Queued, Chain, Newest
  <2> QED
    BY <2>2, <2>3, <2>5 DEF Inv
<1> QED
  BY <1>2, <1>3 DEF SendHello, Send

\* The first frame is hello_ok, and nothing was asked before, or the session ends.
LEMMA ReadAckStep == Inv /\ ReadAck => Inv'
<1> SUFFICES ASSUME Inv, ReadAck PROVE Inv'
  OBVIOUS
<1>1. pc = "ack" /\ inbox # <<>> /\ mutex = <<>> /\ UNCHANGED <<mutex, faults>>
  BY DEF ReadAck, Inv, LockScope
<1>2. CASE EndSession
  BY <1>1, <1>2, Leaves DEF EndSession, Outside
<1>3. CASE /\ Head(inbox).action = "hello_ok"
           /\ pc' = "read" /\ inbox' = Tail(inbox)
           /\ UNCHANGED <<cur, ret, link, outbox, relayVars>>
  <2>1. /\ greeted /\ ~IsQuery(inbox[1]) /\ inbox[1].n = Taken /\ Taken' = Taken
        /\ UNCHANGED <<greeted, asked, answers>>
    <3>1. greeted /\ ~IsQuery(inbox[1])
      BY <1>1, <1>3, Counts DEF Inv, Session, IsQuery
    <3>2. inbox[1].n = Taken
      BY <1>1, <3>1, Counts DEF One
    <3>3. Taken' = Taken /\ UNCHANGED <<greeted, asked, answers>>
      BY <1>1, <1>3 DEF Taken, Sent, Busy, Working, relayVars
    <3> QED
      BY <3>1, <3>2, <3>3
  <2>2. /\ inbox' \in Seq(Frames) /\ Queued'
        /\ \A k \in DOMAIN inbox' : \E j \in DOMAIN inbox : inbox'[k] = inbox[j]
    BY <1>1, <1>3, <2>1, Reads
  <2>3. TypeOK'
    BY <1>1, <1>3, <2>1, <2>2 DEF Inv, TypeOK
  <2>4. LockScope' /\ Session' /\ Work' /\ InOrder'
    BY <1>1, <1>3, <2>1, <2>2 DEF Inv, LockScope, Session, Work, InOrder, Outside, Working
  <2> QED
    BY <2>2, <2>3, <2>4 DEF Inv
<1> QED
  BY <1>2, <1>3 DEF ReadAck

\* The end of a session drops all that Inv speaks of.
LEMMA EndStep == Inv /\ (ReadEnd \/ ReadClose \/ FilterPanics) => Inv'
<1> SUFFICES ASSUME Inv, ReadEnd \/ ReadClose \/ FilterPanics PROVE Inv'
  OBVIOUS
<1>1. CASE ReadEnd \/ ReadClose
  <2>1. mutex' = <<>> /\ UNCHANGED faults /\ EndSession
    BY <1>1 DEF ReadEnd, ReadClose, Inv, LockScope
  <2> QED
    BY <2>1, Leaves DEF EndSession, Outside
<1>2. CASE FilterPanics
  <2>1. mutex' = <<>> /\ UNCHANGED faults /\ LeaveSession("dead")
    BY <1>2, Single DEF FilterPanics, Inv, LockScope
  <2> QED
    BY <2>1, Leaves DEF Outside
<1> QED
  BY <1>1, <1>2

\* A skipped frame is no query, so the chain goes on behind it.
LEMMA SkipFrameStep == Inv /\ SkipFrame => Inv'
<1> SUFFICES ASSUME Inv, SkipFrame PROVE Inv'
  OBVIOUS
<1>1. /\ pc = "read" /\ inbox # <<>> /\ ~IsQuery(Head(inbox)) /\ inbox' = Tail(inbox)
      /\ UNCHANGED <<pc, cur, ret, mutex, link, outbox, greeted, asked, answers, faults>>
  BY DEF SkipFrame, clientVars, relayVars
<1>2. inbox[1].n = Taken /\ Taken' = Taken
  <2>1. inbox[1].n = Taken
    BY <1>1, Counts DEF One
  <2>2. Taken' = Taken
    BY <1>1 DEF Taken, Sent, Busy
  <2> QED
    BY <2>1, <2>2
<1>3. /\ inbox' \in Seq(Frames) /\ Queued'
      /\ \A k \in DOMAIN inbox' : \E j \in DOMAIN inbox : inbox'[k] = inbox[j]
  BY <1>1, <1>2, Reads
<1>4. TypeOK'
  BY <1>1, <1>3 DEF Inv, TypeOK
<1>5. LockScope' /\ Session' /\ Work' /\ InOrder'
  BY <1>1, <1>3 DEF Inv, LockScope, Session, Work, InOrder, Outside, Working
<1> QED
  BY <1>3, <1>4, <1>5 DEF Inv

\* The query taken is the next that was asked.
LEMMA TakeQueryStep == Inv /\ TakeQuery => Inv'
<1> SUFFICES ASSUME Inv, TakeQuery PROVE Inv'
  OBVIOUS
<1>1. /\ pc = "read" /\ pc' = "lock" /\ inbox # <<>> /\ inbox' = Tail(inbox)
      /\ IsQuery(inbox[1]) /\ cur' = inbox[1]
      /\ UNCHANGED <<ret, link, outbox, greeted, asked, answers, faults>>
  BY Counts DEF TakeQuery, relayVars
<1>2. mutex' = <<"relay">>
  BY Single DEF TakeQuery, Inv, LockScope
<1>3. Taken' = inbox[1].n /\ inbox[1] \in Frames
  <2>1. inbox[1] \in Frames /\ inbox[1].n = Taken + 1
    BY <1>1, Counts DEF One
  <2>2. Sent' = Sent /\ Busy = 0 /\ Busy' = 1 /\ answers' = answers
    BY <1>1 DEF Sent, Busy, Working
  <2>3. Sent \in Nat /\ Len(answers) \in Nat
    BY Counts DEF Sent
  <2> QED
    BY <2>1, <2>2, <2>3 DEF Taken
<1>4. /\ inbox' \in Seq(Frames) /\ Queued'
      /\ \A k \in DOMAIN inbox' : \E j \in DOMAIN inbox : inbox'[k] = inbox[j]
  BY <1>1, <1>3, Reads
<1>5. TypeOK'
  <2>1. <<"relay">> \in Seq({"relay"})
    OBVIOUS
  <2> QED
    BY <1>1, <1>2, <1>3, <1>4, <2>1 DEF Inv, TypeOK
<1>6. LockScope' /\ Session' /\ InOrder'
  BY <1>1, <1>2, <1>4 DEF Inv, LockScope, Session, InOrder, Outside, Working
<1>7. Work'
  BY <1>1, <1>3, Counts DEF Work
<1> QED
  BY <1>4, <1>5, <1>6, <1>7 DEF Inv

\* Owning the mutex and running the handler leave the query in hand.
LEMMA HandlerStep == Inv /\ (CallFilter \/ FilterReturns) => Inv'
<1> SUFFICES ASSUME Inv, CallFilter \/ FilterReturns PROVE Inv'
  OBVIOUS
<1>1. /\ pc \in Working /\ pc' \in {"handle", "send"} /\ pc' # "connect"
      /\ UNCHANGED <<cur, link, inbox, outbox, greeted, asked, answers, faults>>
  BY DEF CallFilter, FilterReturns, socketVars, relayVars, Working
<1>2. mutex' = IF pc' = "handle" THEN <<"relay">> ELSE <<>>
  BY Single DEF CallFilter, FilterReturns, Inv, LockScope
<1>3. cur \in Frames /\ IsQuery(cur)
  BY <1>1 DEF Inv, Work
<1>4. \/ pc' = "handle" /\ ret' = ret
      \/ pc' = "send" /\ ret' \in {Trim[Raw(cur.body)], NoItems, Null, Error}
  BY DEF CallFilter, FilterReturns
<1>5. Trim[Raw(cur.body)] \in Bodies
  BY <1>3, RelayAssumption DEF Frames, Raw
<1>6. TypeOK'
  <2>1. <<"relay">> \in Seq({"relay"}) /\ <<>> \in Seq({"relay"})
    OBVIOUS
  <2>2. mutex' \in Seq({"relay"})
    BY <1>2, <2>1
  <2> QED
    BY <1>1, <1>4, <1>5, <2>2 DEF Inv, TypeOK, Results
<1>7. LockScope' /\ Session' /\ InOrder'
  BY <1>1, <1>2 DEF Inv, LockScope, Session, InOrder, Outside, Working
<1>8. Taken' = Taken
  BY <1>1 DEF Taken, Sent, Busy, Working
<1>9. Work'
  BY <1>1, <1>4, <1>8 DEF Inv, Work
<1>10. Queued'
  BY <1>1, <1>8 DEF Inv, Queued, Chain, Newest
<1> QED
  BY <1>6, <1>7, <1>9, <1>10 DEF Inv

\* The result of the query that was taken last is the next one the relay waits
\* for, whatever the handler made of it.
LEMMA SendResultStep == Inv /\ SendResult => Inv'
<1> SUFFICES ASSUME Inv, SendResult PROVE Inv'
  OBVIOUS
<1> DEFINE r == Result(cur.id, Raw(cur.body), Items(ret))
           q == asked[Taken]
<1>1. /\ pc = "send" /\ greeted /\ mutex = <<>> /\ mutex' = <<>> /\ UNCHANGED faults
  BY DEF SendResult, Inv, Session, LockScope, Working
<1>2. CASE EndSession
  BY <1>1, <1>2, Leaves DEF EndSession, Outside
<1>3. CASE /\ outbox' = Append(outbox, r)
           /\ pc' = "read" /\ cur' = Absent /\ ret' = Absent
           /\ UNCHANGED <<link, inbox, relayVars>>
  <2>1. UNCHANGED <<greeted, asked, answers>>
    BY <1>3 DEF relayVars
  <2>2. /\ cur \in Frames /\ Taken <= Len(asked)
        /\ q = [id |-> cur.id, body |-> cur.body]
        /\ ret \in {Trim[Raw(cur.body)], NoItems, Null, Error}
    BY <1>1 DEF Inv, Work, Working
  <2>3. Items(ret) \in {Trim[Raw(cur.body)], NoItems, Null}
    BY <2>2 DEF Items
  <2>4. r \in AnswersTo(q)
    BY <2>2, <2>3 DEF AnswersTo
  <2>5. /\ Len(answers) \in Nat /\ Len(outbox) \in Nat /\ Len(asked) \in Nat
        /\ Taken = Len(answers) + Len(outbox) + 1
    BY <1>1, Counts DEF Taken, Sent, Busy, Working
  <2>6. q \in Queries
    BY <2>2, <2>5, ElementOfSeq DEF Inv, TypeOK
  <2>7. r \in AllAnswers
    BY <2>4, <2>6 DEF AllAnswers
  <2>8. /\ outbox' \in Seq({Hello} \cup AllAnswers)
        /\ Len(outbox') = Len(outbox) + 1 /\ DOMAIN outbox' = 1 .. Len(outbox) + 1
        /\ \A k \in 1 .. Len(outbox) : outbox'[k] = outbox[k]
        /\ outbox'[Len(outbox) + 1] = r
    BY <1>3, <2>7, AppendProperties, LenProperties DEF Inv, TypeOK
  <2>9. TypeOK'
    BY <1>1, <1>3, <2>1, <2>8 DEF Inv, TypeOK
  <2>10. LockScope' /\ Session' /\ Work'
    BY <1>1, <1>3, <2>1 DEF Inv, LockScope, Session, Work, Outside, Working
  <2>11. Taken' = Taken
    BY <1>1, <1>3, <2>1, <2>5, <2>8 DEF Taken, Sent, Busy, Working
  <2>12. Queued'
    BY <1>3, <2>1, <2>11 DEF Inv, Queued, Chain, Newest
  <2>13. InOrder'
    <3>1. \A k \in DOMAIN outbox : /\ Len(answers) + k <= Len(asked)
                                   /\ outbox[k] \in AnswersTo(asked[Len(answers) + k])
      BY <1>1 DEF Inv, InOrder
    <3>2. DOMAIN outbox = 1 .. Len(outbox)
      BY LenProperties DEF Inv, TypeOK
    <3>3. ASSUME NEW k \in 1 .. Len(outbox) + 1
          PROVE  /\ Len(answers) + k <= Len(asked)
                 /\ outbox'[k] \in AnswersTo(asked[Len(answers) + k])
      <4>1. CASE k \in 1 .. Len(outbox)
        BY <2>8, <3>1, <3>2, <4>1
      <4>2. CASE k = Len(outbox) + 1
        <5>1. Len(answers) + k = Taken
          BY <2>5, <4>2
        <5> QED
          BY <2>2, <2>4, <2>8, <4>2, <5>1
      <4> QED
        BY <2>5, <4>1, <4>2
    <3> QED
      BY <1>1, <2>1, <2>8, <3>3 DEF InOrder
  <2> QED
    BY <2>9, <2>10, <2>12, <2>13 DEF Inv
<1> QED
  BY <1>2, <1>3 DEF SendResult, Send

-----------------------------------------------------------------------------
(* So does every step of the relay and of the network.                     *)

\* With hello_ok the relay has taken the hello, and the outbox is empty.
LEMMA RelayGreetsStep == Inv /\ RelayGreets => Inv'
<1> SUFFICES ASSUME Inv, RelayGreets PROVE Inv'
  OBVIOUS
<1> DEFINE f == [HelloOk EXCEPT !.n = Len(asked')]
<1>1. /\ ~greeted /\ greeted' /\ outbox = <<Hello>> /\ outbox' = Tail(outbox)
      /\ link = "open" /\ inbox' = Append(inbox, f) /\ asked = <<>> /\ answers = <<>>
      /\ pc \notin Outside \cup Working \cup {"hello", "read"}
      /\ UNCHANGED <<pc, cur, ret, mutex, link, asked, answers, faults>>
  BY DEF RelayGreets, RelaySends, clientVars, Inv, InOrder, Session
<1>2. outbox' = <<>> /\ greeted' = TRUE
  BY <1>1, Single DEF RelayGreets
<1>3. /\ f \in Frames /\ f.n = Len(asked') /\ ~IsQuery(f) /\ f.type # "close"
  <2>1. HelloOk \in Frames /\ ~IsQuery(HelloOk) /\ HelloOk.type # "close"
    BY DEF HelloOk, Frame, Frames, IsQuery
  <2>2. Len(asked') \in Nat
    BY <1>1, Counts
  <2> QED
    BY <2>1, <2>2, Numbered
<1>4. Taken' = Taken
  BY <1>1, <1>2 DEF Taken, Sent, Busy
<1>5. /\ inbox' \in Seq(Frames) /\ Queued'
      /\ \A k \in DOMAIN inbox' : \/ inbox'[k] = f
                                  \/ \E j \in DOMAIN inbox : inbox'[k] = inbox[j]
  BY <1>1, <1>3, <1>4, Sends
<1>6. TypeOK'
  <2>1. <<>> \in Seq({Hello} \cup AllAnswers)
    OBVIOUS
  <2> QED
    BY <1>1, <1>2, <1>5, <2>1 DEF Inv, TypeOK
<1>7. LockScope' /\ Session' /\ Work' /\ InOrder'
  BY <1>1, <1>2, <1>3, <1>5
     DEF Inv, LockScope, Session, Work, InOrder
<1> QED
  BY <1>5, <1>6, <1>7 DEF Inv

\* Frames that ask nothing: noise before and after the greeting, and the close
\* frame, after which the relay sends no more.
LEMMA NoQueryStep == Inv /\ (RelayRefuses \/ RelayChatters \/ RelayCloses) => Inv'
<1> SUFFICES ASSUME Inv, RelayRefuses \/ RelayChatters \/ RelayCloses PROVE Inv'
  OBVIOUS
<1>1. PICK e \in Noise \cup {Close} :
        /\ link = "open" /\ inbox' = Append(inbox, [e EXCEPT !.n = Len(asked')])
        /\ \/ e \in Noise /\ link' = link
           \/ e = Close /\ link' = "cut"
        /\ faults' \in 0 .. MaxFaults
        /\ UNCHANGED <<pc, cur, ret, mutex, outbox, greeted, asked, answers>>
  <2>1. CASE RelayRefuses
    BY <2>1, Faulty DEF RelayRefuses, RelaySends, clientVars, relayVars
  <2>2. CASE RelayChatters
    <3>1. faults \in 0 .. MaxFaults
      BY DEF Inv, TypeOK
    <3> QED
      BY <2>2, <3>1 DEF RelayChatters, RelaySends, clientVars, relayVars
  <2>3. CASE RelayCloses
    BY <2>3, Faulty DEF RelayCloses, RelaySends, clientVars, relayVars
  <2> QED
    BY <2>1, <2>2, <2>3
<1> DEFINE f == [e EXCEPT !.n = Len(asked')]
<1>2. e \in Frames /\ ~IsQuery(e) /\ e.action # "hello_ok" /\ (e.type = "close" => e = Close)
  BY <1>1, RelayAssumption DEF Close, Frame, Frames, IsQuery
<1>3. /\ f \in Frames /\ f.n = Len(asked') /\ ~IsQuery(f) /\ f.action # "hello_ok"
      /\ f.type = "close" => link' = "cut"
  <2>1. Len(asked') \in Nat
    BY <1>1, Counts
  <2>2. e \in Noise => e.type # "close"
    BY RelayAssumption
  <2> QED
    BY <1>1, <1>2, <2>1, <2>2, Numbered
<1>4. Taken' = Taken /\ asked' = asked
  BY <1>1 DEF Taken, Sent, Busy
<1>5. /\ inbox' \in Seq(Frames) /\ Queued'
      /\ \A k \in DOMAIN inbox' : \/ inbox'[k] = f
                                  \/ \E j \in DOMAIN inbox : inbox'[k] = inbox[j]
  BY <1>1, <1>3, <1>4, Sends
<1>6. TypeOK'
  BY <1>1, <1>5 DEF Inv, TypeOK
<1>7. LockScope' /\ InOrder'
  BY <1>1 DEF Inv, LockScope, InOrder
<1>8. Session'
  BY <1>1, <1>3, <1>5 DEF Inv, Session, Outside
<1>9. Work'
  BY <1>1, <1>4 DEF Inv, Work
<1> QED
  BY <1>5, <1>6, <1>7, <1>8, <1>9 DEF Inv

\* A query that is asked becomes the newest of the chain.
LEMMA RelayAsksStep == Inv /\ RelayAsks => Inv'
<1> SUFFICES ASSUME Inv, RelayAsks PROVE Inv'
  OBVIOUS
<1>1. PICK i \in Ids, b \in Bodies \cup {Absent} :
        /\ asked' = Append(asked, [id |-> i, body |-> b])
        /\ inbox' = Append(inbox, [Frame("text", "query", i, b) EXCEPT !.n = Len(asked')])
        /\ link = "open"
        /\ greeted
        /\ UNCHANGED <<pc, cur, ret, mutex, link, outbox, greeted, answers, faults>>
  BY DEF RelayAsks, RelaySends, clientVars
<1> DEFINE e == Frame("text", "query", i, b)
           f == [e EXCEPT !.n = Len(asked')]
<1>2. /\ e \in Frames /\ IsQuery(e) /\ e.type # "close"
      /\ e.id = i /\ e.body = b
  BY RelayAssumption DEF Frame, Frames, IsQuery
<1>3. [id |-> i, body |-> b] \in Queries /\ asked \in Seq(Queries)
  BY DEF Queries, Inv, TypeOK
<1>4. /\ Len(asked) \in Nat /\ Len(asked') = Len(asked) + 1
      /\ \A m \in 1 .. Len(asked) : asked'[m] = asked[m]
  BY <1>1, <1>3, AppendProperties, LenProperties
<1>5. /\ f \in Frames /\ f.n = Len(asked') /\ IsQuery(f) /\ f.type # "close"
      /\ asked' = Append(asked, [id |-> f.id, body |-> f.body])
  <2>1. Len(asked') \in Nat
    BY <1>4
  <2> QED
    BY <1>1, <1>2, <2>1, Numbered
<1>6. Taken' = Taken
  BY <1>1 DEF Taken, Sent, Busy
<1>7. /\ inbox' \in Seq(Frames) /\ asked' \in Seq(Queries) /\ Queued'
      /\ \A k \in DOMAIN inbox' : \/ inbox'[k] = f
                                  \/ \E j \in DOMAIN inbox : inbox'[k] = inbox[j]
  BY <1>1, <1>5, <1>6, Sends
<1>8. TypeOK'
  BY <1>1, <1>7 DEF Inv, TypeOK
<1>9. LockScope' /\ Session'
  BY <1>1, <1>5, <1>7 DEF Inv, LockScope, Session, Outside
<1>10. Work'
  <2> SUFFICES ASSUME pc \in Working PROVE Work'
    BY <1>1 DEF Work
  <2>1. Taken \in 1 .. Len(asked)
    <3>1. Busy = 1 /\ Sent \in Nat /\ Len(answers) \in Nat /\ Taken <= Len(asked)
      BY Counts DEF Busy, Sent, Inv, Queued
    <3>2. Taken = Len(answers) + Sent + 1
      BY <3>1 DEF Taken
    <3> QED
      BY <1>4, <3>1, <3>2
  <2> QED
    BY <1>1, <1>4, <1>6, <2>1 DEF Inv, Work
<1>11. InOrder'
  <2>1. ASSUME NEW k \in DOMAIN outbox
        PROVE  /\ Len(answers) + k <= Len(asked')
               /\ outbox[k] \in AnswersTo(asked'[Len(answers) + k])
    <3>1. /\ Len(answers) + k <= Len(asked)
          /\ outbox[k] \in AnswersTo(asked[Len(answers) + k])
      BY <1>1 DEF Inv, InOrder
    <3>2. k \in 1 .. Len(outbox) /\ Len(outbox) \in Nat /\ Len(answers) \in Nat
      BY Counts, LenProperties DEF Inv, TypeOK
    <3>3. Len(answers) + k \in 1 .. Len(asked)
      BY <1>4, <3>1, <3>2
    <3> QED
      BY <1>4, <3>1, <3>2, <3>3
  <2> QED
    BY <1>1, <2>1 DEF InOrder
<1> QED
  BY <1>7, <1>8, <1>9, <1>10, <1>11 DEF Inv

\* The relay gets a result: an answer to the query it has waited for longest.
LEMMA Delivered ==
  ASSUME Inv, RelayReceives
  PROVE  /\ Len(answers) + 1 <= Len(asked)
         /\ Head(outbox) \in AnswersTo(asked[Len(answers) + 1])
         /\ Head(outbox) \in AllAnswers
<1>1. greeted /\ outbox # <<>> /\ outbox \in Seq({Hello} \cup AllAnswers)
  BY DEF RelayReceives, Inv, TypeOK
<1>2. Len(outbox) \in Nat \ {0} /\ DOMAIN outbox = 1 .. Len(outbox) /\ Len(answers) \in Nat
  BY <1>1, EmptySeq, LenProperties, Counts
<1>3. 1 \in DOMAIN outbox /\ Head(outbox) = outbox[1]
  BY <1>2
<1>4. /\ Len(answers) + 1 <= Len(asked)
      /\ outbox[1] \in AnswersTo(asked[Len(answers) + 1])
  BY <1>1, <1>3 DEF Inv, InOrder
<1>5. asked[Len(answers) + 1] \in Queries
  BY <1>2, <1>4, Counts, ElementOfSeq DEF Inv, TypeOK
<1> QED
  BY <1>3, <1>4, <1>5 DEF AllAnswers

\* An answer that arrives leaves the outbox as the first of it.
LEMMA RelayReceivesStep == Inv /\ RelayReceives => Inv'
<1> SUFFICES ASSUME Inv, RelayReceives PROVE Inv'
  OBVIOUS
<1>1. /\ link = "open" /\ greeted /\ outbox # <<>>
      /\ answers' = Append(answers, Head(outbox)) /\ outbox' = Tail(outbox)
      /\ UNCHANGED <<pc, cur, ret, mutex, link, inbox, greeted, asked, faults>>
  BY DEF RelayReceives, clientVars
<1>2. /\ outbox' \in Seq({Hello} \cup AllAnswers)
      /\ Len(outbox') = Len(outbox) - 1
      /\ DOMAIN outbox' = 1 .. Len(outbox) - 1 /\ DOMAIN outbox = 1 .. Len(outbox)
      /\ \A k \in 1 .. Len(outbox) - 1 : outbox'[k] = outbox[k + 1]
  BY <1>1, HeadTailProperties, LenProperties DEF Inv, TypeOK
<1>3. answers' \in Seq(AllAnswers) /\ Len(answers') = Len(answers) + 1
  BY <1>1, Delivered, AppendProperties DEF Inv, TypeOK
<1>4. Len(answers) \in Nat /\ Len(outbox) \in Nat
  BY Counts
<1>5. Taken' = Taken
  <2>1. Sent = Len(outbox) /\ Sent' = Len(outbox) - 1 /\ Busy' = Busy /\ Busy \in {0, 1}
    BY <1>1, <1>2 DEF Sent, Busy
  <2> QED
    BY <1>3, <1>4, <2>1 DEF Taken
<1>6. TypeOK'
  BY <1>1, <1>2, <1>3 DEF Inv, TypeOK
<1>7. LockScope' /\ Session'
  BY <1>1 DEF Inv, LockScope, Session, Outside
<1>8. Work' /\ Queued'
  BY <1>1, <1>5 DEF Inv, Work, Queued, Chain, Newest
<1>9. InOrder'
  <2>1. ASSUME NEW k \in 1 .. Len(outbox) - 1
        PROVE  /\ Len(answers') + k <= Len(asked)
               /\ outbox'[k] \in AnswersTo(asked[Len(answers') + k])
    <3>1. k + 1 \in DOMAIN outbox /\ Len(answers') + k = Len(answers) + (k + 1)
      BY <1>2, <1>3, <1>4
    <3>2. /\ Len(answers) + (k + 1) <= Len(asked)
          /\ outbox[k + 1] \in AnswersTo(asked[Len(answers) + (k + 1)])
      BY <1>1, <3>1 DEF Inv, InOrder
    <3> QED
      BY <1>2, <3>1, <3>2
  <2> QED
    BY <1>1, <1>2, <2>1 DEF InOrder
<1> QED
  BY <1>6, <1>7, <1>8, <1>9 DEF Inv

\* What a broken connection loses is the end of the inbox, never its middle.
LEMMA NetworkStep == Inv /\ Network => Inv'
<1> SUFFICES ASSUME Inv, Network PROVE Inv'
  OBVIOUS
<1>1. PICK m \in 0 .. Len(inbox) :
        /\ link # "none" /\ link' \in {"cut", "mute"} /\ (link = "cut" => link' = "cut")
        /\ \/ link = "open" /\ inbox' = SubSeq(inbox, 1, m)
           \/ inbox' = inbox
        /\ faults' \in 0 .. MaxFaults
        /\ UNCHANGED <<pc, cur, ret, mutex, outbox, greeted, asked, answers>>
  <2>1. CASE SendTimesOut
    <3>1. 0 \in 0 .. Len(inbox)
      BY Counts, LenProperties DEF Inv, TypeOK
    <3> QED
      BY <2>1, <3>1 DEF SendTimesOut, clientVars, relayVars, Inv, TypeOK
  <2>2. CASE ConnectionCut \/ PeerVanishes
    <3>1. PICK how \in {"cut", "mute"} : Breaks(how)
      BY <2>2 DEF ConnectionCut, PeerVanishes
    <3> QED
      BY <3>1, Faulty DEF Breaks, clientVars, relayVars
  <2> QED
    BY <2>1, <2>2 DEF Network
<1>2. /\ inbox \in Seq(Frames) /\ DOMAIN inbox = 1 .. Len(inbox) /\ Len(inbox) \in Nat
      /\ asked \in Seq(Queries) /\ Taken \in Nat
  BY Counts, LenProperties DEF Inv, TypeOK
<1>3. Taken' = Taken
  BY <1>1 DEF Taken, Sent, Busy
<1>4. /\ inbox' \in Seq(Frames) /\ Chain(inbox', Taken, asked)
      /\ \A k \in DOMAIN inbox' : k \in DOMAIN inbox /\ inbox'[k] = inbox[k]
  <2>1. CASE inbox' = inbox
    BY <1>2, <2>1 DEF Inv, Queued
  <2>2. CASE inbox' = SubSeq(inbox, 1, m)
    <3>1. /\ inbox' \in Seq(Frames) /\ DOMAIN inbox' = 1 .. m
          /\ \A k \in 1 .. m : inbox'[k] = inbox[k]
      BY <1>2, <2>2, SubSeqProperties, ElementOfSeq
    <3>2. Chain(SubSeq(inbox, 1, m), Taken, asked)
      BY <1>2, ChainPrefix DEF Inv, Queued
    <3> QED
      BY <1>2, <2>2, <3>1, <3>2
  <2> QED
    BY <1>1, <2>1, <2>2
<1>5. TypeOK'
  BY <1>1, <1>4 DEF Inv, TypeOK
<1>6. LockScope' /\ Work' /\ InOrder'
  BY <1>1, <1>3 DEF Inv, LockScope, Work, InOrder
<1>7. Session'
  BY <1>1, <1>4 DEF Inv, Session, Outside
<1>8. Queued'
  BY <1>1, <1>3, <1>4 DEF Inv, Queued
<1> QED
  BY <1>5, <1>6, <1>7, <1>8 DEF Inv

-----------------------------------------------------------------------------
(* The theorems.                                                           *)

\* Inv holds in every state.
LEMMA Invariance == Spec => []Inv
<1>1. Init => Inv
  <2> SUFFICES ASSUME Init PROVE Inv
    OBVIOUS
  <2> USE DEF Init
  <2>1. TypeOK
    <3>1. /\ <<>> \in Seq({"relay"}) /\ <<>> \in Seq(Frames) /\ <<>> \in Seq(Queries)
          /\ <<>> \in Seq({Hello} \cup AllAnswers) /\ <<>> \in Seq(AllAnswers)
      OBVIOUS
    <3>2. 0 \in 0 .. MaxFaults
      BY RelayAssumption
    <3> QED
      BY <3>1, <3>2 DEF TypeOK
  <2>2. LockScope /\ Session /\ Work /\ InOrder
    BY DEF LockScope, Session, Work, InOrder, Outside, Working
  <2>3. Queued
    BY DEF Queued, Chain, Newest, Taken, Sent, Busy, Working
  <2> QED
    BY <2>1, <2>2, <2>3 DEF Inv
<1>2. Inv /\ [Next]_vars => Inv'
  <2> SUFFICES ASSUME Inv, [Next]_vars PROVE Inv'
    OBVIOUS
  <2>1. CASE Client
    BY <2>1, ConnectedStep, OutsideStep, SendHelloStep, ReadAckStep, EndStep,
       SkipFrameStep, TakeQueryStep, HandlerStep, SendResultStep DEF Client
  <2>2. CASE ConnectFails \/ FilterPanics
    BY <2>2, OutsideStep, EndStep
  <2>3. CASE Relay
    BY <2>3, RelayGreetsStep, NoQueryStep, RelayAsksStep, RelayReceivesStep DEF Relay
  <2>4. CASE Network
    BY <2>4, NetworkStep
  <2>5. CASE UNCHANGED vars
    <3> USE <2>5 DEF vars, clientVars, socketVars, relayVars
    <3>1. TypeOK' /\ LockScope' /\ Session' /\ InOrder'
      BY DEF Inv, TypeOK, LockScope, Session, InOrder
    <3>2. Taken' = Taken
      BY DEF Taken, Sent, Busy
    <3>3. Work' /\ Queued'
      BY <3>2 DEF Inv, Work, Queued, Chain, Newest
    <3> QED
      BY <3>1, <3>3 DEF Inv
  <2> QED
    BY <2>1, <2>2, <2>3, <2>4, <2>5 DEF Next
<1> QED
  BY <1>1, <1>2, PTL DEF Spec

\* Type correctness: among others, whatever is on its way to the relay is the
\* hello or an answer some query may get.
THEOREM TypeCorrect == Spec => []TypeOK
BY Invariance, PTL DEF Inv

\* The filter's mutex is free whenever no query is being handled, so that a
\* session that ends or a handler that panics never leaves it locked.
THEOREM LockScoped == Spec => []LockScope
BY Invariance, PTL DEF Inv

\* Each result answers the query that has waited longest, with its id, signed
\* over its untrimmed body, whatever frames are lost, skipped or malformed.
THEOREM AnswersInOrder == Spec => []InOrder
BY Invariance, PTL DEF Inv

\* After the handshake only the loss of the connection or a panic of the
\* handler ends a session, and only the panic ends run().
THEOREM EndsForCause == Spec => SessionEndsForCause
<1> DEFINE Cause == link # "none" /\ link' = "none" => link = "cut" \/ pc = "ack" \/ pc' = "dead"
           Panic == pc' = "dead" => pc \in {"handle", "dead"}
<1>1. Inv /\ [Next]_vars => [Cause]_vars
  <2> SUFFICES ASSUME Inv, Next, link # "none", link' = "none"
               PROVE  link = "cut" \/ pc = "ack" \/ pc' = "dead"
    OBVIOUS
  <2>1. ASSUME ReadClose PROVE link = "cut"
    BY <2>1, Counts DEF ReadClose, Inv, Session
  <2>2. ASSUME Client PROVE link = "cut" \/ pc = "ack"
    BY <2>1, <2>2
       DEF Client, Connected, Reconnect, SendHello, ReadAck, ReadEnd, SkipFrame,
           TakeQuery, CallFilter, FilterReturns, SendResult, Send, socketVars
  <2>3. ~ConnectFails
    BY DEF ConnectFails, socketVars
  <2>4. FilterPanics => pc' = "dead"
    BY DEF FilterPanics, LeaveSession
  <2>5. ~Relay
    BY DEF Relay, RelayGreets, RelayRefuses, RelayAsks, RelayChatters, RelayReceives,
           RelayCloses
  <2>6. ~Network
    BY DEF Network, ConnectionCut, PeerVanishes, SendTimesOut, Breaks
  <2> QED
    BY <2>2, <2>3, <2>4, <2>5, <2>6 DEF Next
<1>2. [Next]_vars => [Panic]_vars
  <2> SUFFICES ASSUME Next, pc' = "dead" PROVE pc \in {"handle", "dead"}
    OBVIOUS
  <2>1. ~Client
    BY DEF Client, Connected, Reconnect, SendHello, ReadAck, ReadEnd, ReadClose, SkipFrame,
           TakeQuery, CallFilter, FilterReturns, SendResult, Send, EndSession, LeaveSession,
           clientVars
  <2>2. ~ConnectFails
    BY DEF ConnectFails
  <2>3. FilterPanics => pc = "handle"
    BY DEF FilterPanics
  <2>4. Relay \/ Network => pc = "dead"
    BY DEF Relay, RelayGreets, RelayRefuses, RelayAsks, RelayChatters, RelayReceives,
           RelayCloses, RelaySends, Network, ConnectionCut, PeerVanishes, SendTimesOut,
           Breaks, clientVars
  <2> QED
    BY <2>1, <2>2, <2>3, <2>4 DEF Next
<1>3. [Cause]_vars /\ [Panic]_vars <=> [Cause /\ Panic]_vars
  OBVIOUS
<1> QED
  BY <1>1, <1>2, <1>3, Invariance, PTL DEF Spec, SessionEndsForCause

\* The client, its socket and the relay implement the abstract transport: seen
\* from the relay, queries are answered one by one and in order, or lost with
\* their session.
THEOREM ImplementsService == Spec => Implements
<1>1. Init => Service!Init
  BY DEF Init, Service!Init
<1>2. Inv /\ [Next]_vars => [Service!Next]_(Service!vars)
  <2> SUFFICES ASSUME Inv, [Next]_vars
               PROVE  Service!Next \/ UNCHANGED <<asked, answers>>
    BY DEF Service!vars
  <2>1. CASE RelayAsks
    <3>1. PICK i \in Ids, b \in Bodies \cup {Absent} :
            asked' = Append(asked, [id |-> i, body |-> b]) /\ UNCHANGED answers
      BY <2>1 DEF RelayAsks
    <3>2. [id |-> i, body |-> b] \in Queries
      BY DEF Queries
    <3> QED
      BY <3>1, <3>2 DEF Service!Next, Service!Ask
  <2>2. CASE RelayReceives
    <3>1. answers' = Append(answers, Head(outbox)) /\ UNCHANGED asked
      BY <2>2 DEF RelayReceives
    <3>2. /\ Len(answers) + 1 <= Len(asked)
          /\ Head(outbox) \in AnswersTo(asked[Len(answers) + 1])
          /\ Len(answers) \in Nat /\ Len(asked) \in Nat
      BY <2>2, Delivered, Counts
    <3>3. Len(answers) < Len(asked) /\ asked[Len(answers) + 1] \in Queries
      BY <3>2, ElementOfSeq DEF Inv, TypeOK
    <3>4. Service!Answer
      BY <3>1, <3>2, <3>3 DEF Service!Answer
    <3> QED
      BY <3>4 DEF Service!Next
  <2>3. ASSUME NEW next, LeaveSession(next) PROVE Service!Next
    BY <2>3 DEF LeaveSession, Service!Next, Service!Lose
  <2>4. CASE Client \/ ConnectFails \/ FilterPanics
    BY <2>3, <2>4
       DEF Client, Connected, ConnectFails, Reconnect, SendHello, ReadAck, ReadEnd,
           ReadClose, SkipFrame, TakeQuery, CallFilter, FilterReturns, FilterPanics,
           SendResult, Send, EndSession, relayVars
  <2>5. CASE RelayGreets \/ RelayRefuses \/ RelayChatters \/ RelayCloses
    BY <2>5 DEF RelayGreets, RelayRefuses, RelayChatters, RelayCloses, relayVars
  <2>6. CASE Network
    BY <2>6 DEF Network, ConnectionCut, PeerVanishes, SendTimesOut, Breaks, relayVars
  <2>7. CASE UNCHANGED vars
    BY <2>7 DEF vars, relayVars
  <2> QED
    BY <2>1, <2>2, <2>4, <2>5, <2>6, <2>7 DEF Next, Relay
<1> QED
  BY <1>1, <1>2, Invariance, PTL DEF Spec, Implements, Service!Spec
=============================================================================
