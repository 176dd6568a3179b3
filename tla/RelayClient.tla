---------------------------- MODULE RelayClient ----------------------------
(***************************************************************************)
(* Model B: the outbound WebSocket client (src/wsclient.rs), the relay it  *)
(* talks to and the connection between them.                               *)
(*                                                                         *)
(* The client is one task.  It connects, sends `hello`, waits for          *)
(* `hello_ok`, and then answers `query` frames one at a time under the     *)
(* mutex it shares with the direct transport.  However a session ends, it  *)
(* sleeps and connects again, and nothing of the session survives.         *)
(*                                                                         *)
(* The relay is not in the repository.  It may send any frame, refuse the  *)
(* handshake, close, or disappear; MaxFaults bounds how often it and the   *)
(* network do so.                                                          *)
(***************************************************************************)
EXTENDS Naturals, Sequences, Signing

CONSTANTS
  Ids, Bodies,        \* query ids, and query strings before and after trimming
  Empty,              \* the empty query string
  Trim,               \* Trim[b]: b without surrounding white space
  Absent,             \* a JSON field that is missing or is no string
  NoItems, Null,      \* the results `[]` and `null`
  Error,              \* the handler returned Err(_)
  Noise,              \* frames with no effect that the relay may send
  InCap, OutCap,      \* how many frames each direction of the socket buffers
  MaxAsked,           \* bounds the queries of a session
  MaxFaults,          \* bounds the faults of the relay and of the network
  MayVanish,          \* whether the peer may vanish without closing
  MayPanic            \* whether the handler may panic

VARIABLES
  pc,                 \* where the client task is
  cur,                \* the query frame it is working on
  ret,                \* what the handler returned for it
  mutex,              \* tasks that own (first) or wait for the filter's mutex
  link,               \* the connection, as the network has it
  inbox, outbox,      \* frames on their way to the client, to the relay
  greeted,            \* the relay has answered `hello` with `hello_ok`
  asked, answers,     \* this session's queries and results, as the relay sees them
  faults              \* faults so far

clientVars == <<pc, cur, ret>>
socketVars == <<link, inbox, outbox>>
relayVars  == <<greeted, asked, answers>>
vars == <<clientVars, mutex, socketVars, relayVars, faults>>

-----------------------------------------------------------------------------
(* Frames.  `n` is history: how many queries of the session had been asked *)
(* when the frame was sent, itself included.  The client never looks at it. *)

Frames == [type : {"text", "binary", "close"}, action : {"hello_ok", "query", "other"},
           id : Ids \cup {Absent}, body : Bodies \cup {Absent}, n : Nat]

Frame(t, a, i, b) == [type |-> t, action |-> a, id |-> i, body |-> b, n |-> 0]

HelloOk == Frame("text", "hello_ok", Absent, Absent)
Close   == Frame("close", "other", Absent, Absent)
Hello   == [action |-> "hello"]

IsQuery(f) == f.type = "text" /\ f.action = "query" /\ f.id # Absent
Raw(body)  == IF body = Absent THEN Empty ELSE body

\* A non-empty result list is named by the string it was computed from.
Results  == Bodies \cup {NoItems, Null}
\* Mutant: an error of the handler is passed on as the results.
Items_ErrorPassedOn(r) == r

Items(r) == IF r = Error THEN NoItems ELSE r

Result(i, b, r) == [action |-> "result", id |-> i, results |-> r, signature |-> Sign(b, r)]

ASSUME RelayAssumption ==
  /\ Empty \in Bodies /\ Trim \in [Bodies -> Bodies]
  /\ Absent \notin Ids \cup Bodies
  /\ Error \notin Bodies \cup {NoItems, Null}
  /\ Noise \subseteq {f \in Frames : ~IsQuery(f) /\ f.type # "close" /\ f.action # "hello_ok"}
  /\ {InCap, OutCap} \subseteq Nat \ {0} /\ {MaxAsked, MaxFaults} \subseteq Nat
  /\ {MayVanish, MayPanic} \subseteq BOOLEAN

-----------------------------------------------------------------------------
Init ==
  /\ pc = "connect" /\ cur = Absent /\ ret = Absent
  /\ mutex = <<>>
  /\ link = "none" /\ inbox = <<>> /\ outbox = <<>>
  /\ greeted = FALSE /\ asked = <<>> /\ answers = <<>>
  /\ faults = 0

Fault == faults < MaxFaults /\ faults' = faults + 1

\* Mutant: results that were not sent yet are kept for the next session.
LeaveSession_KeepsOutbox(next) ==
  /\ pc' = next /\ cur' = Absent /\ ret' = Absent
  /\ link' = "none" /\ inbox' = <<>> /\ UNCHANGED outbox
  /\ greeted' = FALSE /\ asked' = <<>> /\ answers' = <<>>

\* Leaving session() drops the socket and every local of the session.
LeaveSession(next) ==
  /\ pc' = next /\ cur' = Absent /\ ret' = Absent
  /\ link' = "none" /\ inbox' = <<>> /\ outbox' = <<>>
  /\ greeted' = FALSE /\ asked' = <<>> /\ answers' = <<>>

EndSession == LeaveSession("sleep")

-----------------------------------------------------------------------------
(* The client task.                                                        *)

Connected ==
  /\ pc = "connect"
  /\ pc' = "hello" /\ link' = "open"
  /\ UNCHANGED <<cur, ret, mutex, inbox, outbox, relayVars, faults>>

ConnectFails ==
  /\ pc = "connect"
  /\ Fault
  /\ pc' = "sleep"
  /\ UNCHANGED <<cur, ret, mutex, socketVars, relayVars>>

Reconnect ==
  /\ pc = "sleep"
  /\ pc' = "connect"
  /\ UNCHANGED <<cur, ret, mutex, socketVars, relayVars, faults>>

\* send().await waits for room in the socket.  On a dead connection it may
\* still take the frame, which then reaches nobody.
Send(frame, next) ==
  \/ /\ Len(outbox) < OutCap
     /\ outbox' = Append(outbox, frame)
     /\ pc' = next /\ cur' = Absent /\ ret' = Absent
     /\ UNCHANGED <<link, inbox, relayVars>>
  \/ link = "cut" /\ EndSession

SendHello == pc = "hello" /\ Send(Hello, "ack") /\ UNCHANGED <<mutex, faults>>

\* The type of the first frame is not looked at, only what it says.
ReadAck ==
  /\ pc = "ack" /\ inbox # <<>>
  /\ \/ /\ Head(inbox).action = "hello_ok"
        /\ pc' = "read" /\ inbox' = Tail(inbox)
        /\ UNCHANGED <<cur, ret, link, outbox, relayVars>>
     \/ Head(inbox).action # "hello_ok" /\ EndSession
  /\ UNCHANGED <<mutex, faults>>

\* Mutant: the end of the stream is not looked at during the handshake.
ReadEnd_NotInHandshake ==
  /\ pc = "read" /\ inbox = <<>> /\ link = "cut"
  /\ EndSession
  /\ UNCHANGED <<mutex, faults>>

ReadEnd ==
  /\ pc \in {"ack", "read"} /\ inbox = <<>> /\ link = "cut"
  /\ EndSession
  /\ UNCHANGED <<mutex, faults>>

ReadClose ==
  /\ pc = "read" /\ inbox # <<>> /\ Head(inbox).type = "close"
  /\ EndSession
  /\ UNCHANGED <<mutex, faults>>

\* Mutant: a text frame that asks nothing, or has no id, ends the session.
SkipFrame_EndsSession ==
  /\ pc = "read" /\ inbox # <<>>
  /\ Head(inbox).type # "close" /\ ~IsQuery(Head(inbox))
  /\ EndSession
  /\ UNCHANGED <<mutex, faults>>

SkipFrame ==
  /\ pc = "read" /\ inbox # <<>>
  /\ Head(inbox).type # "close" /\ ~IsQuery(Head(inbox))
  /\ inbox' = Tail(inbox)
  /\ UNCHANGED <<clientVars, mutex, link, outbox, relayVars, faults>>

\* Taking a query ends in filter.lock().await, a fair mutex.
TakeQuery ==
  /\ pc = "read" /\ inbox # <<>> /\ IsQuery(Head(inbox))
  /\ cur' = Head(inbox) /\ inbox' = Tail(inbox)
  /\ mutex' = Append(mutex, "relay") /\ pc' = "lock"
  /\ UNCHANGED <<ret, link, outbox, relayVars, faults>>

\* Mutant: the handler is called while another task owns the filter.
CallFilter_Unlocked ==
  /\ pc = "lock"
  /\ pc' = "handle"
  /\ UNCHANGED <<cur, ret, mutex, socketVars, relayVars, faults>>

CallFilter ==
  /\ pc = "lock" /\ Head(mutex) = "relay"
  /\ pc' = "handle"
  /\ UNCHANGED <<cur, ret, mutex, socketVars, relayVars, faults>>

\* Mutant: the guard lives on while the result is signed and sent.
FilterReturns_KeepsGuard ==
  /\ pc = "handle"
  /\ ret' \in {Trim[Raw(cur.body)], NoItems, Null, Error}
  /\ pc' = "send"
  /\ UNCHANGED <<cur, mutex, socketVars, relayVars, faults>>

\* Mutant: after an error of the handler the client goes on to the next frame.
FilterReturns_ErrorSkipped ==
  /\ pc = "handle"
  /\ ret' \in {Trim[Raw(cur.body)], NoItems, Null, Error}
  /\ mutex' = Tail(mutex) /\ pc' = IF ret' = Error THEN "read" ELSE "send"
  /\ UNCHANGED <<cur, socketVars, relayVars, faults>>

\* The guard is dropped at the end of the block that calls the handler.
FilterReturns ==
  /\ pc = "handle"
  /\ ret' \in {Trim[Raw(cur.body)], NoItems, Null, Error}
  /\ mutex' = Tail(mutex) /\ pc' = "send"
  /\ UNCHANGED <<cur, socketVars, relayVars, faults>>

\* Unwinding drops the guard (a tokio mutex is not poisoned) and ends run().
FilterPanics ==
  /\ pc = "handle" /\ MayPanic
  /\ mutex' = Tail(mutex)
  /\ LeaveSession("dead")
  /\ UNCHANGED faults

\* Mutant: the result is signed over the trimmed body that the handler got.
SendResult_SignsTrimmed ==
  /\ pc = "send"
  /\ Send([Result(cur.id, Raw(cur.body), Items(ret)) EXCEPT
             !.signature = Sign(Trim[Raw(cur.body)], Items(ret))], "read")
  /\ UNCHANGED <<mutex, faults>>

SendResult ==
  /\ pc = "send"
  /\ Send(Result(cur.id, Raw(cur.body), Items(ret)), "read")
  /\ UNCHANGED <<mutex, faults>>

Client ==
  \/ Connected \/ Reconnect \/ SendHello \/ ReadAck \/ ReadEnd \/ ReadClose
  \/ SkipFrame \/ TakeQuery \/ CallFilter \/ FilterReturns \/ SendResult

-----------------------------------------------------------------------------
(* The relay and the network.                                              *)

RelaySends(frame) ==
  /\ link = "open" /\ Len(inbox) < InCap
  /\ inbox' = Append(inbox, [frame EXCEPT !.n = Len(asked')])
  /\ UNCHANGED <<clientVars, mutex>>

RelayGreets ==
  /\ outbox # <<>> /\ ~greeted
  /\ greeted' = TRUE /\ outbox' = Tail(outbox)
  /\ UNCHANGED <<link, asked, answers, faults>>
  /\ RelaySends(HelloOk)

RelayRefuses ==
  /\ ~greeted /\ Fault
  /\ UNCHANGED <<link, outbox, relayVars>>
  /\ \E f \in Noise : RelaySends(f)

RelayAsks ==
  /\ greeted /\ Len(asked) < MaxAsked
  /\ \E i \in Ids, b \in Bodies \cup {Absent} :
       /\ asked' = Append(asked, [id |-> i, body |-> b])
       /\ RelaySends(Frame("text", "query", i, b))
  /\ UNCHANGED <<link, outbox, greeted, answers, faults>>

RelayChatters ==
  /\ greeted
  /\ UNCHANGED <<link, outbox, relayVars, faults>>
  /\ \E f \in Noise : RelaySends(f)

RelayReceives ==
  /\ link = "open" /\ greeted /\ outbox # <<>>
  /\ answers' = Append(answers, Head(outbox)) /\ outbox' = Tail(outbox)
  /\ UNCHANGED <<clientVars, mutex, link, inbox, greeted, asked, faults>>

RelayCloses ==
  /\ Fault
  /\ link' = "cut"
  /\ UNCHANGED <<outbox, relayVars>>
  /\ RelaySends(Close)

\* The connection breaks and what the client has not got yet may be lost with
\* it; when the peer vanishes instead, nothing tells the client.
Breaks(how) ==
  /\ link = "open" /\ Fault
  /\ link' = how
  /\ \E k \in 0 .. Len(inbox) : inbox' = SubSeq(inbox, 1, k)
  /\ UNCHANGED <<clientVars, mutex, outbox, relayVars>>

ConnectionCut == Breaks("cut")

PeerVanishes == MayVanish /\ Breaks("mute")

\* The kernel gives up on a vanished peer only while it has data to resend.
SendTimesOut ==
  /\ link = "mute" /\ outbox # <<>>
  /\ link' = "cut"
  /\ UNCHANGED <<clientVars, mutex, inbox, outbox, relayVars, faults>>

Relay ==
  \/ RelayGreets \/ RelayRefuses \/ RelayAsks \/ RelayChatters \/ RelayReceives
  \/ RelayCloses

Network == ConnectionCut \/ PeerVanishes \/ SendTimesOut

Next == Client \/ ConnectFails \/ FilterPanics \/ Relay \/ Network

Spec == Init /\ [][Next]_vars

\* The runtime polls the task and its timer fires; the handler returns; a relay
\* that has no more faults to commit greets, and reads what it is sent.
Fairness ==
  /\ WF_vars(Client) /\ WF_vars(RelayGreets) /\ WF_vars(RelayReceives)
  /\ WF_vars(SendTimesOut)

FairSpec == Spec /\ Fairness

-----------------------------------------------------------------------------
(* Properties.                                                             *)

AnswersTo(q) ==
  {Result(q.id, Raw(q.body), r) : r \in {Trim[Raw(q.body)], NoItems, Null}}

Queries == [id : Ids, body : Bodies \cup {Absent}]
AllAnswers == UNION {AnswersTo(q) : q \in Queries}

TypeOK ==
  /\ pc \in {"connect", "hello", "ack", "read", "lock", "handle", "send", "sleep", "dead"}
  /\ cur \in Frames \cup {Absent}
  /\ ret \in Results \cup {Error, Absent}
  /\ mutex \in Seq({"relay"})
  /\ link \in {"none", "open", "cut", "mute"}
  /\ inbox \in Seq(Frames)
  /\ outbox \in Seq({Hello} \cup AllAnswers)
  /\ greeted \in BOOLEAN
  /\ asked \in Seq(Queries)
  /\ answers \in Seq(AllAnswers)
  /\ faults \in 0 .. MaxFaults

\* Whatever is lost, skipped or repeated, the k-th result on its way to the
\* relay answers the k-th query it still waits for, in this session, and is
\* signed over the untrimmed body it sent; before hello_ok there is only the
\* hello (session(): the loop reads, handles, signs and sends in turn).
InOrder ==
  IF greeted
  THEN \A k \in DOMAIN outbox :
         /\ Len(answers) + k <= Len(asked)
         /\ outbox[k] \in AnswersTo(asked[Len(answers) + k])
  ELSE outbox \in {<<>>, <<Hello>>}

\* The filter's mutex is owned or awaited exactly from the moment a query is
\* taken until the handler is done with it: never while the socket is written,
\* while the client sleeps, or after a handler has panicked.
LockScope == mutex = IF pc \in {"lock", "handle"} THEN <<"relay">> ELSE <<>>

\* Once the handshake is done, no frame and no handler error ends the session:
\* only the loss of the connection or a panic does.  And only a panic of the
\* handler ends run().
SessionEndsForCause ==
  [][/\ link # "none" /\ link' = "none" => link = "cut" \/ pc = "ack" \/ pc' = "dead"
     /\ pc' = "dead" => pc \in {"handle", "dead"}]_vars

\* The client implements the transport the relay relies on.
Service == INSTANCE QueryService
             WITH Query <- Queries, Answers <- [q \in Queries |-> AnswersTo(q)]
Implements == Service!Spec

\* A query is answered unless its session is lost, or its peer has vanished.
Answered ==
  \A n \in 1 .. MaxAsked :
    (Len(asked) >= n) ~> (Len(answers) >= n \/ Len(asked) < n \/ link = "mute")

InSession == pc = "read" /\ link = "open"

\* However its sessions end, the client is in session again, and again, unless
\* the handler has panicked or the peer has vanished in silence.
Reconnects == []<>InSession \/ <>[](pc = "dead") \/ <>[](link = "mute")

\* What the README says: the library handles reconnection automatically.
AlwaysReconnects == []<>InSession
=============================================================================
