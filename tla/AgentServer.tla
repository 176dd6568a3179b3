---------------------------- MODULE AgentServer ----------------------------
(***************************************************************************)
(* Model A: the HTTP server of an agent (src/server.rs, AgentServer) and   *)
(* the nodes that call it.                                                 *)
(*                                                                         *)
(* tiny_http accepts connections and parses request heads on threads of    *)
(* its own and queues the requests; one thread takes them off the queue    *)
(* and serves each to the end, reading its body, waiting for the filter's  *)
(* mutex and running the handler on the way.  A connection carries one     *)
(* request at a time and may be dropped by its node while the server still *)
(* works for it.                                                           *)
(***************************************************************************)
EXTENDS Naturals, Sequences, Signing

CONSTANTS
  Conn,               \* connections of the nodes that call
  Bodies,             \* query strings
  Absent,             \* no query, no request, no reply
  NoItems, Null,      \* the results `[]` and `null`
  Error,              \* the handler returned Err(_)
  MayPanic            \* whether the handler may panic

VARIABLES
  spc,                \* where the server thread is
  job,                \* the connection it serves
  out,                \* what the handler returned for it
  mutex,              \* tasks that own (first) or wait for the filter's mutex
  queue,              \* connections whose request waits for the thread
  conn,               \* each connection: "idle", "waiting" for a reply, "gone"
  ask, body, got      \* its last request, how much of its body is there, its reply

serverVars == <<spc, job, out>>
connVars   == <<conn, ask, body, got>>
vars == <<serverVars, mutex, queue, connVars>>

-----------------------------------------------------------------------------
Requests == [path : {"/agent/query"}, query : Bodies \cup {Absent}]
              \cup [path : {"/health", "/pop/gossip", "other"}, query : {Absent}]

HasBody(r) == r.path \in {"/agent/query", "/pop/gossip"}

Reply(status, what) == [status |-> status, what |-> what, results |-> Absent, signature |-> Absent]
Signed(q, r) == [status |-> 200, what |-> "results", results |-> r, signature |-> Sign(q, r)]

Ok        == Reply(200, "ok")
BadQuery  == Reply(400, "bad query")
Failed    == Reply(500, "error")
Dropped   == Reply(500, "")           \* tiny_http, for a request nobody answered
SelfCard  == Reply(200, "gossip")
NotFound  == Reply(404, "")

ASSUME ServerAssumption ==
  Absent \notin Bodies /\ Absent \notin Conn /\ Error \notin Bodies \cup {NoItems, Null}
    /\ MayPanic \in BOOLEAN

Init ==
  /\ spc = "recv" /\ job = Absent /\ out = Absent
  /\ mutex = <<>> /\ queue = <<>>
  /\ conn = [c \in Conn |-> "idle"] /\ ask = [c \in Conn |-> Absent]
  /\ body = [c \in Conn |-> "whole"] /\ got = [c \in Conn |-> Absent]

-----------------------------------------------------------------------------
(* The nodes.                                                              *)

\* A connection is one that the server has accepted: its requests are parsed and
\* queued by tiny_http, even where no thread takes them off the queue any more.
Request(c) ==
  /\ conn[c] = "idle"
  /\ \E r \in Requests :
       /\ ask' = [ask EXCEPT ![c] = r]
       /\ \E b \in (IF HasBody(r) THEN {"whole", "partial"} ELSE {"whole"}) :
            body' = [body EXCEPT ![c] = b]
  /\ got' = [got EXCEPT ![c] = Absent]
  /\ conn' = [conn EXCEPT ![c] = "waiting"]
  /\ queue' = Append(queue, c)
  /\ UNCHANGED <<serverVars, mutex>>

SendRest(c) ==
  /\ conn[c] = "waiting" /\ body[c] = "partial"
  /\ body' = [body EXCEPT ![c] = "whole"]
  /\ UNCHANGED <<serverVars, mutex, queue, conn, ask, got>>

\* What the node has not sent yet the server never gets.
HangUp(c) ==
  /\ conn[c] = "waiting"
  /\ conn' = [conn EXCEPT ![c] = "gone"]
  /\ body' = [body EXCEPT ![c] = IF @ = "partial" THEN "broken" ELSE @]
  /\ UNCHANGED <<serverVars, mutex, queue, ask, got>>

-----------------------------------------------------------------------------
(* The server thread.                                                      *)

\* Errors of respond() are ignored: a node that has hung up gets nothing.
Respond(c, reply) ==
  /\ got'  = [got EXCEPT ![c] = IF conn[c] = "waiting" THEN reply ELSE @]
  /\ conn' = [conn EXCEPT ![c] = IF @ = "waiting" THEN "idle" ELSE @]
  /\ job' = Absent /\ out' = Absent
  /\ UNCHANGED <<ask, body>>

\* Mutant: the request stays in the queue while it is served.
Receive_Peeks ==
  /\ spc = "recv" /\ queue # <<>>
  /\ job' = Head(queue) /\ spc' = "route"
  /\ UNCHANGED <<out, mutex, queue, connVars>>

Receive ==
  /\ spc = "recv" /\ queue # <<>>
  /\ queue' = Tail(queue) /\ job' = Head(queue) /\ spc' = "route"
  /\ UNCHANGED <<out, mutex, connVars>>

\* Mutant: a query is taken for a path that is not known.
RespondAtOnce_AnyPath ==
  /\ spc = "route"
  /\ Respond(job, IF ask[job].path = "/health" THEN Ok ELSE NotFound)
  /\ spc' = "recv"
  /\ UNCHANGED <<mutex, queue>>

RespondAtOnce ==
  /\ spc = "route" /\ ~HasBody(ask[job])
  /\ Respond(job, IF ask[job].path = "/health" THEN Ok ELSE NotFound)
  /\ spc' = "recv"
  /\ UNCHANGED <<mutex, queue>>

\* read_to_string() waits for the whole body and its errors are ignored: what
\* is left of a broken one is no query, and /pop/gossip does not look at it.
BodyRead == spc = "route" /\ HasBody(ask[job]) /\ body[job] # "partial"

NoQuery(c) == ask[c].query = Absent \/ body[c] = "broken"

RespondGossip ==
  /\ BodyRead /\ ask[job].path = "/pop/gossip"
  /\ Respond(job, SelfCard) /\ spc' = "recv"
  /\ UNCHANGED <<mutex, queue>>

RespondBadQuery ==
  /\ BodyRead /\ ask[job].path = "/agent/query" /\ NoQuery(job)
  /\ Respond(job, BadQuery) /\ spc' = "recv"
  /\ UNCHANGED <<mutex, queue>>

TakeQuery ==
  /\ BodyRead /\ ask[job].path = "/agent/query" /\ ~NoQuery(job)
  /\ mutex' = Append(mutex, "direct") /\ spc' = "lock"
  /\ UNCHANGED <<job, out, queue, connVars>>

CallFilter ==
  /\ spc = "lock" /\ Head(mutex) = "direct"
  /\ spc' = "handle"
  /\ UNCHANGED <<job, out, mutex, queue, connVars>>

\* Mutant: the guard lives on while the reply is signed and sent.
FilterReturns_KeepsGuard ==
  /\ spc = "handle"
  /\ out' \in {ask[job].query, NoItems, Null, Error}
  /\ spc' = "reply"
  /\ UNCHANGED <<job, mutex, queue, connVars>>

FilterReturns ==
  /\ spc = "handle"
  /\ out' \in {ask[job].query, NoItems, Null, Error}
  /\ mutex' = Tail(mutex) /\ spc' = "reply"
  /\ UNCHANGED <<job, queue, connVars>>

\* Mutant: the mutex stays locked when the handler panics.
FilterPanics_KeepsGuard ==
  /\ spc = "handle" /\ MayPanic
  /\ Respond(job, Dropped)
  /\ spc' = "dead"
  /\ UNCHANGED <<mutex, queue>>

\* Unwinding ends the thread and drops the server: the listener is closed, and
\* nobody takes off the queue what is in it, or what kept connections still ask.
FilterPanics ==
  /\ spc = "handle" /\ MayPanic
  /\ Respond(job, Dropped)
  /\ mutex' = Tail(mutex) /\ spc' = "dead"
  /\ UNCHANGED queue

\* Mutant: the reply is signed in the older form, which leaves the query out.
RespondQuery_SignsResultsOnly ==
  /\ spc = "reply"
  /\ Respond(job, IF out = Error THEN Failed
                  ELSE [Signed(ask[job].query, out) EXCEPT !.signature = Sign(Absent, out)])
  /\ spc' = "recv"
  /\ UNCHANGED <<mutex, queue>>

\* Mutant: an error of the handler is signed like a result.
RespondQuery_SignsError ==
  /\ spc = "reply"
  /\ Respond(job, Signed(ask[job].query, out))
  /\ spc' = "recv"
  /\ UNCHANGED <<mutex, queue>>

\* Mutant: an error of the handler is only logged.
RespondQuery_ErrorSkipped ==
  /\ spc = "reply"
  /\ IF out = Error THEN job' = Absent /\ out' = Absent /\ UNCHANGED connVars
                    ELSE Respond(job, Signed(ask[job].query, out))
  /\ spc' = "recv"
  /\ UNCHANGED <<mutex, queue>>

RespondQuery ==
  /\ spc = "reply"
  /\ Respond(job, IF out = Error THEN Failed ELSE Signed(ask[job].query, out))
  /\ spc' = "recv"
  /\ UNCHANGED <<mutex, queue>>

Server ==
  \/ Receive \/ RespondAtOnce \/ RespondGossip \/ RespondBadQuery
  \/ TakeQuery \/ CallFilter \/ FilterReturns \/ RespondQuery

Node(c) == Request(c) \/ SendRest(c) \/ HangUp(c)

Next == Server \/ FilterPanics \/ \E c \in Conn : Node(c)

Spec == Init /\ [][Next]_vars

\* The thread is scheduled and the handler returns.  The code sets no time
\* limit on a body: that a node sends the rest or hangs up is assumed of it.
Fairness ==
  WF_vars(Server) /\ \A c \in Conn : WF_vars(body[c] = "partial" /\ (SendRest(c) \/ HangUp(c)))

FairSpec == Spec /\ Fairness

-----------------------------------------------------------------------------
(* Properties.                                                             *)

RepliesTo(r) ==
  CASE r.path = "/health"      -> {Ok}
    [] r.path = "/pop/gossip"  -> {SelfCard}
    [] r.path = "other"        -> {NotFound}
    [] r.path = "/agent/query" ->
         IF r.query = Absent THEN {BadQuery}
         ELSE {Signed(r.query, x) : x \in {r.query, NoItems, Null}} \cup {Failed, Dropped}

Replies == UNION {RepliesTo(r) : r \in Requests}

TypeOK ==
  /\ spc \in {"recv", "route", "lock", "handle", "reply", "dead"}
  /\ job \in Conn \cup {Absent}
  /\ out \in Bodies \cup {NoItems, Null, Error, Absent}
  /\ mutex \in Seq({"direct"}) /\ queue \in Seq(Conn)
  /\ conn \in [Conn -> {"idle", "waiting", "gone"}]
  /\ ask  \in [Conn -> Requests \cup {Absent}]
  /\ body \in [Conn -> {"whole", "partial", "broken"}]
  /\ got  \in [Conn -> Replies \cup {Absent}]

\* However nodes come, hang up and call again on connections they keep, what a
\* node gets is a reply to its own last request, signed over its own query.
RepliesMatch == \A c \in Conn : got[c] # Absent => got[c] \in RepliesTo(ask[c])

\* No request is forgotten and none is served twice: a node that waits is in
\* the queue once, or is being served, and not both.  After a panic all that wait
\* are in the queue, with those that ask on a kept connection later (server.rs:96).
EachOnce ==
  /\ \A c \in Conn : conn[c] = "waiting" => job = c \/ \E k \in DOMAIN queue : queue[k] = c
  /\ \A j, k \in DOMAIN queue : queue[j] = queue[k] => j = k
  /\ \A k \in DOMAIN queue : queue[k] # job /\ conn[queue[k]] # "idle"

\* Each connection on its own is an exchange of requests and replies, whatever
\* happens on the others that wait for the same thread.
Service == INSTANCE Exchange WITH
  Questions <- Requests, Allowed <- [r \in Requests |-> RepliesTo(r)], None <- Absent,
  state <- conn, request <- ask, reply <- got

Implements == Service!Spec

\* The server thread holds or awaits the mutex exactly while it runs the
\* handler or waits for it: not while a slow node sends or reads.
LockScope == mutex = IF spc \in {"lock", "handle"} THEN <<"direct">> ELSE <<>>

\* As long as no handler panics, each node that stays is answered, although
\* all of them wait for the one thread.
Served == \A c \in Conn : (conn[c] = "waiting") ~> (conn[c] # "waiting" \/ spc = "dead")
=============================================================================
