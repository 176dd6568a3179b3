------------------------- MODULE AgentServerProofs -------------------------
(***************************************************************************)
(* What the HTTP server promises, for any number of connections and any    *)
(* query strings: each node gets the reply to its own request, once, and   *)
(* the server implements Exchange.                                         *)
(***************************************************************************)
EXTENDS AgentServer, SequenceTheorems, TLAPS

\* TypeOK without the mutex, which other tasks may share.
Typed ==
  /\ spc \in {"recv", "route", "lock", "handle", "reply", "dead"}
  /\ job \in Conn \cup {Absent}
  /\ out \in Bodies \cup {NoItems, Null, Error, Absent}
  /\ queue \in Seq(Conn)
  /\ conn \in [Conn -> {"idle", "waiting", "gone"}]
  /\ ask  \in [Conn -> Requests \cup {Absent}]
  /\ body \in [Conn -> {"whole", "partial", "broken"}]
  /\ got  \in [Conn -> Replies \cup {Absent}]

\* The thread has a job between two receives, and its node has asked and has no
\* reply yet; from the mutex on it is a query, and then it has a result.
JobAsked ==
  /\ job = Absent <=> spc \in {"recv", "dead"}
  /\ job # Absent => conn[job] # "idle"
  /\ spc \in {"lock", "handle", "reply"} =>
       ask[job].path = "/agent/query" /\ ask[job].query \in Bodies
  /\ spc = "reply" => out \in {ask[job].query, NoItems, Null, Error}

\* Who waits, or has hung up on a request, has asked and has no reply; a body
\* breaks only when its node hangs up.
Asked ==
  \A c \in Conn :
    /\ conn[c] # "idle" => ask[c] \in Requests /\ got[c] = Absent
    /\ body[c] = "broken" => conn[c] = "gone"

Core == Typed /\ JobAsked /\ Asked /\ EachOnce /\ RepliesMatch

-----------------------------------------------------------------------------
(* Replies.                                                                *)

\* Each route's reply is one that its request may get.
LEMMA RouteReplies ==
  ASSUME NEW r \in Requests
  PROVE  /\ r.path = "/health" => Ok \in RepliesTo(r)
         /\ r.path = "/pop/gossip" => SelfCard \in RepliesTo(r)
         /\ r.path = "other" => NotFound \in RepliesTo(r)
         /\ r.path = "/agent/query" /\ r.query = Absent => BadQuery \in RepliesTo(r)
         /\ r.path \in {"/health", "/pop/gossip", "other", "/agent/query"}
  BY DEF RepliesTo, Requests

\* So is what a query gets that has reached the handler.
LEMMA QueryReplies ==
  ASSUME NEW r \in Requests, r.path = "/agent/query", r.query # Absent
  PROVE  /\ Failed \in RepliesTo(r) /\ Dropped \in RepliesTo(r)
         /\ \A x \in {r.query, NoItems, Null} : Signed(r.query, x) \in RepliesTo(r)
  BY DEF RepliesTo

-----------------------------------------------------------------------------
(* Steps.                                                                  *)

\* Before the first request nobody waits and nothing is in the queue.
LEMMA CoreInit == Init => Core
<1> SUFFICES ASSUME Init PROVE Core
  OBVIOUS
<1>1. Typed
  BY DEF Init, Typed
<1>2. JobAsked /\ Asked
  BY DEF Init, JobAsked, Asked
<1>3. EachOnce /\ RepliesMatch
  BY DEF Init, EachOnce, RepliesMatch
<1> QED
  BY <1>1, <1>2, <1>3 DEF Core

\* However the thread answers the request it serves, if the reply is one that the
\* request may get, or its node has hung up, everything is kept.
LEMMA RespondStep ==
  ASSUME Core, job # Absent, NEW reply, Respond(job, reply), UNCHANGED queue,
         spc' \in {"recv", "dead"},
         conn[job] = "waiting" => reply \in RepliesTo(ask[job])
  PROVE  Core'
<1> USE DEF Core
<1>1. job \in Conn /\ conn[job] # "idle" /\ ask[job] \in Requests
  BY DEF Typed, JobAsked, Asked
<1>2. /\ got'  = [got EXCEPT ![job] = IF conn[job] = "waiting" THEN reply ELSE @]
      /\ conn' = [conn EXCEPT ![job] = IF @ = "waiting" THEN "idle" ELSE @]
      /\ job' = Absent /\ out' = Absent /\ ask' = ask /\ body' = body /\ queue' = queue
  BY DEF Respond
<1>3. conn[job] = "waiting" => reply \in Replies
  BY <1>1 DEF Replies
<1>4. Typed'
  BY <1>1, <1>2, <1>3 DEF Typed
<1>5. /\ conn'[job] = (IF conn[job] = "waiting" THEN "idle" ELSE conn[job])
      /\ got'[job] = (IF conn[job] = "waiting" THEN reply ELSE got[job])
      /\ \A c \in Conn : c # job => conn'[c] = conn[c] /\ got'[c] = got[c]
  BY <1>1, <1>2 DEF Typed
<1>6. JobAsked'
  BY <1>2 DEF JobAsked
<1>7. Asked'
  BY <1>1, <1>2, <1>5 DEF Asked
<1>8. \A k \in DOMAIN queue : queue[k] \in Conn /\ queue[k] # job
  BY DEF Typed, EachOnce
<1>9. EachOnce'
  BY <1>1, <1>2, <1>5, <1>8, ServerAssumption DEF EachOnce
<1>10. RepliesMatch'
  BY <1>1, <1>2, <1>5 DEF RepliesMatch, Asked
<1> QED
  BY <1>4, <1>6, <1>7, <1>9, <1>10

\* Steps of the thread between receiving and answering change neither the queue
\* nor what the nodes see.
LEMMA InWorkStep ==
  ASSUME Core, UNCHANGED <<job, queue, connVars>>, job # Absent,
         spc' \in {"route", "lock", "handle", "reply"},
         spc' \in {"lock", "handle", "reply"} =>
           ask[job].path = "/agent/query" /\ ask[job].query \in Bodies,
         out' \in Bodies \cup {NoItems, Null, Error, Absent},
         spc' = "reply" => out' \in {ask[job].query, NoItems, Null, Error}
  PROVE  Core'
<1> USE DEF Core, connVars
<1>1. Typed'
  BY DEF Typed
<1>2. JobAsked'
  BY DEF JobAsked
<1>3. Asked' /\ EachOnce' /\ RepliesMatch'
  BY DEF Asked, EachOnce, RepliesMatch
<1> QED
  BY <1>1, <1>2, <1>3

\* The first of the queue becomes the job.
LEMMA ReceiveStep ==
  ASSUME Core, Receive
  PROVE  Core'
<1> USE DEF Core, Receive, connVars
<1>1. /\ queue \in Seq(Conn) /\ queue # <<>> /\ queue' = Tail(queue)
      /\ job' = Head(queue) /\ job = Absent
  BY DEF Typed, JobAsked
<1>2. /\ Head(queue) = queue[1] /\ 1 \in DOMAIN queue /\ queue[1] \in Conn
      /\ Tail(queue) \in Seq(Conn)
      /\ DOMAIN Tail(queue) = 1 .. Len(queue) - 1 /\ DOMAIN queue = 1 .. Len(queue)
      /\ Len(queue) \in Nat
      /\ \A k \in DOMAIN Tail(queue) : k + 1 \in DOMAIN queue /\ Tail(queue)[k] = queue[k + 1]
  BY <1>1
<1>3. Typed'
  BY <1>1, <1>2 DEF Typed
<1>4. JobAsked'
  BY <1>1, <1>2, ServerAssumption DEF JobAsked, EachOnce
<1>5. Asked' /\ RepliesMatch'
  BY DEF Asked, RepliesMatch
<1>6. ASSUME NEW c \in Conn, conn[c] = "waiting"
      PROVE  job' = c \/ \E k \in DOMAIN queue' : queue'[k] = c
  <2>1. PICK k \in DOMAIN queue : queue[k] = c
    BY <1>1, <1>6, ServerAssumption DEF EachOnce
  <2>2. CASE k = 1
    BY <2>1, <2>2, <1>1, <1>2
  <2>3. CASE k # 1
    <3>1. k - 1 \in DOMAIN Tail(queue) /\ Tail(queue)[k - 1] = queue[k]
      BY <2>3, <1>2
    <3> QED
      BY <3>1, <2>1, <1>1
  <2> QED
    BY <2>2, <2>3
<1>7. \A j, k \in DOMAIN queue' : queue'[j] = queue'[k] => j = k
  <2> SUFFICES ASSUME NEW j \in DOMAIN queue', NEW k \in DOMAIN queue', queue'[j] = queue'[k]
               PROVE  j = k
    OBVIOUS
  <2>1. queue[j + 1] = queue[k + 1] /\ {j + 1, k + 1} \subseteq DOMAIN queue
    BY <1>1, <1>2
  <2>2. j + 1 = k + 1
    BY <2>1 DEF EachOnce
  <2> QED
    BY <2>2, <1>1, <1>2
<1>8. \A k \in DOMAIN queue' : queue'[k] # job' /\ conn[queue'[k]] # "idle"
  <2> SUFFICES ASSUME NEW k \in DOMAIN queue'
               PROVE  queue'[k] # job' /\ conn[queue'[k]] # "idle"
    OBVIOUS
  <2>1. k + 1 \in DOMAIN queue /\ queue'[k] = queue[k + 1] /\ k \in Nat /\ k + 1 # 1
    BY <1>1, <1>2
  <2> QED
    BY <2>1, <1>1, <1>2 DEF EachOnce
<1>9. EachOnce'
  BY <1>6, <1>7, <1>8 DEF EachOnce
<1> QED
  BY <1>3, <1>4, <1>5, <1>9

\* A new request goes to the end of the queue, of a node that was not in it.
LEMMA RequestStep ==
  ASSUME Core, NEW c \in Conn, Request(c)
  PROVE  Core'
<1> USE DEF Core, Request, serverVars
<1>1. /\ queue \in Seq(Conn) /\ queue' = Append(queue, c) /\ conn[c] = "idle" /\ c # job
      /\ c # Absent /\ UNCHANGED <<spc, job, out>>
  BY ServerAssumption DEF Typed, JobAsked
<1>2. /\ queue' \in Seq(Conn) /\ Len(queue) \in Nat
      /\ DOMAIN queue = 1 .. Len(queue) /\ DOMAIN queue' = 1 .. Len(queue) + 1
      /\ queue'[Len(queue) + 1] = c
      /\ \A k \in DOMAIN queue : queue'[k] = queue[k] /\ queue[k] \in Conn /\ queue[k] # c
  BY <1>1 DEF EachOnce
<1>3. PICK r \in Requests : ask' = [ask EXCEPT ![c] = r]
  OBVIOUS
<1>4. PICK b \in {"whole", "partial"} : body' = [body EXCEPT ![c] = b]
  OBVIOUS
<1>5. /\ conn' = [conn EXCEPT ![c] = "waiting"] /\ got' = [got EXCEPT ![c] = Absent]
      /\ conn'[c] = "waiting" /\ got'[c] = Absent /\ ask'[c] = r /\ body'[c] = b
      /\ \A d \in Conn : d # c => /\ conn'[d] = conn[d] /\ got'[d] = got[d]
                                  /\ ask'[d] = ask[d] /\ body'[d] = body[d]
  BY <1>3, <1>4 DEF Typed
<1>6. Typed'
  BY <1>1, <1>2, <1>3, <1>4, <1>5 DEF Typed
<1>7. JobAsked'
  BY <1>1, <1>5 DEF JobAsked, Typed
<1>8. Asked' /\ RepliesMatch'
  BY <1>4, <1>5 DEF Asked, RepliesMatch
<1>9. ASSUME NEW d \in Conn, conn'[d] = "waiting"
      PROVE  job' = d \/ \E k \in DOMAIN queue' : queue'[k] = d
  <2>1. CASE d = c
    BY <2>1, <1>2
  <2>2. CASE d # c
    BY <2>2, <1>1, <1>2, <1>5, <1>9 DEF EachOnce
  <2> QED
    BY <2>1, <2>2
<1>10. \A j, k \in DOMAIN queue' : queue'[j] = queue'[k] => j = k
  <2> SUFFICES ASSUME NEW j \in DOMAIN queue', NEW k \in DOMAIN queue', queue'[j] = queue'[k]
               PROVE  j = k
    OBVIOUS
  <2>1. CASE j \in DOMAIN queue /\ k \in DOMAIN queue
    BY <2>1, <1>2 DEF EachOnce
  <2>2. CASE j \notin DOMAIN queue \/ k \notin DOMAIN queue
    <3>1. \A i \in DOMAIN queue' : i \notin DOMAIN queue => i = Len(queue) + 1
      BY <1>2
    <3> QED
      BY <3>1, <2>2, <1>2
  <2> QED
    BY <2>1, <2>2
<1>11. \A k \in DOMAIN queue' : queue'[k] # job' /\ conn'[queue'[k]] # "idle"
  <2> SUFFICES ASSUME NEW k \in DOMAIN queue'
               PROVE  queue'[k] # job' /\ conn'[queue'[k]] # "idle"
    OBVIOUS
  <2>1. CASE k \in DOMAIN queue
    BY <2>1, <1>1, <1>2, <1>5 DEF EachOnce
  <2>2. CASE k \notin DOMAIN queue
    <3>1. k = Len(queue) + 1
      BY <2>2, <1>2
    <3> QED
      BY <3>1, <1>1, <1>2, <1>5
  <2> QED
    BY <2>1, <2>2
<1>12. EachOnce'
  BY <1>9, <1>10, <1>11 DEF EachOnce
<1> QED
  BY <1>6, <1>7, <1>8, <1>12

\* A node that sends the rest of its body, or hangs up, takes nothing out of the
\* queue.
LEMMA WaitingStep ==
  ASSUME Core, NEW c \in Conn, SendRest(c) \/ HangUp(c)
  PROVE  Core'
<1> USE DEF Core, SendRest, HangUp, serverVars
<1>1. /\ UNCHANGED <<spc, job, out, queue, ask, got>> /\ conn[c] = "waiting"
      /\ \A d \in Conn : d # c => conn'[d] = conn[d] /\ body'[d] = body[d]
      /\ \/ conn'[c] = "waiting" /\ body'[c] = "whole"
         \/ conn'[c] = "gone"
      /\ conn' \in [Conn -> {"idle", "waiting", "gone"}]
      /\ body' \in [Conn -> {"whole", "partial", "broken"}]
  BY DEF Typed
<1>2. Typed'
  BY <1>1 DEF Typed
<1>3. JobAsked'
  BY <1>1 DEF JobAsked, Typed
<1>4. Asked' /\ RepliesMatch'
  BY <1>1 DEF Asked, RepliesMatch
<1>5. EachOnce'
  BY <1>1 DEF EachOnce, Typed
<1> QED
  BY <1>2, <1>3, <1>4, <1>5

\* The request that is served is one, and its route and its query are of their type.
LEMMA JobIs ==
  ASSUME Core, job # Absent
  PROVE  /\ job \in Conn /\ ask[job] \in Requests
         /\ ask[job].query \in Bodies \cup {Absent}
         /\ conn[job] = "waiting" => body[job] # "broken"
<1>1. job \in Conn /\ conn[job] # "idle"
  BY DEF Core, Typed, JobAsked
<1>2. ask[job] \in Requests /\ (conn[job] = "waiting" => body[job] # "broken")
  BY <1>1 DEF Core, Asked
<1>3. ask[job].query \in Bodies \cup {Absent}
  BY <1>2 DEF Requests
<1> QED
  BY <1>1, <1>2, <1>3

\* Every step of the server and of its nodes keeps the invariant.
LEMMA CoreStep ==
  ASSUME Core, Next
  PROVE  Core'
<1>1. CASE Receive
  BY <1>1, ReceiveStep
<1>2. CASE RespondAtOnce
  <2>1. job # Absent /\ Respond(job, IF ask[job].path = "/health" THEN Ok ELSE NotFound)
    BY <1>2 DEF RespondAtOnce, Core, JobAsked
  <2>2. (IF ask[job].path = "/health" THEN Ok ELSE NotFound) \in RepliesTo(ask[job])
    BY <1>2, <2>1, JobIs, RouteReplies DEF RespondAtOnce, HasBody
  <2> QED
    BY <1>2, <2>1, <2>2, RespondStep DEF RespondAtOnce
<1>3. CASE RespondGossip
  <2>1. job # Absent /\ Respond(job, SelfCard) /\ SelfCard \in RepliesTo(ask[job])
    BY <1>3, JobIs, RouteReplies DEF RespondGossip, BodyRead, Core, JobAsked
  <2> QED
    BY <1>3, <2>1, RespondStep DEF RespondGossip
<1>4. CASE RespondBadQuery
  <2>1. job # Absent /\ Respond(job, BadQuery)
    BY <1>4 DEF RespondBadQuery, BodyRead, Core, JobAsked
  <2>2. conn[job] = "waiting" => BadQuery \in RepliesTo(ask[job])
    BY <1>4, <2>1, JobIs, RouteReplies DEF RespondBadQuery, NoQuery
  <2> QED
    BY <1>4, <2>1, <2>2, RespondStep DEF RespondBadQuery
<1>5. CASE TakeQuery
  <2>1. job # Absent /\ ask[job].query # Absent /\ ask[job].path = "/agent/query"
    BY <1>5 DEF TakeQuery, BodyRead, NoQuery, Core, JobAsked
  <2>2. ask[job].query \in Bodies
    BY <2>1, JobIs
  <2> QED
    BY <1>5, <2>1, <2>2, InWorkStep DEF TakeQuery, Core, Typed
<1>6. CASE CallFilter
  <2>1. job # Absent /\ ask[job].path = "/agent/query" /\ ask[job].query \in Bodies
    BY <1>6 DEF CallFilter, Core, JobAsked
  <2> QED
    BY <1>6, <2>1, InWorkStep DEF CallFilter, Core, Typed
<1>7. CASE FilterReturns
  <2>1. job # Absent /\ ask[job].path = "/agent/query" /\ ask[job].query \in Bodies
    BY <1>7 DEF FilterReturns, Core, JobAsked
  <2> QED
    BY <1>7, <2>1, InWorkStep DEF FilterReturns
<1>8. CASE FilterPanics
  <2>1. job # Absent /\ ask[job].path = "/agent/query" /\ ask[job].query \in Bodies
    BY <1>8 DEF FilterPanics, Core, JobAsked
  <2>2. Dropped \in RepliesTo(ask[job])
    BY <2>1, JobIs, QueryReplies, ServerAssumption
  <2> QED
    BY <1>8, <2>1, <2>2, RespondStep DEF FilterPanics
<1>9. CASE RespondQuery
  <2>1. /\ job # Absent /\ ask[job].path = "/agent/query" /\ ask[job].query \in Bodies
        /\ out \in {ask[job].query, NoItems, Null, Error}
    BY <1>9 DEF RespondQuery, Core, JobAsked
  <2> DEFINE reply == IF out = Error THEN Failed ELSE Signed(ask[job].query, out)
  <2>2. reply \in RepliesTo(ask[job])
    BY <2>1, JobIs, QueryReplies, ServerAssumption
  <2> QED
    BY <1>9, <2>1, <2>2, RespondStep DEF RespondQuery
<1>10. ASSUME NEW c \in Conn, Node(c) PROVE Core'
  BY <1>10, RequestStep, WaitingStep DEF Node
<1> QED
  BY <1>1, <1>2, <1>3, <1>4, <1>5, <1>6, <1>7, <1>8, <1>9, <1>10 DEF Next, Server

\* A step that changes nothing keeps it, too.
LEMMA CoreStutter ==
  ASSUME Core, UNCHANGED <<serverVars, queue, connVars>>
  PROVE  Core'
BY DEF Core, Typed, JobAsked, Asked, EachOnce, RepliesMatch, serverVars, connVars

-----------------------------------------------------------------------------
(* Theorems.                                                               *)

\* The invariant holds in every state.
LEMMA CoreInvariant == Spec => []Core
<1>1. Core /\ [Next]_vars => Core'
  BY CoreStep, CoreStutter DEF vars
<1> QED
  BY CoreInit, <1>1, PTL DEF Spec

\* What a node gets is a reply to its own last request, signed over its own query,
\* whichever nodes come, hang up and call again.
THEOREM RepliesMatched == Spec => []RepliesMatch
<1>1. Core => RepliesMatch
  BY DEF Core
<1> QED
  BY <1>1, CoreInvariant, PTL

\* No request is forgotten, and none is served twice.
THEOREM ServedOnce == Spec => []EachOnce
<1>1. Core => EachOnce
  BY DEF Core
<1> QED
  BY <1>1, CoreInvariant, PTL

\* The thread owns or awaits the mutex exactly from taking a query to the end of
\* its handler.
THEOREM LockScoped == Spec => []LockScope
<1>1. Init => LockScope
  BY DEF Init, LockScope
<1>2. LockScope /\ [Next]_vars => LockScope'
  <2> SUFFICES ASSUME LockScope, [Next]_vars PROVE LockScope'
    OBVIOUS
  <2>1. Append(<<>>, "direct") = <<"direct">> /\ Tail(<<"direct">>) = <<>>
    OBVIOUS
  <2>2. CASE Server \/ FilterPanics
    BY <2>1, <2>2
       DEF Server, FilterPanics, Receive, RespondAtOnce, RespondGossip, RespondBadQuery,
           TakeQuery, CallFilter, FilterReturns, RespondQuery, BodyRead, LockScope
  <2>3. ASSUME NEW c \in Conn, Node(c) PROVE LockScope'
    BY <2>3 DEF Node, Request, SendRest, HangUp, serverVars, LockScope
  <2>4. CASE UNCHANGED vars
    BY <2>4 DEF vars, serverVars, LockScope
  <2> QED
    BY <2>2, <2>3, <2>4 DEF Next
<1> QED
  BY <1>1, <1>2, PTL DEF Spec

\* Every state is of its type.
THEOREM TypeCorrect == Spec => []TypeOK
<1>1. Core /\ LockScope => TypeOK
  <2>1. <<"direct">> \in Seq({"direct"}) /\ <<>> \in Seq({"direct"})
    OBVIOUS
  <2> QED
    BY <2>1 DEF Core, Typed, LockScope, TypeOK
<1> QED
  BY <1>1, CoreInvariant, LockScoped, PTL

-----------------------------------------------------------------------------
(* The server implements Exchange.                                         *)

\* Answering is one reply to the node that waits, or nothing if it has hung up.
LEMMA RespondAnswers ==
  ASSUME Core, job # Absent, NEW reply, Respond(job, reply),
         conn[job] = "waiting" => reply \in RepliesTo(ask[job])
  PROVE  [Service!Next]_(Service!vars)
<1>1. job \in Conn /\ ask[job] \in Requests
  BY JobIs
<1>2. /\ got'  = [got EXCEPT ![job] = IF conn[job] = "waiting" THEN reply ELSE @]
      /\ conn' = [conn EXCEPT ![job] = IF @ = "waiting" THEN "idle" ELSE @]
      /\ ask' = ask
  BY DEF Respond
<1>3. CASE conn[job] = "waiting"
  <2>1. conn' = [conn EXCEPT ![job] = "idle"] /\ got' = [got EXCEPT ![job] = reply]
    BY <1>2, <1>3
  <2>2. reply \in [r \in Requests |-> RepliesTo(r)][ask[job]]
    BY <1>1, <1>3
  <2>3. Service!Answer(job)
    BY <1>2, <1>3, <2>1, <2>2 DEF Service!Answer
  <2> QED
    BY <1>1, <2>3 DEF Service!Next
<1>4. CASE conn[job] # "waiting"
  BY <1>2, <1>4 DEF Core, Typed, Service!vars
<1> QED
  BY <1>3, <1>4

\* Each step is a step of Exchange, or changes nothing that a node sees.
LEMMA ExchangeStep ==
  ASSUME Core, [Next]_vars
  PROVE  [Service!Next]_(Service!vars)
<1>1. CASE Receive \/ TakeQuery \/ CallFilter \/ FilterReturns \/ UNCHANGED vars
  BY <1>1 DEF Receive, TakeQuery, CallFilter, FilterReturns, vars, connVars, Service!vars
<1>2. CASE RespondAtOnce
  <2>1. job # Absent /\ Respond(job, IF ask[job].path = "/health" THEN Ok ELSE NotFound)
    BY <1>2 DEF RespondAtOnce, Core, JobAsked
  <2>2. (IF ask[job].path = "/health" THEN Ok ELSE NotFound) \in RepliesTo(ask[job])
    BY <1>2, <2>1, JobIs, RouteReplies DEF RespondAtOnce, HasBody
  <2> QED
    BY <2>1, <2>2, RespondAnswers
<1>3. CASE RespondGossip
  BY <1>3, JobIs, RouteReplies, RespondAnswers DEF RespondGossip, BodyRead, Core, JobAsked
<1>4. CASE RespondBadQuery
  <2>1. job # Absent /\ Respond(job, BadQuery)
    BY <1>4 DEF RespondBadQuery, BodyRead, Core, JobAsked
  <2>2. conn[job] = "waiting" => BadQuery \in RepliesTo(ask[job])
    BY <1>4, <2>1, JobIs, RouteReplies DEF RespondBadQuery, NoQuery
  <2> QED
    BY <2>1, <2>2, RespondAnswers
<1>5. CASE FilterPanics \/ RespondQuery
  <2>1. /\ job # Absent /\ ask[job].path = "/agent/query" /\ ask[job].query \in Bodies
    BY <1>5 DEF FilterPanics, RespondQuery, Core, JobAsked
  <2>2. CASE FilterPanics
    BY <2>1, <2>2, JobIs, QueryReplies, RespondAnswers, ServerAssumption DEF FilterPanics
  <2>3. CASE RespondQuery
    <3>1. out \in {ask[job].query, NoItems, Null, Error}
      BY <2>3 DEF RespondQuery, Core, JobAsked
    <3>2. (IF out = Error THEN Failed ELSE Signed(ask[job].query, out)) \in RepliesTo(ask[job])
      BY <3>1, <2>1, JobIs, QueryReplies, ServerAssumption
    <3> QED
      BY <2>1, <2>3, <3>2, RespondAnswers DEF RespondQuery
  <2> QED
    BY <1>5, <2>2, <2>3
<1>6. ASSUME NEW c \in Conn, Node(c) PROVE [Service!Next]_(Service!vars)
  <2>1. CASE Request(c)
    <3>1. PICK r \in Requests : Service!Ask(c, r)
      BY <2>1 DEF Request, Service!Ask
    <3> QED
      BY <3>1 DEF Service!Next
  <2>2. CASE SendRest(c)
    BY <2>2 DEF SendRest, Service!vars
  <2>3. CASE HangUp(c)
    BY <2>3 DEF HangUp, Service!GiveUp, Service!Next
  <2> QED
    BY <1>6, <2>1, <2>2, <2>3 DEF Node
<1> QED
  BY <1>1, <1>2, <1>3, <1>4, <1>5, <1>6 DEF Next, Server

\* The server implements Exchange: over each connection, requests and replies take
\* turns, and each reply is for its request.
THEOREM ImplementsExchange == Spec => Implements
<1>1. Init => Service!Init
  BY DEF Init, Service!Init
<1>2. Core /\ [Next]_vars => [Service!Next]_(Service!vars)
  BY ExchangeStep
<1> QED
  BY <1>1, <1>2, CoreInvariant, PTL DEF Spec, Implements, Service!Spec
=============================================================================
