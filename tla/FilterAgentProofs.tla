------------------------- MODULE FilterAgentProofs -------------------------
(***************************************************************************)
(* One query is processed at a time, for every set of connections, ids and *)
(* query strings, however the two transports take turns.                   *)
(***************************************************************************)
EXTENDS FilterAgent, SequenceTheorems, TLAPS

RelayHas  == pc \in {"lock", "handle"}
DirectHas == spc \in {"lock", "handle"}

\* The mutex is what the two program counters say; the order of the two, when
\* both have a query in hand, is the only thing they leave open.
Turns ==
  /\ ~RelayHas /\ ~DirectHas => mutex = <<>>
  /\ RelayHas /\ ~DirectHas => mutex = <<"relay">>
  /\ ~RelayHas /\ DirectHas => mutex = <<"direct">>
  /\ RelayHas /\ DirectHas =>
       \/ mutex = <<"relay", "direct">> /\ spc = "lock"
       \/ mutex = <<"direct", "relay">> /\ pc = "lock"

\* A sequence of one element, as a mutex with one owner and nobody waiting.
LEMMA One ==
  ASSUME NEW x
  PROVE  /\ Append(<<>>, x) = <<x>> /\ Head(<<x>>) = x /\ Tail(<<x>>) = <<>>
         /\ Len(<<x>>) = 1 /\ DOMAIN <<x>> = {1} /\ <<x>>[1] = x
OBVIOUS

\* A sequence of two elements, as a mutex with an owner and one that waits.
LEMMA Two ==
  ASSUME NEW x, NEW y
  PROVE  /\ Append(<<x>>, y) = <<x, y>> /\ Head(<<x, y>>) = x /\ Tail(<<x, y>>) = <<y>>
         /\ Len(<<x, y>>) = 2 /\ DOMAIN <<x, y>> = {1, 2}
         /\ <<x, y>>[1] = x /\ <<x, y>>[2] = y
<1>1. Append(<<x>>, y) = <<x, y>>
  <2>1. <<x>> \in Seq({x, y}) /\ <<x, y>> \in Seq({x, y})
    OBVIOUS
  <2>2. Append(<<x>>, y) \in Seq({x, y}) /\ Len(Append(<<x>>, y)) = 2
    BY <2>1
  <2>3. Append(<<x>>, y)[1] = x /\ Append(<<x>>, y)[2] = y
    BY <2>1
  <2>4. /\ Len(<<x, y>>) = 2 /\ <<x, y>>[1] = x /\ <<x, y>>[2] = y
        /\ \A i \in 1 .. 2 : i = 1 \/ i = 2
    OBVIOUS
  <2>5. \A i \in 1 .. Len(Append(<<x>>, y)) : Append(<<x>>, y)[i] = <<x, y>>[i]
    BY <2>2, <2>3, <2>4
  <2> QED
    BY <2>1, <2>2, <2>4, <2>5, SeqEqual
<1>5. Head(<<x, y>>) = x
  OBVIOUS
<1>2. Tail(<<x, y>>) = <<y>>
  OBVIOUS
<1>3. Len(<<x, y>>) = 2 /\ <<x, y>>[1] = x /\ <<x, y>>[2] = y
  OBVIOUS
<1>4. DOMAIN <<x, y>> = {1, 2}
  <2>1. DOMAIN <<x, y>> = 1 .. 2
    OBVIOUS
  <2> QED
    BY <2>1
<1> QED
  BY <1>1, <1>2, <1>3, <1>4, <1>5

\* What can be at the head of the mutex, and what is behind it.
LEMMA Heads ==
  /\ Head(<<"relay">>) = "relay" /\ Head(<<"direct">>) = "direct"
  /\ Head(<<"relay", "direct">>) = "relay" /\ Head(<<"direct", "relay">>) = "direct"
  /\ Tail(<<"relay">>) = <<>> /\ Tail(<<"direct">>) = <<>>
  /\ Tail(<<"relay", "direct">>) = <<"direct">> /\ Tail(<<"direct", "relay">>) = <<"relay">>
  /\ Append(<<>>, "relay") = <<"relay">> /\ Append(<<>>, "direct") = <<"direct">>
  /\ Append(<<"relay">>, "direct") = <<"relay", "direct">>
  /\ Append(<<"direct">>, "relay") = <<"direct", "relay">>
<1>1. /\ Head(<<"relay">>) = "relay" /\ Tail(<<"relay">>) = <<>>
      /\ Head(<<"direct">>) = "direct" /\ Tail(<<"direct">>) = <<>>
      /\ Append(<<>>, "relay") = <<"relay">> /\ Append(<<>>, "direct") = <<"direct">>
  BY One
<1>2. /\ Head(<<"relay", "direct">>) = "relay" /\ Tail(<<"relay", "direct">>) = <<"direct">>
      /\ Append(<<"relay">>, "direct") = <<"relay", "direct">>
  BY Two
<1>3. /\ Head(<<"direct", "relay">>) = "direct" /\ Tail(<<"direct", "relay">>) = <<"relay">>
      /\ Append(<<"direct">>, "relay") = <<"direct", "relay">>
  BY Two
<1> QED
  BY <1>1, <1>2, <1>3

\* What a step of the relay client, or of its relay, may do to the mutex.
LEMMA RelaySteps ==
  ASSUME Relay!Next
  PROVE  \/ pc = "read" /\ pc' = "lock" /\ mutex' = Append(mutex, "relay")
         \/ pc = "lock" /\ pc' = "handle" /\ Head(mutex) = "relay" /\ mutex' = mutex
         \/ pc = "handle" /\ ~RelayHas' /\ mutex' = Tail(mutex)
         \/ ~RelayHas /\ ~RelayHas' /\ mutex' = mutex
         \/ pc' = pc /\ mutex' = mutex
<1> USE DEF RelayHas
<1>1. CASE Relay!Client
  BY <1>1
     DEF Relay!Client, Relay!Connected, Relay!Reconnect, Relay!SendHello, Relay!ReadAck,
         Relay!ReadEnd, Relay!ReadClose, Relay!SkipFrame, Relay!TakeQuery,
         Relay!CallFilter, Relay!FilterReturns, Relay!SendResult, Relay!Send,
         Relay!EndSession, Relay!LeaveSession, Relay!clientVars
<1>2. CASE Relay!ConnectFails \/ Relay!FilterPanics
  BY <1>2 DEF Relay!ConnectFails, Relay!FilterPanics, Relay!LeaveSession
<1>3. CASE Relay!Relay
  BY <1>3
     DEF Relay!Relay, Relay!RelayGreets, Relay!RelayRefuses, Relay!RelayAsks,
         Relay!RelayChatters, Relay!RelayReceives, Relay!RelayCloses, Relay!RelaySends,
         Relay!clientVars
<1>4. CASE Relay!Network
  BY <1>4
     DEF Relay!Network, Relay!ConnectionCut, Relay!PeerVanishes, Relay!SendTimesOut,
         Relay!Breaks, Relay!clientVars
<1> QED
  BY <1>1, <1>2, <1>3, <1>4 DEF Relay!Next

\* What a step of the HTTP server, or of its nodes, may do to it.
LEMMA DirectSteps ==
  ASSUME Direct!Next
  PROVE  \/ spc = "route" /\ spc' = "lock" /\ mutex' = Append(mutex, "direct")
         \/ spc = "lock" /\ spc' = "handle" /\ Head(mutex) = "direct" /\ mutex' = mutex
         \/ spc = "handle" /\ ~DirectHas' /\ mutex' = Tail(mutex)
         \/ ~DirectHas /\ ~DirectHas' /\ mutex' = mutex
         \/ spc' = spc /\ mutex' = mutex
<1> USE DEF DirectHas
<1>1. CASE Direct!Server \/ Direct!FilterPanics
  BY <1>1
     DEF Direct!Server, Direct!FilterPanics, Direct!Receive, Direct!RespondAtOnce,
         Direct!RespondGossip, Direct!RespondBadQuery, Direct!TakeQuery,
         Direct!CallFilter, Direct!FilterReturns, Direct!RespondQuery, Direct!BodyRead
<1>2. ASSUME NEW c \in Conn, Direct!Node(c)
      PROVE  spc' = spc /\ mutex' = mutex
  BY <1>2
     DEF Direct!Node, Direct!Request, Direct!SendRest, Direct!HangUp, Direct!serverVars
<1> QED
  BY <1>1, <1>2 DEF Direct!Next

\* In every state the mutex is what the two program counters say.
LEMMA TurnsInvariant == Spec => []Turns
<1>1. Init => Turns
  BY DEF Init, Relay!Init, Direct!Init, Turns, RelayHas, DirectHas
<1>2. Turns /\ [Next]_vars => Turns'
  <2> SUFFICES ASSUME Turns, [Next]_vars PROVE Turns'
    OBVIOUS
  <2>1. CASE Relay!Next /\ UNCHANGED directVars
    <3>1. spc' = spc
      BY <2>1 DEF directVars
    <3>2. CASE pc = "read" /\ pc' = "lock" /\ mutex' = Append(mutex, "relay")
      <4>1. CASE DirectHas
        <5>1. mutex = <<"direct">>
          BY <3>2, <4>1 DEF Turns, RelayHas, DirectHas
        <5>2. mutex' = <<"direct", "relay">>
          BY <3>2, <5>1, Heads
        <5> QED
          BY <3>1, <3>2, <4>1, <5>2 DEF Turns, RelayHas, DirectHas
      <4>2. CASE ~DirectHas
        <5>1. mutex = <<>>
          BY <3>2, <4>2 DEF Turns, RelayHas, DirectHas
        <5>2. mutex' = <<"relay">>
          BY <3>2, <5>1, Heads
        <5> QED
          BY <3>1, <3>2, <4>2, <5>2 DEF Turns, RelayHas, DirectHas
      <4> QED
        BY <4>1, <4>2
    <3>3. CASE pc = "lock" /\ pc' = "handle" /\ Head(mutex) = "relay" /\ mutex' = mutex
      <4>1. mutex # <<"direct", "relay">>
        BY <3>3, Heads
      <4> QED
        BY <3>1, <3>3, <4>1 DEF Turns, RelayHas, DirectHas
    <3>4. CASE pc = "handle" /\ ~RelayHas' /\ mutex' = Tail(mutex)
      <4>1. CASE DirectHas
        <5>1. mutex = <<"relay", "direct">>
          BY <3>4, <4>1 DEF Turns, RelayHas, DirectHas
        <5>2. mutex' = <<"direct">>
          BY <3>4, <5>1, Heads
        <5> QED
          BY <3>1, <3>4, <4>1, <5>2 DEF Turns, RelayHas, DirectHas
      <4>2. CASE ~DirectHas
        <5>1. mutex = <<"relay">>
          BY <3>4, <4>2 DEF Turns, RelayHas, DirectHas
        <5>2. mutex' = <<>>
          BY <3>4, <5>1, Heads
        <5> QED
          BY <3>1, <3>4, <4>2, <5>2 DEF Turns, RelayHas, DirectHas
      <4> QED
        BY <4>1, <4>2
    <3>5. CASE ((~RelayHas /\ ~RelayHas') \/ pc' = pc) /\ mutex' = mutex
      BY <3>1, <3>5 DEF Turns, RelayHas, DirectHas
    <3> QED
      BY <2>1, <3>2, <3>3, <3>4, <3>5, RelaySteps
  <2>2. CASE Direct!Next /\ UNCHANGED relayVars
    <3>1. pc' = pc
      BY <2>2 DEF relayVars
    <3>2. CASE spc = "route" /\ spc' = "lock" /\ mutex' = Append(mutex, "direct")
      <4>1. CASE RelayHas
        <5>1. mutex = <<"relay">>
          BY <3>2, <4>1 DEF Turns, RelayHas, DirectHas
        <5>2. mutex' = <<"relay", "direct">>
          BY <3>2, <5>1, Heads
        <5> QED
          BY <3>1, <3>2, <4>1, <5>2 DEF Turns, RelayHas, DirectHas
      <4>2. CASE ~RelayHas
        <5>1. mutex = <<>>
          BY <3>2, <4>2 DEF Turns, RelayHas, DirectHas
        <5>2. mutex' = <<"direct">>
          BY <3>2, <5>1, Heads
        <5> QED
          BY <3>1, <3>2, <4>2, <5>2 DEF Turns, RelayHas, DirectHas
      <4> QED
        BY <4>1, <4>2
    <3>3. CASE spc = "lock" /\ spc' = "handle" /\ Head(mutex) = "direct" /\ mutex' = mutex
      <4>1. mutex # <<"relay", "direct">>
        BY <3>3, Heads
      <4> QED
        BY <3>1, <3>3, <4>1 DEF Turns, RelayHas, DirectHas
    <3>4. CASE spc = "handle" /\ ~DirectHas' /\ mutex' = Tail(mutex)
      <4>1. CASE RelayHas
        <5>1. mutex = <<"direct", "relay">>
          BY <3>4, <4>1 DEF Turns, RelayHas, DirectHas
        <5>2. mutex' = <<"relay">>
          BY <3>4, <5>1, Heads
        <5> QED
          BY <3>1, <3>4, <4>1, <5>2 DEF Turns, RelayHas, DirectHas
      <4>2. CASE ~RelayHas
        <5>1. mutex = <<"direct">>
          BY <3>4, <4>2 DEF Turns, RelayHas, DirectHas
        <5>2. mutex' = <<>>
          BY <3>4, <5>1, Heads
        <5> QED
          BY <3>1, <3>4, <4>2, <5>2 DEF Turns, RelayHas, DirectHas
      <4> QED
        BY <4>1, <4>2
    <3>5. CASE ((~DirectHas /\ ~DirectHas') \/ spc' = spc) /\ mutex' = mutex
      BY <3>1, <3>5 DEF Turns, RelayHas, DirectHas
    <3> QED
      BY <2>2, <3>2, <3>3, <3>4, <3>5, DirectSteps
  <2>3. CASE UNCHANGED vars
    BY <2>3 DEF vars, relayVars, directVars, Turns, RelayHas, DirectHas
  <2> QED
    BY <2>1, <2>2, <2>3 DEF Next
<1> QED
  BY <1>1, <1>2, PTL DEF Spec

\* Handler calls never overlap, whichever transport the queries come by.
THEOREM Serialized == Spec => []OneAtATime
<1>1. Turns => OneAtATime
  BY DEF Turns, OneAtATime, RelayHas, DirectHas
<1> QED
  BY <1>1, TurnsInvariant, PTL

\* The mutex belongs to the transports that have a query in hand and to no
\* other, whatever became of a session, a thread or a handler.
THEOREM MutexOwners == Spec => []Owners
<1>1. Turns => Owners
  <2> SUFFICES ASSUME Turns PROVE Owners
    OBVIOUS
  <2> USE DEF Turns, Owners, RelayHas, DirectHas
  <2>1. CASE ~RelayHas /\ ~DirectHas
    BY <2>1
  <2>2. CASE RelayHas /\ ~DirectHas
    <3>1. mutex = <<"relay">>
      BY <2>2
    <3> QED
      BY <2>2, <3>1, One
  <2>3. CASE ~RelayHas /\ DirectHas
    <3>1. mutex = <<"direct">>
      BY <2>3
    <3> QED
      BY <2>3, <3>1, One
  <2>4. CASE RelayHas /\ DirectHas
    <3>1. CASE mutex = <<"relay", "direct">> /\ spc = "lock"
      BY <2>4, <3>1, Two
    <3>2. CASE mutex = <<"direct", "relay">> /\ pc = "lock"
      BY <2>4, <3>2, Two
    <3> QED
      BY <2>4, <3>1, <3>2
  <2> QED
    BY <2>1, <2>2, <2>3, <2>4
<1> QED
  BY <1>1, TurnsInvariant, PTL
-----------------------------------------------------------------------------
(* Each transport on its own.  Seen from one transport, the mutex is its    *)
(* own place in it and nothing else; with that for its mutex it takes the   *)
(* steps it would take with the filter to itself, and what is proved of it  *)
(* alone holds here.                                                       *)

OwnRelay  == IF RelayHas THEN <<"relay">> ELSE <<>>
OwnDirect == IF DirectHas THEN <<"direct">> ELSE <<>>

AloneRelay  == INSTANCE RelayClientProofs WITH mutex <- OwnRelay
AloneDirect == INSTANCE AgentServerProofs WITH mutex <- OwnDirect

\* A step of the relay client beside the server is one of the client alone.
LEMMA RelayAlone == Turns /\ Relay!Next => AloneRelay!Next
<1> SUFFICES ASSUME Turns, Relay!Next PROVE AloneRelay!Next
  OBVIOUS
<1> USE DEF RelayHas, OwnRelay
<1>1. CASE Relay!TakeQuery
  <2>1. OwnRelay = <<>> /\ OwnRelay' = <<"relay">>
    BY <1>1 DEF Relay!TakeQuery
  <2>2. OwnRelay' = Append(OwnRelay, "relay")
    BY <2>1, Heads
  <2> QED
    BY <1>1, <2>2
       DEF Relay!TakeQuery, AloneRelay!TakeQuery, AloneRelay!Next, AloneRelay!Client,
           Relay!IsQuery, AloneRelay!IsQuery, Relay!relayVars, AloneRelay!relayVars
<1>2. CASE Relay!CallFilter
  <2>1. OwnRelay = <<"relay">> /\ OwnRelay' = <<"relay">>
    BY <1>2 DEF Relay!CallFilter
  <2>2. Head(OwnRelay) = "relay"
    BY <2>1, Heads
  <2> QED
    BY <1>2, <2>1, <2>2
       DEF Relay!CallFilter, AloneRelay!CallFilter, AloneRelay!Next, AloneRelay!Client,
           Relay!relayVars, AloneRelay!relayVars, Relay!socketVars, AloneRelay!socketVars
<1>3. CASE Relay!FilterReturns
  <2>1. OwnRelay = <<"relay">> /\ OwnRelay' = <<>>
    BY <1>3 DEF Relay!FilterReturns
  <2>2. OwnRelay' = Tail(OwnRelay)
    BY <2>1, Heads
  <2> QED
    BY <1>3, <2>2
       DEF Relay!FilterReturns, AloneRelay!FilterReturns, AloneRelay!Next, AloneRelay!Client,
           Relay!Raw, AloneRelay!Raw,
           Relay!relayVars, AloneRelay!relayVars, Relay!socketVars, AloneRelay!socketVars
<1>4. CASE Relay!FilterPanics
  <2>1. OwnRelay = <<"relay">> /\ OwnRelay' = <<>>
    BY <1>4 DEF Relay!FilterPanics, Relay!LeaveSession
  <2>2. OwnRelay' = Tail(OwnRelay)
    BY <2>1, Heads
  <2> QED
    BY <1>4, <2>2
       DEF Relay!FilterPanics, AloneRelay!FilterPanics, AloneRelay!Next,
           Relay!LeaveSession, AloneRelay!LeaveSession
<1>5. CASE Relay!Connected \/ Relay!Reconnect \/ Relay!ConnectFails
  BY <1>5
     DEF Relay!Connected, Relay!Reconnect, Relay!ConnectFails, AloneRelay!Connected,
         AloneRelay!Reconnect, AloneRelay!ConnectFails, AloneRelay!Next, AloneRelay!Client,
         Relay!Fault, AloneRelay!Fault,
         Relay!relayVars, AloneRelay!relayVars, Relay!socketVars, AloneRelay!socketVars
<1>6. CASE Relay!SendHello
  BY <1>6
     DEF Relay!SendHello, AloneRelay!SendHello, AloneRelay!Next, AloneRelay!Client,
         Relay!Send, AloneRelay!Send, Relay!Hello, AloneRelay!Hello, Relay!relayVars, AloneRelay!relayVars,
         Relay!EndSession, AloneRelay!EndSession, Relay!LeaveSession, AloneRelay!LeaveSession
<1>7. CASE Relay!SendResult
  BY <1>7
     DEF Relay!SendResult, AloneRelay!SendResult, AloneRelay!Next, AloneRelay!Client,
         Relay!Send, AloneRelay!Send, Relay!Result, AloneRelay!Result, Relay!Raw, AloneRelay!Raw,
         Relay!Items, AloneRelay!Items, Relay!Sign, AloneRelay!Sign, Relay!relayVars, AloneRelay!relayVars,
         Relay!EndSession, AloneRelay!EndSession, Relay!LeaveSession, AloneRelay!LeaveSession
<1>8. CASE Relay!ReadAck \/ Relay!ReadEnd \/ Relay!ReadClose \/ Relay!SkipFrame
  BY <1>8
     DEF Relay!ReadAck, Relay!ReadEnd, Relay!ReadClose, Relay!SkipFrame,
         AloneRelay!ReadAck, AloneRelay!ReadEnd, AloneRelay!ReadClose, AloneRelay!SkipFrame,
         AloneRelay!Next, AloneRelay!Client, Relay!IsQuery, AloneRelay!IsQuery,
         Relay!relayVars, AloneRelay!relayVars, Relay!clientVars, AloneRelay!clientVars,
         Relay!EndSession, AloneRelay!EndSession, Relay!LeaveSession, AloneRelay!LeaveSession
<1>9. CASE Relay!Relay
  BY <1>9
     DEF Relay!Relay, Relay!RelayGreets, Relay!RelayRefuses, Relay!RelayAsks,
         Relay!RelayChatters, Relay!RelayReceives, Relay!RelayCloses, Relay!RelaySends,
         AloneRelay!Relay, AloneRelay!RelayGreets, AloneRelay!RelayRefuses, AloneRelay!RelayAsks,
         AloneRelay!RelayChatters, AloneRelay!RelayReceives, AloneRelay!RelayCloses,
         AloneRelay!RelaySends, AloneRelay!Next, Relay!Fault, AloneRelay!Fault,
         Relay!Frame, AloneRelay!Frame, Relay!HelloOk, AloneRelay!HelloOk, Relay!Close, AloneRelay!Close,
         Relay!clientVars, AloneRelay!clientVars, Relay!relayVars, AloneRelay!relayVars
<1>10. CASE Relay!Network
  BY <1>10
     DEF Relay!Network, Relay!ConnectionCut, Relay!PeerVanishes, Relay!SendTimesOut, Relay!Breaks,
         AloneRelay!Network, AloneRelay!ConnectionCut, AloneRelay!PeerVanishes,
         AloneRelay!SendTimesOut, AloneRelay!Breaks, AloneRelay!Next, Relay!Fault, AloneRelay!Fault,
         Relay!clientVars, AloneRelay!clientVars, Relay!relayVars, AloneRelay!relayVars
<1> QED
  BY <1>1, <1>2, <1>3, <1>4, <1>5, <1>6, <1>7, <1>8, <1>9, <1>10
     DEF Relay!Next, Relay!Client
\* A step of the server beside the client is one of the server alone.
LEMMA DirectAlone == Turns /\ Direct!Next => AloneDirect!Next
<1> SUFFICES ASSUME Turns, Direct!Next PROVE AloneDirect!Next
  OBVIOUS
<1> USE DEF DirectHas, OwnDirect
<1>1. CASE Direct!TakeQuery
  <2>1. OwnDirect = <<>> /\ OwnDirect' = <<"direct">>
    BY <1>1 DEF Direct!TakeQuery, Direct!BodyRead
  <2>2. OwnDirect' = Append(OwnDirect, "direct")
    BY <2>1, Heads
  <2> QED
    BY <1>1, <2>2
       DEF Direct!TakeQuery, AloneDirect!TakeQuery, AloneDirect!Next, AloneDirect!Server,
           Direct!BodyRead, AloneDirect!BodyRead, Direct!HasBody, AloneDirect!HasBody,
           Direct!NoQuery, AloneDirect!NoQuery, Direct!connVars, AloneDirect!connVars
<1>2. CASE Direct!CallFilter
  <2>1. OwnDirect = <<"direct">> /\ OwnDirect' = <<"direct">>
    BY <1>2 DEF Direct!CallFilter
  <2>2. Head(OwnDirect) = "direct"
    BY <2>1, Heads
  <2> QED
    BY <1>2, <2>1, <2>2
       DEF Direct!CallFilter, AloneDirect!CallFilter, AloneDirect!Next, AloneDirect!Server,
           Direct!connVars, AloneDirect!connVars
<1>3. CASE Direct!FilterReturns
  <2>1. OwnDirect = <<"direct">> /\ OwnDirect' = <<>>
    BY <1>3 DEF Direct!FilterReturns
  <2>2. OwnDirect' = Tail(OwnDirect)
    BY <2>1, Heads
  <2> QED
    BY <1>3, <2>2
       DEF Direct!FilterReturns, AloneDirect!FilterReturns, AloneDirect!Next,
           AloneDirect!Server, Direct!connVars, AloneDirect!connVars
<1>4. CASE Direct!FilterPanics
  <2>1. OwnDirect = <<"direct">> /\ OwnDirect' = <<>>
    BY <1>4 DEF Direct!FilterPanics
  <2>2. OwnDirect' = Tail(OwnDirect)
    BY <2>1, Heads
  <2> QED
    BY <1>4, <2>2
       DEF Direct!FilterPanics, AloneDirect!FilterPanics, AloneDirect!Next,
           Direct!Respond, AloneDirect!Respond, Direct!Dropped, AloneDirect!Dropped,
           Direct!Reply, AloneDirect!Reply
<1>5. CASE Direct!Receive
  BY <1>5
     DEF Direct!Receive, AloneDirect!Receive, AloneDirect!Next, AloneDirect!Server,
         Direct!connVars, AloneDirect!connVars
<1>6. CASE Direct!RespondAtOnce \/ Direct!RespondGossip \/ Direct!RespondBadQuery
  BY <1>6
     DEF Direct!RespondAtOnce, Direct!RespondGossip, Direct!RespondBadQuery,
         AloneDirect!RespondAtOnce, AloneDirect!RespondGossip, AloneDirect!RespondBadQuery,
         AloneDirect!Next, AloneDirect!Server,
         Direct!BodyRead, AloneDirect!BodyRead, Direct!HasBody, AloneDirect!HasBody,
         Direct!NoQuery, AloneDirect!NoQuery, Direct!Respond, AloneDirect!Respond,
         Direct!Ok, AloneDirect!Ok, Direct!NotFound, AloneDirect!NotFound,
         Direct!SelfCard, AloneDirect!SelfCard, Direct!BadQuery, AloneDirect!BadQuery,
         Direct!Reply, AloneDirect!Reply
<1>7. CASE Direct!RespondQuery
  BY <1>7
     DEF Direct!RespondQuery, AloneDirect!RespondQuery, AloneDirect!Next, AloneDirect!Server,
         Direct!Respond, AloneDirect!Respond, Direct!Failed, AloneDirect!Failed,
         Direct!Reply, AloneDirect!Reply, Direct!Signed, AloneDirect!Signed,
         Direct!Sign, AloneDirect!Sign
<1>8. ASSUME NEW c \in Conn, Direct!Node(c) PROVE AloneDirect!Next
  <2>1. AloneDirect!Node(c)
    BY <1>8
       DEF Direct!Node, Direct!Request, Direct!SendRest, Direct!HangUp, AloneDirect!Node,
           AloneDirect!Request, AloneDirect!SendRest, AloneDirect!HangUp,
           Direct!Requests, AloneDirect!Requests, Direct!HasBody, AloneDirect!HasBody,
           Direct!serverVars, AloneDirect!serverVars
  <2> QED
    BY <2>1 DEF AloneDirect!Next
<1> QED
  BY <1>1, <1>2, <1>3, <1>4, <1>5, <1>6, <1>7, <1>8 DEF Direct!Next, Direct!Server

\* The assumptions on the constants of the two are those of the agent.
LEMMA Assumptions == AloneRelay!RelayAssumption /\ AloneDirect!ServerAssumption
BY AgentAssumption
   DEF Relay!RelayAssumption, AloneRelay!RelayAssumption, Relay!Frames, AloneRelay!Frames,
       Relay!IsQuery, AloneRelay!IsQuery,
       Direct!ServerAssumption, AloneDirect!ServerAssumption

\* Beside the other transport each one behaves as it does alone.
LEMMA BothAlone == Spec => AloneRelay!Spec /\ AloneDirect!Spec
<1>1. Init => AloneRelay!Init /\ AloneDirect!Init
  BY DEF Init, Relay!Init, Direct!Init, AloneRelay!Init, AloneDirect!Init,
         OwnRelay, OwnDirect, RelayHas, DirectHas
<1>2. Turns /\ [Next]_vars => [AloneRelay!Next]_(AloneRelay!vars)
  <2> SUFFICES ASSUME Turns, [Next]_vars PROVE [AloneRelay!Next]_(AloneRelay!vars)
    OBVIOUS
  <2>1. CASE Relay!Next
    BY <2>1, RelayAlone
  <2>2. CASE UNCHANGED relayVars
    BY <2>2
       DEF relayVars, AloneRelay!vars, AloneRelay!clientVars, AloneRelay!socketVars,
           AloneRelay!relayVars, OwnRelay, RelayHas
  <2> QED
    BY <2>1, <2>2 DEF Next, vars
<1>3. Turns /\ [Next]_vars => [AloneDirect!Next]_(AloneDirect!vars)
  <2> SUFFICES ASSUME Turns, [Next]_vars PROVE [AloneDirect!Next]_(AloneDirect!vars)
    OBVIOUS
  <2>1. CASE Direct!Next
    BY <2>1, DirectAlone
  <2>2. CASE UNCHANGED directVars
    BY <2>2
       DEF directVars, AloneDirect!vars, AloneDirect!serverVars, AloneDirect!connVars,
           OwnDirect, DirectHas
  <2> QED
    BY <2>1, <2>2 DEF Next, vars
<1> QED
  BY <1>1, <1>2, <1>3, TurnsInvariant, PTL DEF Spec, AloneRelay!Spec, AloneDirect!Spec

\* In mode both each transport keeps what it promises on its own: results in
\* the order of the queries, replies that match, each request served once.
THEOREM PromisesKept == Spec => [](Relay!InOrder /\ Direct!RepliesMatch /\ Direct!EachOnce)
<1>1. AloneRelay!Spec => []AloneRelay!InOrder
  BY Assumptions, AloneRelay!AnswersInOrder
<1>2. AloneDirect!Spec => []AloneDirect!RepliesMatch
  BY Assumptions, AloneDirect!RepliesMatched
<1>3. AloneDirect!Spec => []AloneDirect!EachOnce
  BY Assumptions, AloneDirect!ServedOnce
<1>4. AloneRelay!InOrder /\ AloneDirect!RepliesMatch /\ AloneDirect!EachOnce
        => Relay!InOrder /\ Direct!RepliesMatch /\ Direct!EachOnce
  <2>1. AloneRelay!InOrder => Relay!InOrder
    BY DEF AloneRelay!InOrder, Relay!InOrder, AloneRelay!AnswersTo, Relay!AnswersTo,
           AloneRelay!Result, Relay!Result, AloneRelay!Raw, Relay!Raw, AloneRelay!Sign, Relay!Sign,
           AloneRelay!Hello, Relay!Hello
  <2>2. AloneDirect!RepliesMatch => Direct!RepliesMatch
    BY DEF AloneDirect!RepliesMatch, Direct!RepliesMatch, AloneDirect!RepliesTo, Direct!RepliesTo,
           AloneDirect!Ok, Direct!Ok, AloneDirect!NotFound, Direct!NotFound,
           AloneDirect!SelfCard, Direct!SelfCard, AloneDirect!BadQuery, Direct!BadQuery,
           AloneDirect!Failed, Direct!Failed, AloneDirect!Dropped, Direct!Dropped,
           AloneDirect!Reply, Direct!Reply, AloneDirect!Signed, Direct!Signed,
           AloneDirect!Sign, Direct!Sign
  <2>3. AloneDirect!EachOnce => Direct!EachOnce
    BY DEF AloneDirect!EachOnce, Direct!EachOnce
  <2> QED
    BY <2>1, <2>2, <2>3
<1> QED
  BY <1>1, <1>2, <1>3, <1>4, BothAlone, PTL

\* In mode both the agent still implements both services, to its relay and to its
\* nodes.
THEOREM ServicesKept == Spec => Relay!Implements /\ Direct!Implements
<1>1. AloneRelay!Spec => AloneRelay!Implements
  BY Assumptions, AloneRelay!ImplementsService
<1>2. AloneDirect!Spec => AloneDirect!Implements
  BY Assumptions, AloneDirect!ImplementsExchange
<1>3. AloneRelay!Implements => Relay!Implements
  <2>1. \A q \in Relay!Queries : AloneRelay!AnswersTo(q) = Relay!AnswersTo(q)
    BY DEF AloneRelay!AnswersTo, Relay!AnswersTo, AloneRelay!Result, Relay!Result,
           AloneRelay!Raw, Relay!Raw, AloneRelay!Sign, Relay!Sign
  <2>2. AloneRelay!Queries = Relay!Queries
    BY DEF AloneRelay!Queries, Relay!Queries
  <2>3. AloneRelay!Service!Init => Relay!Service!Init
    BY DEF AloneRelay!Service!Init, Relay!Service!Init
  <2>4. [AloneRelay!Service!Next]_(AloneRelay!Service!vars)
          => [Relay!Service!Next]_(Relay!Service!vars)
    BY <2>1, <2>2
       DEF AloneRelay!Service!Next, Relay!Service!Next, AloneRelay!Service!vars, Relay!Service!vars,
           AloneRelay!Service!Ask, Relay!Service!Ask, AloneRelay!Service!Answer, Relay!Service!Answer,
           AloneRelay!Service!Lose, Relay!Service!Lose
  <2> QED
    BY <2>3, <2>4, PTL
       DEF AloneRelay!Implements, Relay!Implements, AloneRelay!Service!Spec, Relay!Service!Spec
<1>4. AloneDirect!Implements => Direct!Implements
  <2>1. AloneDirect!Requests = Direct!Requests
    BY DEF AloneDirect!Requests, Direct!Requests
  <2>2. \A r \in Direct!Requests : AloneDirect!RepliesTo(r) = Direct!RepliesTo(r)
    BY DEF AloneDirect!RepliesTo, Direct!RepliesTo,
           AloneDirect!Ok, Direct!Ok, AloneDirect!NotFound, Direct!NotFound,
           AloneDirect!SelfCard, Direct!SelfCard, AloneDirect!BadQuery, Direct!BadQuery,
           AloneDirect!Failed, Direct!Failed, AloneDirect!Dropped, Direct!Dropped,
           AloneDirect!Reply, Direct!Reply, AloneDirect!Signed, Direct!Signed,
           AloneDirect!Sign, Direct!Sign
  <2>3. AloneDirect!Service!Init => Direct!Service!Init
    BY DEF AloneDirect!Service!Init, Direct!Service!Init
  <2>4. [AloneDirect!Service!Next]_(AloneDirect!Service!vars)
          => [Direct!Service!Next]_(Direct!Service!vars)
    BY <2>1, <2>2
       DEF AloneDirect!Service!Next, Direct!Service!Next,
           AloneDirect!Service!vars, Direct!Service!vars,
           AloneDirect!Service!Ask, Direct!Service!Ask,
           AloneDirect!Service!Answer, Direct!Service!Answer,
           AloneDirect!Service!GiveUp, Direct!Service!GiveUp
  <2> QED
    BY <2>3, <2>4, PTL
       DEF AloneDirect!Implements, Direct!Implements, AloneDirect!Service!Spec, Direct!Service!Spec
<1> QED
  BY <1>1, <1>2, <1>3, <1>4, BothAlone, PTL
=============================================================================
