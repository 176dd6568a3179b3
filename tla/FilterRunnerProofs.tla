------------------------- MODULE FilterRunnerProofs -------------------------
(***************************************************************************)
(* What run() leaves behind and what its pusher does, for any number of    *)
(* seeds.                                                                  *)
(***************************************************************************)
EXTENDS FilterRunner, TLAPS

\* The pusher is of its type, its turns are in order, and stop() has returned only
\* if the thread has ended.
PusherOK == Gossip!TypeOK /\ Gossip!EveryTurn /\ (owner = "stopped" => ppc = "ended")

\* What runs at each place of run(): nothing before the server is bound, and the
\* relay client, once started, is left only by a panic or a drop.
Running ==
  /\ pc \in {"check", "identity", "bind", "err"} => server = "none" /\ ~pusher
  /\ pc \in {"spawn", "interval"} => ~pusher
  /\ pc \in {"stop", "joinPusher", "ok"} => server = "dead"
  /\ relay # "none" => pc \in {"relay", "panicked", "dropped"}
  /\ pc = "ok" => ppc = "ended"

Inv == TypeOK /\ PusherOK /\ Running

-----------------------------------------------------------------------------
(* The pusher.                                                             *)

\* A step of the thread keeps its part of the invariant: a round goes through the
\* seeds in order and is over after the last.
LEMMA PusherSteps ==
  ASSUME PusherOK, Gossip!Pusher
  PROVE  PusherOK' /\ ppc # "ended"
<1> USE RunnerAssumption DEF PusherOK, Gossip!TypeOK, Gossip!EveryTurn
<1>1. CASE Gossip!BeginRound
  BY <1>1 DEF Gossip!BeginRound
<1>2. CASE Gossip!Exit \/ Gossip!Wakes
  BY <1>2 DEF Gossip!Exit, Gossip!Wakes
<1>3. CASE Gossip!Connects
  BY <1>3 DEF Gossip!Connects
<1>4. CASE Gossip!Writes
  BY <1>4 DEF Gossip!Writes
<1>5. CASE Gossip!PostFails \/ Gossip!Drained
  <2>1. /\ ppc \in {"connect", "write", "drain"} /\ tried = 1 .. at /\ at \in 1 .. N
        /\ Gossip!NextSeed /\ UNCHANGED <<talking, stop, owner, got>>
    BY <1>5 DEF Gossip!PostFails, Gossip!Drained
  <2>2. CASE at < N
    <3>1. ppc' = "connect" /\ at' = at + 1 /\ tried' = tried \cup {at + 1}
      BY <2>1, <2>2 DEF Gossip!NextSeed
    <3>2. at + 1 \in 1 .. N /\ (1 .. at) \cup {at + 1} = 1 .. at + 1
      BY <2>1, <2>2
    <3> QED
      BY <2>1, <3>1, <3>2
  <2>3. CASE at = N
    <3>1. ppc' = "sleep" /\ at' = at /\ tried' = tried
      BY <2>1, <2>3 DEF Gossip!NextSeed
    <3> QED
      BY <2>1, <2>3, <3>1
  <2> QED
    BY <2>1, <2>2, <2>3
<1> QED
  BY <1>1, <1>2, <1>3, <1>4, <1>5 DEF Gossip!Pusher

\* So do the seeds and the owner of the thread.
LEMMA AroundPusher ==
  ASSUME PusherOK, Gossip!FallsSilent \/ Gossip!Stop \/ Gossip!Joined \/ UNCHANGED gossipVars
  PROVE  PusherOK' /\ ppc' = ppc
BY DEF PusherOK, Gossip!TypeOK, Gossip!EveryTurn, Gossip!FallsSilent, Gossip!Stop,
       Gossip!Joined, gossipVars

-----------------------------------------------------------------------------
(* run().                                                                  *)

\* A run begins with nothing started.
LEMMA InvInit == Init => Inv
<1> SUFFICES ASSUME Init PROVE Inv
  OBVIOUS
<1>1. PusherOK
  <2>1. /\ ppc = "loop" /\ at = 1 /\ talking = FALSE /\ stop = FALSE /\ owner = "runs"
        /\ tried = {} /\ got = {} /\ 1 \in 1 .. N
    BY RunnerAssumption DEF Init, Gossip!Init
  <2>2. {talking, stop} \subseteq BOOLEAN
    BY <2>1
  <2> QED
    BY <2>1, <2>2 DEF PusherOK, Gossip!TypeOK, Gossip!EveryTurn
<1>2. TypeOK /\ Running
  BY <1>1 DEF Init, PusherOK, TypeOK, Running
<1> QED
  BY <1>1, <1>2 DEF Inv

\* Each step of run(), of the handler, of the caller and of the pusher keeps the
\* invariant.
LEMMA InvStep ==
  ASSUME Inv, [Next]_vars
  PROVE  Inv'
<1> USE DEF Inv, Running
<1>1. CASE CheckMode \/ MakeIdentity \/ Bind \/ StartServer \/ StartPusher \/ StartRelay
             \/ ServerJoined
  <2>1. UNCHANGED gossipVars
    BY <1>1 DEF CheckMode, MakeIdentity, Bind, StartServer, StartPusher, StartRelay, ServerJoined
  <2>2. PusherOK' /\ ppc' = ppc
    BY <2>1, AroundPusher
  <2>3. TypeOK'
    BY <1>1, <2>2
       DEF TypeOK, PusherOK, CheckMode, MakeIdentity, Bind, StartServer, StartPusher,
           StartRelay, ServerJoined, Goto, HasServer, HasRelay
  <2>4. Running'
    BY <1>1, <2>2
       DEF TypeOK, CheckMode, MakeIdentity, Bind, StartServer, StartPusher, StartRelay,
           ServerJoined, Goto, HasServer, HasRelay
  <2> QED
    BY <2>2, <2>3, <2>4
<1>2. CASE StopPusher
  <2>1. PusherOK' /\ ppc' = ppc
    BY <1>2, AroundPusher DEF StopPusher
  <2> QED
    BY <1>2, <2>1 DEF StopPusher, Goto, TypeOK, PusherOK
<1>3. CASE PusherJoined
  <2>1. PusherOK' /\ ppc' = ppc /\ ppc = "ended"
    BY <1>3, AroundPusher DEF PusherJoined, Gossip!Joined
  <2> QED
    BY <1>3, <2>1 DEF PusherJoined, Goto, TypeOK, PusherOK
<1>4. CASE ServerPanics \/ RelayPanics \/ Drop
  <2>1. UNCHANGED gossipVars
    BY <1>4 DEF ServerPanics, RelayPanics, Drop
  <2>2. PusherOK' /\ ppc' = ppc
    BY <2>1, AroundPusher
  <2> QED
    BY <1>4, <2>2 DEF ServerPanics, RelayPanics, Drop, Goto, TypeOK, PusherOK
<1>5. CASE PusherStep
  <2>1. UNCHANGED runVars /\ (Gossip!Pusher \/ Gossip!FallsSilent)
    BY <1>5 DEF PusherStep
  <2>2. PusherOK' /\ (ppc = "ended" => ppc' = "ended")
    BY <2>1, PusherSteps, AroundPusher
  <2> QED
    BY <2>1, <2>2 DEF runVars, TypeOK, PusherOK
<1>6. CASE UNCHANGED vars
  <2>1. PusherOK' /\ ppc' = ppc
    BY <1>6, AroundPusher DEF vars
  <2> QED
    BY <1>6, <2>1 DEF vars, runVars, TypeOK, PusherOK
<1> QED
  BY <1>1, <1>2, <1>3, <1>4, <1>5, <1>6 DEF Next, Run

-----------------------------------------------------------------------------
(* Theorems.                                                               *)

\* The invariant holds in every state.
LEMMA InvInvariant == Spec => []Inv
BY InvInit, InvStep, PTL DEF Spec

\* Every state of run() and of its pusher is of its type.
THEOREM TypeCorrect == Spec => []TypeOK
<1>1. Inv => TypeOK
  BY DEF Inv
<1> QED
  BY <1>1, InvInvariant, PTL

\* A run() that returns, Ok or Err, leaves no server, no relay client and no pusher
\* running.
THEOREM Clean == Spec => []ReturnsClean
<1>1. Inv => ReturnsClean
  BY DEF Inv, Running, ReturnsClean, TypeOK
<1> QED
  BY <1>1, InvInvariant, PTL

\* A round is over only when each seed, in order, has had its turn, for any number
\* of seeds and of failures.
THEOREM EverySeedsTurn == Spec => []EveryTurn
<1>1. Inv => EveryTurn
  BY DEF Inv, PusherOK, EveryTurn
<1> QED
  BY <1>1, InvInvariant, PTL

\* Nothing is advertised after stop() has returned, and no round begins after the
\* flag was raised.
THEOREM StopFinal == Spec => StopIsFinal
<1> DEFINE Final == /\ owner = "stopped" => UNCHANGED <<ppc, got>>
                    /\ stop /\ ppc \in {"loop", "sleep", "ended"} =>
                         ppc' \in {"loop", "sleep", "ended"} /\ got' = got
<1>1. Inv /\ [Next]_vars => [Final]_(Gossip!vars)
  <2> SUFFICES ASSUME Inv, [Next]_vars PROVE Final
    OBVIOUS
  <2>1. CASE PusherStep /\ Gossip!Pusher
    BY <2>1, PusherSteps
       DEF Inv, PusherOK, Gossip!Pusher, Gossip!BeginRound, Gossip!Exit, Gossip!Wakes,
           Gossip!Connects, Gossip!PostFails, Gossip!Writes, Gossip!Drained
  <2>2. CASE UNCHANGED <<ppc, got>>
    BY <2>2
  <2>3. \/ PusherStep /\ Gossip!Pusher
        \/ UNCHANGED <<ppc, got>>
    BY DEF Next, Run, vars, gossipVars, CheckMode, MakeIdentity, Bind, StartServer,
           StartPusher, StartRelay, ServerJoined, StopPusher, PusherJoined, ServerPanics,
           RelayPanics, Drop, PusherStep, Gossip!Stop, Gossip!Joined, Gossip!FallsSilent
  <2> QED
    BY <2>1, <2>2, <2>3
<1> QED
  BY <1>1, InvInvariant, PTL DEF Spec, StopIsFinal, Gossip!StopIsFinal
=============================================================================
