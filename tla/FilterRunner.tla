---------------------------- MODULE FilterRunner ----------------------------
(***************************************************************************)
(* FilterRunner::run (src/runner.rs): what it starts in which order, and   *)
(* what is left running when it returns, fails, panics or is dropped.      *)
(*                                                                         *)
(* The server and the pusher are threads of their own, which nothing but   *)
(* run() itself joins; the relay client is a part of the future run().     *)
(* The pusher is that of GossipPusher, and the server and the relay client *)
(* (AgentServer, RelayClient) only run here, or have been ended by a       *)
(* handler that panicked.                                                  *)
(***************************************************************************)
EXTENDS Naturals

CONSTANTS
  N,                  \* the nodes, which are the seeds of the pusher, are 1 .. N
  Modes,              \* the modes to run in; "other" is any that is unknown
  MayPanic            \* whether the handler may panic

ASSUME RunnerAssumption ==
  /\ N \in Nat \ {0}
  /\ Modes \subseteq {"relay", "direct", "both", "other"}
  /\ MayPanic \in BOOLEAN

VARIABLES
  mode,
  badInterval,        \* the gossip interval is negative or no number
  pc,                 \* where run() is
  server,             \* the server thread
  pusher,             \* whether the pusher thread has been started
  relay,              \* the relay client
  ppc, at, talking, stop, owner, tried, got     \* as in GossipPusher

Gossip == INSTANCE GossipPusher WITH pc <- ppc

gossipVars == <<ppc, at, talking, stop, owner, tried, got>>
runVars    == <<mode, badInterval, pc, server, pusher, relay>>
vars == <<runVars, gossipVars>>

HasServer == mode \in {"direct", "both"}
HasRelay  == mode \in {"relay", "both"}

Init ==
  /\ mode \in Modes /\ badInterval \in BOOLEAN
  /\ pc = "check" /\ server = "none" /\ pusher = FALSE /\ relay = "none"
  /\ Gossip!Init

-----------------------------------------------------------------------------
(* run().                                                                  *)

Goto(next) == pc' = next /\ UNCHANGED <<mode, badInterval>>

CheckMode ==
  /\ pc = "check"
  /\ Goto(IF mode = "other" THEN "err" ELSE "identity")
  /\ UNCHANGED <<server, pusher, relay, gossipVars>>

\* resolve_nodes() always succeeds; the key file may not be usable.
MakeIdentity ==
  /\ pc = "identity"
  /\ \E next \in {"err", IF HasServer THEN "bind" ELSE "relay"} : Goto(next)
  /\ UNCHANGED <<server, pusher, relay, gossipVars>>

Bind ==
  /\ pc = "bind"
  /\ \/ Goto("err") /\ UNCHANGED server
     \/ Goto("spawn") /\ server' = "bound"
  /\ UNCHANGED <<pusher, relay, gossipVars>>

StartServer ==
  /\ pc = "spawn"
  /\ server' = "up" /\ Goto("interval")
  /\ UNCHANGED <<pusher, relay, gossipVars>>

\* Duration::from_secs_f64() panics on a bad interval.
StartPusher ==
  /\ pc = "interval"
  /\ IF badInterval THEN Goto("panicked") /\ UNCHANGED pusher
     ELSE Goto(IF HasRelay THEN "relay" ELSE "join") /\ pusher' = TRUE
  /\ UNCHANGED <<server, relay, gossipVars>>

StartRelay ==
  /\ pc = "relay" /\ relay = "none"
  /\ relay' = "up" /\ Goto("relay")
  /\ UNCHANGED <<server, pusher, gossipVars>>

\* A panic of the server thread is an Err(_) of join(), which is ignored.
ServerJoined ==
  /\ pc = "join" /\ server = "dead"
  /\ Goto("stop")
  /\ UNCHANGED <<server, pusher, relay, gossipVars>>

\* Mutant: the thread is joined without having been told to stop.
StopPusher_NoFlag ==
  /\ pc = "stop"
  /\ owner' = "joins" /\ Goto("joinPusher")
  /\ UNCHANGED <<server, pusher, relay, ppc, at, talking, stop, tried, got>>

StopPusher ==
  /\ pc = "stop"
  /\ Gossip!Stop /\ Goto("joinPusher")
  /\ UNCHANGED <<server, pusher, relay>>

\* Mutant: the pusher is told to stop, but nobody waits for it.
PusherJoined_AtOnce ==
  /\ pc = "joinPusher"
  /\ Goto("ok")
  /\ UNCHANGED <<server, pusher, relay, gossipVars>>

PusherJoined ==
  /\ pc = "joinPusher"
  /\ Gossip!Joined /\ Goto("ok")
  /\ UNCHANGED <<server, pusher, relay>>

Run ==
  \/ CheckMode \/ MakeIdentity \/ Bind \/ StartServer \/ StartPusher \/ StartRelay
  \/ ServerJoined \/ StopPusher \/ PusherJoined

-----------------------------------------------------------------------------
(* The handler, the caller and the pusher thread.                          *)

ServerPanics ==
  /\ MayPanic /\ server = "up"
  /\ server' = "dead"
  /\ UNCHANGED <<mode, badInterval, pc, pusher, relay, gossipVars>>

\* What is left of the process when the caller's runtime outlives the panic.
RelayPanics ==
  /\ MayPanic /\ relay = "up"
  /\ relay' = "dead" /\ Goto("panicked")
  /\ UNCHANGED <<server, pusher, gossipVars>>

\* run() can be dropped while it awaits the relay client; while it waits for a
\* thread it cannot.
Drop ==
  /\ relay = "up"
  /\ relay' = "dead" /\ Goto("dropped")
  /\ UNCHANGED <<server, pusher, gossipVars>>

PusherStep == pusher /\ (Gossip!Pusher \/ Gossip!FallsSilent) /\ UNCHANGED runVars

Next == Run \/ ServerPanics \/ RelayPanics \/ Drop \/ PusherStep

Spec == Init /\ [][Next]_vars

\* run() and the pusher thread are scheduled, and no seed talks for ever.
FairSpec ==
  /\ Spec /\ WF_vars(Run)
  /\ WF_vars(pusher /\ Gossip!Pusher /\ UNCHANGED runVars)
  /\ WF_vars(pusher /\ Gossip!FallsSilent /\ UNCHANGED runVars)

-----------------------------------------------------------------------------
(* Properties.                                                             *)

TypeOK ==
  /\ mode \in Modes /\ {badInterval, pusher} \subseteq BOOLEAN
  /\ pc \in {"check", "identity", "bind", "spawn", "interval", "relay", "join", "stop",
             "joinPusher", "ok", "err", "panicked", "dropped"}
  /\ server \in {"none", "bound", "up", "dead"}
  /\ relay \in {"none", "up", "dead"}
  /\ Gossip!TypeOK

\* A run() that returns, be it Ok or Err, leaves nothing running: whatever can
\* fail with an Err comes before the first thread is started, and Ok after the
\* last has ended.
ReturnsClean ==
  pc \in {"ok", "err"} => server \in {"none", "dead"} /\ relay = "none"
                            /\ (pusher => ppc = "ended")

\* In mode `direct`, when the handler's panic has ended the server, the pusher
\* is stopped in the middle of whatever it does and run() returns.
DirectReturns == (mode = "direct" /\ server = "dead") ~> (pc \in {"ok", "panicked"})

\* What GossipPusher promises of the rounds and of stop() holds of the pusher
\* that run() starts, whatever becomes of the rest.
EveryTurn   == Gossip!EveryTurn
StopIsFinal == Gossip!StopIsFinal

\* A pusher that was started comes back to each seed for ever, in mode both also
\* when the relay client has ended, unless it is stopped.
Advertises ==
  \A s \in 1 .. N : []<>(~pusher \/ stop \/ (at = s /\ ppc = "connect"))

\* The pusher advertises a server that can be queried (src/server.rs), and so
\* ends when the server has.
AdvertisesWhileUp == (server = "dead" /\ pusher) ~> (ppc = "ended")
=============================================================================
