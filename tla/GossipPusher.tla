---------------------------- MODULE GossipPusher ----------------------------
(***************************************************************************)
(* Model A: the thread that advertises an agent to its seeds               *)
(* (src/server.rs, GossipPusher and http_post_json), the seeds, and the    *)
(* owner that stops the thread.                                            *)
(*                                                                         *)
(* A round signs one payload and posts it to one seed after the other.  A  *)
(* post connects, writes within a time limit, and reads the response until *)
(* the seed closes or says nothing for a while: as long as the seed keeps  *)
(* talking, the thread keeps reading.                                      *)
(***************************************************************************)
EXTENDS Naturals

CONSTANT N            \* at least one; the seeds are 1 .. N, in the order they are
                      \* pushed to

VARIABLES
  pc,                 \* where the thread is
  at,                 \* the seed whose turn it is
  talking,            \* the seed it reads from keeps sending
  stop,               \* the flag that stop() raises
  owner,              \* who holds the handle "runs", "joins" or has "stopped"
  tried, got          \* history: seeds that had their turn, that got the payload

vars == <<pc, at, talking, stop, owner, tried, got>>

Init ==
  /\ pc = "loop" /\ at = 1 /\ talking = FALSE
  /\ stop = FALSE /\ owner = "runs"
  /\ tried = {} /\ got = {}

-----------------------------------------------------------------------------
(* The thread.                                                             *)

BeginRound ==
  /\ pc = "loop" /\ ~stop
  /\ pc' = "connect" /\ at' = 1 /\ tried' = {1} /\ got' = {}
  /\ UNCHANGED <<talking, stop, owner>>

Exit ==
  /\ pc = "loop" /\ stop
  /\ pc' = "ended"
  /\ UNCHANGED <<at, talking, stop, owner, tried, got>>

\* Mutant: the round goes one past the last seed.
NextSeed_OnePast ==
  IF at <= N THEN pc' = "connect" /\ at' = at + 1 /\ tried' = tried \cup {at + 1}
             ELSE pc' = "sleep" /\ UNCHANGED <<at, tried>>

\* The next seed has its turn, whether this post was a success or not.
NextSeed ==
  IF at < N THEN pc' = "connect" /\ at' = at + 1 /\ tried' = tried \cup {at + 1}
            ELSE pc' = "sleep" /\ UNCHANGED <<at, tried>>

Connects ==
  /\ pc = "connect"
  /\ pc' = "write"
  /\ UNCHANGED <<at, talking, stop, owner, tried, got>>

\* Mutant: the first seed that cannot be reached ends the round.
PostFails_EndsRound ==
  /\ pc \in {"connect", "write"}
  /\ pc' = "sleep"
  /\ UNCHANGED <<at, talking, stop, owner, tried, got>>

\* Mutant: it ends the thread.
PostFails_EndsThread ==
  /\ pc \in {"connect", "write"}
  /\ pc' = "ended"
  /\ UNCHANGED <<at, talking, stop, owner, tried, got>>

\* Refused, unreachable, or too slow to take the request.
PostFails ==
  /\ pc \in {"connect", "write"}
  /\ NextSeed
  /\ UNCHANGED <<talking, stop, owner, got>>

Writes ==
  /\ pc = "write"
  /\ got' = got \cup {at}
  /\ pc' = "drain" /\ talking' \in BOOLEAN
  /\ UNCHANGED <<at, stop, owner, tried>>

\* The seed closes, fails, or is silent for the length of the read timeout.
Drained ==
  /\ pc = "drain" /\ ~talking
  /\ NextSeed
  /\ UNCHANGED <<talking, stop, owner, got>>

Wakes ==
  /\ pc = "sleep"
  /\ pc' = "loop"
  /\ UNCHANGED <<at, talking, stop, owner, tried, got>>

Pusher == BeginRound \/ Exit \/ Connects \/ PostFails \/ Writes \/ Drained \/ Wakes

-----------------------------------------------------------------------------
(* The seeds and the owner.                                                *)

FallsSilent ==
  /\ talking
  /\ talking' = FALSE
  /\ UNCHANGED <<pc, at, stop, owner, tried, got>>

\* GossipPusherHandle::stop() raises the flag and joins the thread.
Stop ==
  /\ owner = "runs"
  /\ stop' = TRUE /\ owner' = "joins"
  /\ UNCHANGED <<pc, at, talking, tried, got>>

\* Mutant: stop() does not join the thread.
Joined_AtOnce ==
  /\ owner = "joins"
  /\ owner' = "stopped"
  /\ UNCHANGED <<pc, at, talking, stop, tried, got>>

Joined ==
  /\ owner = "joins" /\ pc = "ended"
  /\ owner' = "stopped"
  /\ UNCHANGED <<pc, at, talking, stop, tried, got>>

Next == Pusher \/ FallsSilent \/ Stop \/ Joined

Spec == Init /\ [][Next]_vars

\* The threads run, and the system gives up on a connect that is not answered.
FairSpec == Spec /\ WF_vars(Pusher) /\ WF_vars(Joined)

-----------------------------------------------------------------------------
(* Properties.                                                             *)

TypeOK ==
  /\ pc \in {"loop", "connect", "write", "drain", "sleep", "ended"}
  /\ at \in 1 .. N /\ {talking, stop} \subseteq BOOLEAN
  /\ owner \in {"runs", "joins", "stopped"}
  /\ tried \subseteq 1 .. N /\ got \subseteq tried

\* No failure of a seed costs another its turn: a round is over only when each
\* seed, in order, has had one.
EveryTurn ==
  /\ pc \in {"connect", "write", "drain"} => tried = 1 .. at
  /\ pc = "sleep" => tried = 1 .. N

\* stop() returns when the thread has ended, so that nothing is advertised
\* after it; raised between two rounds, the flag lets no other begin.
StopIsFinal ==
  [][/\ owner = "stopped" => UNCHANGED <<pc, got>>
     /\ stop /\ pc \in {"loop", "sleep", "ended"} =>
          pc' \in {"loop", "sleep", "ended"} /\ got' = got]_vars

\* Until it is stopped, the thread comes back to each seed for ever.
Periodic == \A s \in 1 .. N : []<>((at = s /\ pc = "connect") \/ stop)
=============================================================================
