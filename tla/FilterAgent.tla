---------------------------- MODULE FilterAgent ----------------------------
(***************************************************************************)
(* An agent in mode `both` (src/runner.rs): the relay client, a task of    *)
(* the caller's runtime, and the HTTP server, a thread with a runtime of   *)
(* its own, share one filter behind one mutex.                             *)
(*                                                                         *)
(* The steps of each are those of its own module, on a mutex that both     *)
(* queue up for.                                                           *)
(***************************************************************************)
EXTENDS Naturals, Sequences

CONSTANTS
  Ids, Bodies, Empty, Trim, Absent, NoItems, Null, Error, Noise, InCap, OutCap,
  MaxAsked, MaxFaults, MayVanish,                         \* as in RelayClient
  Conn,                                                   \* as in AgentServer
  MayPanic

VARIABLES
  mutex,                                                  \* shared
  pc, cur, ret, link, inbox, outbox, greeted, asked, answers, faults,
  spc, job, out, queue, conn, ask, body, got

Relay  == INSTANCE RelayClient
Direct == INSTANCE AgentServer

ASSUME AgentAssumption == Relay!RelayAssumption /\ Direct!ServerAssumption

relayVars  == <<pc, cur, ret, link, inbox, outbox, greeted, asked, answers, faults>>
directVars == <<spc, job, out, queue, conn, ask, body, got>>
vars == <<mutex, relayVars, directVars>>

Init == Relay!Init /\ Direct!Init

Next ==
  \/ Relay!Next /\ UNCHANGED directVars
  \/ Direct!Next /\ UNCHANGED relayVars

Spec == Init /\ [][Next]_vars

\* The two run in parallel, and each is scheduled; a query that the relay
\* client waits for comes in, as long as its relay asks.
Fairness ==
  /\ WF_vars(Relay!Client /\ UNCHANGED directVars)
  /\ WF_vars(Direct!Server /\ UNCHANGED relayVars)

FairSpec == Spec /\ Fairness

-----------------------------------------------------------------------------
(* Properties.                                                             *)

\* Handler calls are serialized: one query is processed at a time, whichever
\* transport it came by (src/lib.rs).
OneAtATime == ~(pc = "handle" /\ spc = "handle")

\* The mutex is owned or awaited by exactly the transports that have a query in
\* hand, each once, and the handler runs for the first of them: neither leaves
\* it locked, whatever ends its session or its thread.
Owners ==
  /\ \A k \in DOMAIN mutex :
       IF mutex[k] = "relay" THEN pc \in {"lock", "handle"} ELSE spc \in {"lock", "handle"}
  /\ Len(mutex) = (IF pc \in {"lock", "handle"} THEN 1 ELSE 0)
                    + (IF spc \in {"lock", "handle"} THEN 1 ELSE 0)
  /\ Len(mutex) = 2 => mutex[1] # mutex[2]
  /\ pc = "handle" => Head(mutex) = "relay"
  /\ spc = "handle" => Head(mutex) = "direct"

\* Neither transport starves the other, and a handler that panics in one does
\* not keep the other from answering: the mutex is fair and is not poisoned.
NoStarvation ==
  /\ (pc = "lock") ~> (pc # "lock")
  /\ (spc = "lock") ~> (spc # "lock")
=============================================================================
