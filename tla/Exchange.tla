------------------------------ MODULE Exchange ------------------------------
(***************************************************************************)
(* What a server promises over each of its connections: a request gets one *)
(* reply, one that is for this request, and gets it before the next is     *)
(* made.  The one who asks may give up at any time, and then no reply is   *)
(* seen any more.  What happens on one connection changes no other.        *)
(***************************************************************************)
CONSTANTS Conn,
          Questions,         \* what can be asked
          Allowed,           \* Allowed[r]: the replies that r may get
          None               \* no request, no reply

VARIABLES state,             \* each connection: "idle", "waiting", or "gone"
          request, reply     \* its last request, and the reply to it

vars == <<state, request, reply>>

Init ==
  /\ state = [c \in Conn |-> "idle"]
  /\ request = [c \in Conn |-> None] /\ reply = [c \in Conn |-> None]

Ask(c, r) ==
  /\ state[c] = "idle"
  /\ state'   = [state EXCEPT ![c] = "waiting"]
  /\ request' = [request EXCEPT ![c] = r]
  /\ reply'   = [reply EXCEPT ![c] = None]

Answer(c) ==
  /\ state[c] = "waiting"
  /\ state' = [state EXCEPT ![c] = "idle"]
  /\ \E a \in Allowed[request[c]] : reply' = [reply EXCEPT ![c] = a]
  /\ UNCHANGED request

GiveUp(c) ==
  /\ state[c] = "waiting"
  /\ state' = [state EXCEPT ![c] = "gone"]
  /\ UNCHANGED <<request, reply>>

Next == \E c \in Conn : (\E r \in Questions : Ask(c, r)) \/ Answer(c) \/ GiveUp(c)

Spec == Init /\ [][Next]_vars
=============================================================================
