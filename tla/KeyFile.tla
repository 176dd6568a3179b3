------------------------------ MODULE KeyFile ------------------------------
(***************************************************************************)
(* The identity of an agent across its runs: Identity::new and             *)
(* crypto::load_or_create (src/identity.rs, src/crypto.rs), one file       *)
(* system step at a time.                                                  *)
(*                                                                         *)
(* A process checks whether the key file exists, and then either reads it  *)
(* or generates a key pair, creates the directory and writes the file.     *)
(* Starter is the set of processes that run with the same key directory:   *)
(* they may crash between any two steps and start again.  Nothing is       *)
(* synced to the disk, so a loss of power takes the file back to what the  *)
(* kernel had flushed, or truncates it.  The history variables raced and   *)
(* lost say whether the two things the code does not guard against have    *)
(* happened.                                                               *)
(***************************************************************************)
EXTENDS Naturals

CONSTANTS
  Starter,            \* processes that share the key directory
  Missing, Short,     \* no key file; a key file that is not 64 bytes long
  MaxStarts           \* bounds the starts, and with them the key pairs

VARIABLES
  pc,                 \* where each process is in load_or_create
  key,                \* the key pair each process holds; 0 is none
  file,               \* the key file as every process sees it
  flushed,            \* the key file as a loss of power leaves it
  generated,          \* key pairs generated so far; they are named 1, 2, ...
  starts,             \* starts so far
  used,               \* history: key pairs that Identity::new has returned
  raced,              \* history: two processes were on their first run at once
  lost                \* history: a loss of power has cost what was not flushed

history == <<raced, lost>>
vars == <<pc, key, file, flushed, generated, starts, used, history>>

Key == Nat \ {0}

ASSUME KeyFileAssumption ==
  /\ Missing \notin Nat /\ Short \notin Nat /\ Missing # Short
  /\ MaxStarts \in Nat

Init ==
  /\ pc = [s \in Starter |-> "off"] /\ key = [s \in Starter |-> 0]
  /\ file = Missing /\ flushed = Missing
  /\ generated = 0 /\ starts = 0 /\ used = {} /\ raced = FALSE /\ lost = FALSE

-----------------------------------------------------------------------------
Goto(s, next, k) == pc' = [pc EXCEPT ![s] = next] /\ key' = [key EXCEPT ![s] = k]

Start(s) ==
  /\ pc[s] = "off" /\ starts < MaxStarts
  /\ Goto(s, "check", 0) /\ starts' = starts + 1
  /\ UNCHANGED <<file, flushed, generated, used, history>>

\* exists()
Found(s) ==
  /\ pc[s] = "check" /\ file # Missing
  /\ Goto(s, "read", 0)
  /\ UNCHANGED <<file, flushed, generated, starts, used, history>>

\* Mutant: the identity is used without being written to the file.
NotFound_NotPersisted(s) ==
  /\ pc[s] = "check" /\ file = Missing
  /\ generated' = generated + 1
  /\ Goto(s, "up", generated + 1) /\ used' = used \cup {generated + 1}
  /\ UNCHANGED <<file, flushed, starts, history>>

NotFound(s) ==
  /\ pc[s] = "check" /\ file = Missing
  /\ generated' = generated + 1
  /\ Goto(s, "open", generated + 1)
  /\ raced' = (raced \/ \E t \in Starter \ {s} : pc[t] \in {"open", "write"})
  /\ UNCHANGED <<file, flushed, starts, used, lost>>

\* Mutant: the length of what was read is not checked.
Load_AnyLength(s) ==
  /\ pc[s] = "read"
  /\ Goto(s, "up", file) /\ used' = used \cup {file}
  /\ UNCHANGED <<file, flushed, generated, starts, history>>

Load(s) ==
  /\ pc[s] = "read" /\ file \in Key
  /\ Goto(s, "up", file) /\ used' = used \cup {file}
  /\ UNCHANGED <<file, flushed, generated, starts, history>>

\* Mutant: a key file of another length is removed, so that a new one is made.
LoadFails_Removes(s) ==
  /\ pc[s] = "read" /\ file \notin Key
  /\ file' = Missing /\ Goto(s, "off", 0)
  /\ UNCHANGED <<flushed, generated, starts, used, history>>

\* A file of another length is an error, and stays.
LoadFails(s) ==
  /\ pc[s] = "read" /\ file \notin Key
  /\ Goto(s, "off", 0)
  /\ UNCHANGED <<file, flushed, generated, starts, used, history>>

\* fs::write() truncates the file or creates it, and then writes.
Open(s) ==
  /\ pc[s] = "open"
  /\ file' = Short /\ Goto(s, "write", key[s])
  /\ UNCHANGED <<flushed, generated, starts, used, history>>

\* Mutant: an error of the write is ignored.
Write_ErrorIgnored(s) ==
  /\ pc[s] = "write"
  /\ file' \in {key[s], file}
  /\ Goto(s, "up", key[s]) /\ used' = used \cup {key[s]}
  /\ UNCHANGED <<flushed, generated, starts, history>>

Write(s) ==
  /\ pc[s] = "write"
  /\ file' = key[s]
  /\ Goto(s, "up", key[s]) /\ used' = used \cup {key[s]}
  /\ UNCHANGED <<flushed, generated, starts, history>>

\* The directory cannot be created, the file cannot be opened, the disk is
\* full, or the process is killed: what the file has become stays.
Stops(s) ==
  /\ pc[s] # "off"
  /\ Goto(s, "off", 0)
  /\ UNCHANGED <<file, flushed, generated, starts, used, history>>

Flush ==
  /\ flushed' = file /\ flushed # file
  /\ UNCHANGED <<pc, key, file, generated, starts, used, history>>

PowerFails ==
  /\ pc' = [s \in Starter |-> "off"] /\ key' = [s \in Starter |-> 0]
  /\ file' \in IF flushed = file THEN {file} ELSE {flushed, Short}
  /\ flushed' = file' /\ lost' = (lost \/ flushed # file)
  /\ UNCHANGED <<generated, starts, used, raced>>

Next ==
  \/ \E s \in Starter : \/ Start(s) \/ Found(s) \/ NotFound(s) \/ Load(s)
                        \/ LoadFails(s) \/ Open(s) \/ Write(s) \/ Stops(s)
  \/ Flush \/ PowerFails

Spec == Init /\ [][Next]_vars

-----------------------------------------------------------------------------
TypeOK ==
  /\ pc \in [Starter -> {"off", "check", "read", "open", "write", "up"}]
  /\ key \in [Starter -> 0 .. generated]
  /\ {file, flushed} \subseteq {Missing, Short} \cup (1 .. generated)
  /\ generated \in Nat /\ starts \in Nat
  /\ used \subseteq 1 .. generated
  /\ raced \in BOOLEAN /\ lost \in BOOLEAN

\* However often the processes of an agent crash and start, whatever step they
\* crash at, they answer under one identity, unless two first runs race or a
\* loss of power takes the file back.
OneIdentity == ~raced /\ ~lost => \A j, k \in used : j = k

\* An agent that runs would come back under the identity it runs with: that is
\* what the file holds (load_or_create returns only what it read or wrote).
Persisted == ~raced => \A s \in Starter : pc[s] = "up" => file = key[s]

\* A key file is never replaced, be it complete or truncated, except by a
\* process that had found none (a start that finds one only reads it), or by
\* the loss of power that ends every process.
Untouched ==
  [][file # Missing /\ (\A s \in Starter : pc[s] \notin {"open", "write"})
       => file' = file \/ \A s \in Starter : pc'[s] = "off"]_vars

\* What src/lib.rs says: the identity of every agent is persisted to a key file
\* on its first run.
PersistedOnFirstRun == \A s \in Starter : pc[s] = "up" => file = key[s]
=============================================================================
