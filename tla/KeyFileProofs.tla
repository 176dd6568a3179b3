--------------------------- MODULE KeyFileProofs ---------------------------
(***************************************************************************)
(* What holds of the key file for any number of processes, starts, crashes *)
(* and losses of power.                                                    *)
(***************************************************************************)
EXTENDS KeyFile, TLAPS

\* A process that is about to write holds a key pair.
Holds == \A s \in Starter : pc[s] \in {"open", "write"} => key[s] \in Key

\* Types, and that a process that writes holds a key pair, are inductive together.
LEMMA TypeInvariant == Spec => [](TypeOK /\ Holds)
<1>1. Init => TypeOK /\ Holds
  <2> SUFFICES ASSUME Init PROVE TypeOK /\ Holds
    OBVIOUS
  <2>1. raced \in BOOLEAN /\ lost \in BOOLEAN
    BY Zenon DEF Init
  <2>2. /\ pc \in [Starter -> {"off", "check", "read", "open", "write", "up"}]
        /\ key \in [Starter -> 0 .. generated]
        /\ {file, flushed} \subseteq {Missing, Short} \cup (1 .. generated)
        /\ generated \in Nat /\ starts \in Nat /\ used \subseteq 1 .. generated
    BY DEF Init
  <2> QED
    BY <2>1, <2>2 DEF Init, TypeOK, Holds
<1>2. TypeOK /\ Holds /\ [Next]_vars => (TypeOK /\ Holds)'
  <2> SUFFICES ASSUME TypeOK, Holds, [Next]_vars PROVE (TypeOK /\ Holds)'
    OBVIOUS
  <2> USE KeyFileAssumption DEF TypeOK, Holds, Goto, Key, history
  <2>1. ASSUME NEW s \in Starter, Start(s) PROVE (TypeOK /\ Holds)'
    BY <2>1 DEF Start
  <2>2. ASSUME NEW s \in Starter, Found(s) PROVE (TypeOK /\ Holds)'
    BY <2>2 DEF Found
  <2>3. ASSUME NEW s \in Starter, NotFound(s) PROVE (TypeOK /\ Holds)'
    BY <2>3 DEF NotFound
  <2>4. ASSUME NEW s \in Starter, Load(s) PROVE (TypeOK /\ Holds)'
    BY <2>4 DEF Load
  <2>5. ASSUME NEW s \in Starter, LoadFails(s) PROVE (TypeOK /\ Holds)'
    BY <2>5 DEF LoadFails
  <2>6. ASSUME NEW s \in Starter, Open(s) PROVE (TypeOK /\ Holds)'
    BY <2>6 DEF Open
  <2>7. ASSUME NEW s \in Starter, Write(s) PROVE (TypeOK /\ Holds)'
    <3>1. key[s] \in 1 .. generated
      BY <2>7 DEF Write
    <3>2. /\ file' = key[s] /\ pc' \in [Starter -> {"off", "check", "read", "open", "write", "up"}]
          /\ key' = key /\ used' = used \cup {key[s]}
          /\ UNCHANGED <<flushed, generated, starts>>
      BY <2>7 DEF Write
    <3> QED
      BY <2>7, <3>1, <3>2 DEF Write
  <2>8. ASSUME NEW s \in Starter, Stops(s) PROVE (TypeOK /\ Holds)'
    BY <2>8 DEF Stops
  <2>9. CASE Flush
    BY <2>9 DEF Flush
  <2>10. CASE PowerFails
    BY <2>10 DEF PowerFails
  <2>11. CASE UNCHANGED vars
    BY <2>11 DEF vars
  <2> QED
    BY <2>1, <2>2, <2>3, <2>4, <2>5, <2>6, <2>7, <2>8, <2>9, <2>10, <2>11 DEF Next
<1> QED
  BY <1>1, <1>2, PTL DEF Spec

\* Type correctness, for any set of processes and with loss of power: no process
\* holds, and no file contains, a key pair that was never generated.
THEOREM TypeCorrect == Spec => []TypeOK
BY TypeInvariant, PTL

\* For any number of processes that share the directory, the file is replaced
\* only by one that had found none, or by a loss of power.
THEOREM NeverReplaced == Spec => Untouched
<1> DEFINE Kept ==
      file # Missing /\ (\A s \in Starter : pc[s] \notin {"open", "write"})
        => file' = file \/ \A s \in Starter : pc'[s] = "off"
<1>1. TypeOK /\ [Next]_vars => [Kept]_vars
  <2> SUFFICES ASSUME Next, file # Missing,
                      \A s \in Starter : pc[s] \notin {"open", "write"}
               PROVE  file' = file \/ \A s \in Starter : pc'[s] = "off"
    OBVIOUS
  <2> QED
    BY DEF Next, Start, Found, NotFound, Load, LoadFails, Open, Write, Stops,
           Flush, PowerFails
<1> QED
  BY <1>1, TypeCorrect, PTL DEF Spec, Untouched

-----------------------------------------------------------------------------
\* As long as no first runs race, a process creates the file only while there is
\* none and no other does, and a process that is up runs with what it holds.
Writing(s) == pc[s] \in {"open", "write"}

Sole ==
  ~raced => \A s \in Starter :
    /\ pc[s] = "open"  => file = Missing
    /\ pc[s] = "write" => file = Short
    /\ pc[s] = "up"    => file = key[s] /\ key[s] \in Key
    /\ Writing(s) => \A t \in Starter : Writing(t) => t = s

\* As long as moreover no flushed state comes back, every key pair that was ever
\* used is the one in the file.
UsedIsStored == ~raced /\ ~lost => \A k \in used : file = k

SoleInv == TypeOK /\ Holds /\ Sole /\ UsedIsStored

\* Without a race a first run has the directory to itself: SoleInv is inductive.
LEMMA SoleInvariant == Spec => []SoleInv
<1>1. Init => Sole /\ UsedIsStored
  BY DEF Init, Sole, UsedIsStored, Writing
<1>2. SoleInv /\ [Next]_vars => (Sole /\ UsedIsStored)'
  <2> SUFFICES ASSUME SoleInv, [Next]_vars PROVE (Sole /\ UsedIsStored)'
    OBVIOUS
  <2> USE KeyFileAssumption
      DEF SoleInv, TypeOK, Holds, Sole, UsedIsStored, Writing, Goto, Key, history
  <2>1. ASSUME NEW s \in Starter, Start(s) PROVE (Sole /\ UsedIsStored)'
    BY <2>1 DEF Start
  <2>2. ASSUME NEW s \in Starter, Found(s) PROVE (Sole /\ UsedIsStored)'
    BY <2>2 DEF Found
  <2>3. ASSUME NEW s \in Starter, NotFound(s) PROVE (Sole /\ UsedIsStored)'
    <3> SUFFICES ASSUME ~raced' PROVE (Sole /\ UsedIsStored)'
      OBVIOUS
    <3>1. ~raced /\ \A t \in Starter \ {s} : pc[t] \notin {"open", "write"}
      BY Zenon, <2>3 DEF NotFound
    <3>2. \A t \in Starter \ {s} : pc'[t] = pc[t] /\ key'[t] = key[t]
      BY <2>3 DEF NotFound
    <3>3. pc'[s] = "open" /\ file = Missing /\ UNCHANGED <<file, used, lost>>
      BY <2>3 DEF NotFound
    <3>4. Sole'
      BY <3>1, <3>2, <3>3
    <3> QED
      BY <3>1, <3>3, <3>4
  <2>4. ASSUME NEW s \in Starter, Load(s) PROVE (Sole /\ UsedIsStored)'
    BY <2>4 DEF Load
  <2>5. ASSUME NEW s \in Starter, LoadFails(s) PROVE (Sole /\ UsedIsStored)'
    BY <2>5 DEF LoadFails
  <2>6. ASSUME NEW s \in Starter, Open(s) PROVE (Sole /\ UsedIsStored)'
    BY <2>6 DEF Open
  <2>7. ASSUME NEW s \in Starter, Write(s) PROVE (Sole /\ UsedIsStored)'
    BY <2>7 DEF Write
  <2>8. ASSUME NEW s \in Starter, Stops(s) PROVE (Sole /\ UsedIsStored)'
    BY <2>8 DEF Stops
  <2>9. CASE Flush
    BY <2>9 DEF Flush
  <2>10. CASE PowerFails
    BY <2>10 DEF PowerFails
  <2>11. CASE UNCHANGED vars
    BY <2>11 DEF vars
  <2> QED
    BY <2>1, <2>2, <2>3, <2>4, <2>5, <2>6, <2>7, <2>8, <2>9, <2>10, <2>11 DEF Next
<1>3. TypeOK /\ Holds /\ Sole /\ UsedIsStored <=> SoleInv
  BY DEF SoleInv
<1> QED
  BY <1>1, <1>2, <1>3, TypeInvariant, PTL DEF Spec

\* The processes of an agent answer under one identity for ever, wherever they
\* crash, unless two first runs raced or a loss of power took the file back.
THEOREM SoleOneIdentity == Spec => []OneIdentity
<1>1. SoleInv => OneIdentity
  BY DEF SoleInv, UsedIsStored, OneIdentity
<1> QED
  BY <1>1, SoleInvariant, PTL

\* Unless two first runs raced, the identity an agent runs with is the one on
\* disk, also after a loss of power.
THEOREM SolePersisted == Spec => []Persisted
<1>1. SoleInv => Persisted
  BY DEF SoleInv, Sole, Persisted
<1> QED
  BY <1>1, SoleInvariant, PTL
=============================================================================
