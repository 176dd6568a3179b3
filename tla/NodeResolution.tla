--------------------------- MODULE NodeResolution ---------------------------
(***************************************************************************)
(* Which nodes an agent turns to (src/config.rs) and the URL of its relay  *)
(* (src/runner.rs): the list in the code, else the environment, else       *)
(* emergence.conf, read line by line, else localhost:8080.                 *)
(*                                                                         *)
(* A text is a sequence of pieces.  Colons and brackets, which the parser  *)
(* looks at, are pieces of their own; white space is left out, and so is   *)
(* everything the parser treats like a comment, except for one line of it. *)
(***************************************************************************)
EXTENDS Naturals, SequencesExt

CONSTANTS
  Words,              \* the pieces other than ":", "[" and "]"
  PortOf,             \* the number of each word that is one, from 0 to 65535
  Entries,            \* texts that may stand between the commas of a list
  MaxEntries,         \* bounds the entries of a list
  Hosts,              \* texts that EM_DISCO_HOST may be
  Given,              \* lists of nodes that the code may give
  MaxLines,           \* bounds the lines of emergence.conf
  Known,              \* hosts whose nodes the properties look for in a list
  Absent              \* a variable or an entry that is not set

VARIABLES
  given,              \* AgentConfig::disco_nodes
  envHost, envPort,   \* EM_DISCO_HOST, EM_DISCO_PORT
  conf,               \* the lines of emergence.conf that have been read
  pc,
  section, list,      \* locals of parse_conf: the section, the value of `nodes`
  todo,               \* the entries of the list that are still to be parsed
  nodes               \* the nodes found, and then what resolve_nodes returns

sources == <<given, envHost, envPort>>
locals  == <<section, list, todo>>
vars == <<sources, conf, pc, locals, nodes>>

Brackets == {"[", "]"}
Text     == Seq(Words \cup Brackets \cup {":"})
Ports    == 0 .. 65535
Node     == [host : Text, port : Ports, tls : BOOLEAN]
Lists    == BoundedSeq(Entries, MaxEntries)

Lines == [kind : {"section"}, name : {"em_disco", "other"}]
           \cup [kind : {"entry"}, key : {"nodes"}, value : Lists]
           \cup [kind : {"entry"}, key : {"other"}, value : {<<>>}]
           \cup [kind : {"comment"}]

ASSUME ResolutionAssumption ==
  /\ DOMAIN PortOf \subseteq Words /\ \A w \in DOMAIN PortOf : PortOf[w] \in Ports
  /\ Words \cap (Brackets \cup {":"}) = {} /\ "localhost" \in Words
  /\ Entries \subseteq Text /\ Hosts \subseteq Text
  /\ Given \subseteq Seq(Node) /\ <<>> \in Given
  /\ Known \subseteq Seq(Words \cup {":"}) \ {<<>>}
  /\ {MaxEntries, MaxLines} \subseteq Nat

-----------------------------------------------------------------------------
(* Hosts, ports and lists.                                                 *)

Local == {<<"localhost">>, <<"127.0.0.1">>, <<":", ":", "1">>}

\* Mutant: on port 443 a local host is taken to speak TLS, too.
InferTls_AnyHost(host, port) == port = 443

InferTls(host, port) == host \notin Local /\ port = 443

DefaultNode(host) ==
  [host |-> host, port |-> IF host \in Local THEN 8080 ELSE 443, tls |-> host \notin Local]

NodeAt(host, port) == [host |-> host, port |-> port, tls |-> InferTls(host, port)]

\* Mutant: the brackets stay.
TrimBrackets_None(t) == t

\* trim_matches(): brackets at either end, of either kind, any number of them.
TrimBrackets(t) ==
  LET inner == {i \in DOMAIN t : t[i] \notin Brackets}
  IN  IF inner = {} THEN <<>> ELSE SubSeq(t, Min(inner), Max(inner))

\* An entry gives one node or, when it is empty or its port is none, no node.
\* The port is what follows the last colon.
ParseEntry(t) ==
  LET colon == SelectLastInSeq(t, LAMBDA p : p = ":")
      port  == SubSeq(t, colon + 1, Len(t))
  IN  CASE t = <<>> -> <<>>
        [] t # <<>> /\ colon = 0 -> <<DefaultNode(t)>>
        [] colon > 0 ->
             IF Len(port) = 1 /\ port[1] \in DOMAIN PortOf
             THEN <<NodeAt(TrimBrackets(SubSeq(t, 1, colon - 1)), PortOf[port[1]])>>
             ELSE <<>>

Fallback == [host |-> <<"localhost">>, port |-> 8080, tls |-> FALSE]

-----------------------------------------------------------------------------
Init ==
  /\ given \in Given /\ envHost \in Hosts \cup {Absent} /\ envPort \in Words \cup {Absent}
  /\ conf = <<>> /\ pc = "start" /\ section = "" /\ list = Absent
  /\ todo = <<>> /\ nodes = <<>>

Return(result) == pc' = "done" /\ nodes' = result

UseGiven ==
  /\ pc = "start" /\ given # <<>>
  /\ Return(given)
  /\ UNCHANGED <<sources, conf, locals>>

\* A port that is no number, or is too large, counts as 8080.
EnvPort == IF envPort \in DOMAIN PortOf THEN PortOf[envPort] ELSE 8080

\* Mutant: EM_DISCO_PORT alone is taken with the host that is not there.
UseEnvironment_NoHost ==
  /\ pc = "start" /\ given = <<>> /\ (envHost # Absent \/ envPort # Absent)
  /\ Return(<<IF envPort = Absent THEN DefaultNode(envHost)
              ELSE [host |-> envHost, port |-> EnvPort, tls |-> FALSE]>>)
  /\ UNCHANGED <<sources, conf, locals>>

UseEnvironment ==
  /\ pc = "start" /\ given = <<>>
  /\ \/ /\ envHost # Absent /\ envPort # Absent
        /\ Return(<<NodeAt(envHost, EnvPort)>>)
     \/ envHost # Absent /\ envPort = Absent /\ Return(<<DefaultNode(envHost)>>)
     \/ /\ envHost = Absent /\ envPort # Absent
        /\ Return(<<[host |-> <<"localhost">>, port |-> EnvPort, tls |-> FALSE]>>)
  /\ UNCHANGED <<sources, conf, locals>>

\* There may be no home directory, and no file in it that can be read.
OpenConf ==
  /\ pc = "start" /\ given = <<>> /\ envHost = Absent /\ envPort = Absent
  /\ Return(<<Fallback>>) \/ (pc' = "parse" /\ UNCHANGED nodes)
  /\ UNCHANGED <<sources, conf, locals>>

\* Mutant: the first `nodes` counts.
ReadLine_FirstWins(line) ==
  /\ pc = "parse" /\ Len(conf) < MaxLines
  /\ conf' = Append(conf, line)
  /\ section' = IF line.kind = "section" THEN line.name ELSE section
  /\ list' = IF line.kind = "entry" /\ section = "em_disco" /\ line.key = "nodes" /\ list = Absent
             THEN line.value ELSE list
  /\ UNCHANGED <<sources, pc, todo, nodes>>

ReadLine(line) ==
  /\ pc = "parse" /\ Len(conf) < MaxLines
  /\ conf' = Append(conf, line)
  /\ section' = IF line.kind = "section" THEN line.name ELSE section
  /\ list' = IF line.kind = "entry" /\ section = "em_disco" /\ line.key = "nodes"
             THEN line.value ELSE list
  /\ UNCHANGED <<sources, pc, todo, nodes>>

EndOfConf ==
  /\ pc = "parse"
  /\ IF list = Absent THEN Return(<<Fallback>>) /\ UNCHANGED todo
     ELSE pc' = "entries" /\ todo' = list /\ UNCHANGED nodes
  /\ UNCHANGED <<sources, conf, section, list>>

TakeEntry ==
  /\ pc = "entries" /\ todo # <<>>
  /\ nodes' = nodes \o ParseEntry(Head(todo)) /\ todo' = Tail(todo)
  /\ UNCHANGED <<sources, conf, pc, section, list>>

\* Mutant: an entry `nodes` without any node in it counts.
EndOfList_NoFallback ==
  /\ pc = "entries" /\ todo = <<>>
  /\ Return(nodes)
  /\ UNCHANGED <<sources, conf, locals>>

EndOfList ==
  /\ pc = "entries" /\ todo = <<>>
  /\ Return(IF nodes = <<>> THEN <<Fallback>> ELSE nodes)
  /\ UNCHANGED <<sources, conf, locals>>

Next ==
  \/ UseGiven \/ UseEnvironment \/ OpenConf
  \/ (\E line \in Lines : ReadLine(line)) \/ EndOfConf
  \/ TakeEntry \/ EndOfList

Spec == Init /\ [][Next]_vars

\* What run() makes of the first node: the host as it stands in the URL.
Url(n) == [scheme |-> IF n.tls THEN "wss" ELSE "ws", host |-> n.host, port |-> n.port]

-----------------------------------------------------------------------------
(* Properties.                                                             *)

TypeOK ==
  /\ given \in Given /\ envHost \in Hosts \cup {Absent} /\ envPort \in Words \cup {Absent}
  /\ pc \in {"start", "parse", "entries", "done"}
  /\ conf \in Seq(Lines) /\ section \in {"", "em_disco", "other"}
  /\ list \in Lists \cup {Absent} /\ todo \in Seq(Entries)
  /\ nodes \in Seq(Node)

\* There is always a node: run() connects to the first (runner.rs:148), and with
\* none it would return Ok, connected to nobody.
AlwaysANode == pc = "done" => nodes # <<>>

\* Whichever of the four sources a node comes from, TLS is used exactly on port
\* 443, written or a default, unless the host is written localhost, 127.0.0.1 or ::1.
\* (EM_DISCO_HOST=[::1] keeps its brackets, and so does not count as local.)
TlsOnlyRemote ==
  given = <<>> => \A k \in DOMAIN nodes :
                    nodes[k].tls = (nodes[k].port = 443 /\ nodes[k].host \notin Local)

\* Of all lines read so far the last `nodes` in any section em_disco counts, be
\* there other sections, keys and comments in between.
SectionAt(i) ==
  LET above == {j \in 1 .. i - 1 : conf[j].kind = "section"}
  IN  IF above = {} THEN "" ELSE conf[Max(above)].name

LastWins ==
  LET own == {i \in DOMAIN conf : /\ conf[i].kind = "entry" /\ conf[i].key = "nodes"
                                  /\ SectionAt(i) = "em_disco"}
  IN  list = IF own = {} THEN Absent ELSE conf[Max(own)].value

\* How nodes are written in a list: with a port, and in brackets when the host
\* has colons; without a port, when it has none and the port is the default.
HasColon(host) == \E i \in DOMAIN host : host[i] = ":"

Spelt(host, port) ==
  (IF HasColon(host) THEN <<"[">> \o host \o <<"]">> ELSE host)
    \o <<":", port>>

Spells(t, n) ==
  \/ \E w \in DOMAIN PortOf : PortOf[w] = n.port /\ t = Spelt(n.host, w)
  \/ t = n.host /\ n = DefaultNode(t) /\ ~HasColon(t)

Good == {n \in [host : Known, port : {443, 8080} \cup {PortOf[w] : w \in DOMAIN PortOf},
                 tls : BOOLEAN] :
           n.tls = (n.port = 443 /\ n.host \notin Local)}

\* Each node that an entry of the list spells is returned, in the order of the
\* entries, whatever else is in the list: a bad entry costs no other its node.
\* place[i] is how many nodes there are of the first i entries; no entry has more
\* than one, and there are no others, but for the one of an empty list.
KeepsGoodEntries ==
  pc \in {"entries", "done"} /\ list # Absent =>
    LET taken == Len(list) - Len(todo) IN
    \E place \in [0 .. taken -> 0 .. Len(nodes)] :
      /\ place[0] = 0
      /\ \/ place[taken] = Len(nodes)
         \/ pc = "done" /\ place[taken] = 0 /\ nodes = <<Fallback>>
      /\ \A i \in 1 .. taken :
           /\ place[i] \in {place[i - 1], place[i - 1] + 1}
           /\ \A n \in Good : Spells(list[i], n) =>
                place[i] = place[i - 1] + 1 /\ nodes[place[i]] = n

\* The doc of parse_nodes lists `[::1]:9000` among the nodes one can write.  For
\* the relay of such a list to be reached, the URL must have the host in a form
\* that a URL can have: in brackets, if it has colons.
UrlNamesNode ==
  (pc = "done" /\ list \notin {Absent, <<>>} /\ \E n \in Good : Spells(list[1], n))
    => LET host == Url(nodes[1]).host IN HasColon(host) => host[1] = "["
=============================================================================
