------------------------ MODULE NodeResolutionProofs ------------------------
(***************************************************************************)
(* What node resolution returns, for any words, lists, variables and files *)
(* of any length.                                                          *)
(***************************************************************************)
EXTENDS NodeResolution, SequenceLemmas

-----------------------------------------------------------------------------
(* Entries.                                                                *)

\* What is left between the brackets is a text.
LEMMA Trimmed ==
  ASSUME NEW t \in Text
  PROVE  TrimBrackets(t) \in Text
<1> DEFINE inner == {i \in DOMAIN t : t[i] \notin Brackets}
<1>1. CASE inner = {}
  BY <1>1 DEF TrimBrackets, Text
<1>2. CASE inner # {}
  <2>1. Len(t) \in Nat /\ inner \in SUBSET (1 .. Len(t))
    BY DEF Text
  <2>2. Min(inner) \in 1 .. Len(t) /\ Max(inner) \in 1 .. Len(t)
    <3> HIDE DEF inner
    <3> QED
      BY <1>2, <2>1, LeastPosition, GreatestPosition
  <2>3. SubSeq(t, Min(inner), Max(inner)) \in Text
    <3> HIDE DEF inner
    <3> QED
      BY <2>1, <2>2, SubSeqProperties DEF Text
  <2> QED
    BY <1>2, <2>3 DEF TrimBrackets
<1> QED
  BY <1>1, <1>2

\* Nodes with a port that is written, and without one, are nodes, and they have
\* TLS on port 443 of a host that is not this one.
Remote(n) == n.tls = (n.port = 443 /\ n.host \notin Local)

\* A node with a port of its own is one that speaks TLS where it should.
LEMMA NodesAt ==
  ASSUME NEW host \in Text, NEW port \in Ports
  PROVE  NodeAt(host, port) \in Node /\ Remote(NodeAt(host, port))
BY DEF NodeAt, InferTls, Node, Remote

\* So is one with the default port,
LEMMA DefaultNodes ==
  ASSUME NEW host \in Text
  PROVE  DefaultNode(host) \in Node /\ Remote(DefaultNode(host))
<1>1. 8080 \in Ports /\ 443 \in Ports
  BY DEF Ports
<1> QED
  BY <1>1 DEF DefaultNode, Node, Remote

\* and one on this host,
LEMMA LocalNodes ==
  ASSUME NEW port \in Ports
  PROVE  LET n == [host |-> <<"localhost">>, port |-> port, tls |-> FALSE]
         IN  n \in Node /\ Remote(n)
<1>1. <<"localhost">> \in Text /\ <<"localhost">> \in Local
  <2>1. "localhost" \in Words
    BY ResolutionAssumption
  <2> QED
    BY <2>1 DEF Text, Local
<1> QED
  BY <1>1 DEF Node, Remote

\* and the node of last resort.
LEMMA Fallbacks == Fallback \in Node /\ Remote(Fallback)
<1>1. 8080 \in Ports
  BY DEF Ports
<1> QED
  BY <1>1, LocalNodes DEF Fallback

\* The last colon of a text, or 0.
Colons(t)    == {i \in 1 .. Len(t) : t[i] = ":"}
LastColon(t) == IF Colons(t) # {} THEN Max(Colons(t)) ELSE 0

PortText(t) == SubSeq(t, LastColon(t) + 1, Len(t))
HostText(t) == TrimBrackets(SubSeq(t, 1, LastColon(t) - 1))

\* An entry is empty, has no port, has one, or has none where one should be.
LEMMA EntryCases ==
  ASSUME NEW t \in Text
  PROVE  /\ Len(t) \in Nat /\ LastColon(t) \in 0 .. Len(t)
         /\ t = <<>> => ParseEntry(t) = <<>>
         /\ t # <<>> /\ LastColon(t) = 0 => ParseEntry(t) = <<DefaultNode(t)>>
         /\ LastColon(t) > 0 =>
              ParseEntry(t) = IF Len(PortText(t)) = 1 /\ PortText(t)[1] \in DOMAIN PortOf
                              THEN <<NodeAt(HostText(t), PortOf[PortText(t)[1]])>> ELSE <<>>
<1> DEFINE colon == LastColon(t)
<1>1. SelectLastInSeq(t, LAMBDA p : p = ":") = colon
  BY DEF SelectLastInSeq, LastColon, Colons
<1>2. Len(t) \in Nat /\ colon \in 0 .. Len(t)
  <2>1. Len(t) \in Nat /\ Colons(t) \in SUBSET (1 .. Len(t))
    BY DEF Text, Colons
  <2>2. Colons(t) # {} => Max(Colons(t)) \in 1 .. Len(t)
    BY <2>1, GreatestPosition
  <2> QED
    BY <2>1, <2>2 DEF LastColon
<1>3. (t = <<>> => ~(colon > 0)) /\ (colon = 0 => ~(colon > 0))
  BY <1>2 DEF Text
<1> HIDE DEF colon
<1> QED
  BY <1>1, <1>2, <1>3 DEF ParseEntry, PortText, HostText, colon

\* What an entry gives is at most one node, with TLS where it belongs.
LEMMA EntryNodes ==
  ASSUME NEW t \in Text
  PROVE  /\ ParseEntry(t) \in Seq(Node) /\ Len(ParseEntry(t)) \in {0, 1}
         /\ \A k \in DOMAIN ParseEntry(t) : Remote(ParseEntry(t)[k])
<1>1. LastColon(t) > 0 => HostText(t) \in Text
  <2> SUFFICES ASSUME LastColon(t) > 0 PROVE HostText(t) \in Text
    OBVIOUS
  <2>1. LastColon(t) - 1 \in Int /\ 1 .. LastColon(t) - 1 \subseteq 1 .. Len(t)
    BY EntryCases
  <2>2. SubSeq(t, 1, LastColon(t) - 1) \in Text
    BY <2>1, SubSeqProperties DEF Text
  <2> QED
    BY <2>2, Trimmed DEF HostText
<1>2. \A w \in DOMAIN PortOf : PortOf[w] \in Ports
  BY ResolutionAssumption
<1>3. CASE ParseEntry(t) = <<>>
  BY <1>3
<1>4. ASSUME NEW n \in Node, Remote(n), ParseEntry(t) = <<n>>
      PROVE  /\ ParseEntry(t) \in Seq(Node) /\ Len(ParseEntry(t)) \in {0, 1}
             /\ \A k \in DOMAIN ParseEntry(t) : Remote(ParseEntry(t)[k])
  BY <1>4
<1>5. CASE ParseEntry(t) = <<DefaultNode(t)>>
  BY <1>4, <1>5, DefaultNodes
<1>6. CASE /\ LastColon(t) > 0 /\ PortText(t)[1] \in DOMAIN PortOf
           /\ ParseEntry(t) = <<NodeAt(HostText(t), PortOf[PortText(t)[1]])>>
  <2>1. NodeAt(HostText(t), PortOf[PortText(t)[1]]) \in Node
        /\ Remote(NodeAt(HostText(t), PortOf[PortText(t)[1]]))
    BY <1>1, <1>2, <1>6, NodesAt
  <2> QED
    BY <1>4, <1>6, <2>1
<1>7. LastColon(t) = 0 \/ LastColon(t) > 0
  BY EntryCases
<1> QED
  BY <1>3, <1>5, <1>6, <1>7, EntryCases
-----------------------------------------------------------------------------
(* Types, and where TLS is used.                                           *)

\* The port that the environment gives is one.
LEMMA EnvPorts == EnvPort \in Ports
<1>1. \A w \in DOMAIN PortOf : PortOf[w] \in Ports
  BY ResolutionAssumption
<1>2. 8080 \in Ports
  BY DEF Ports
<1> QED
  BY <1>1, <1>2 DEF EnvPort

\* What a line says has the type of the local it goes to.
LEMMA LineTypes ==
  ASSUME NEW line \in Lines
  PROVE  /\ line.kind = "section" => line.name \in {"em_disco", "other"}
         /\ line.kind = "entry" /\ line.key = "nodes" => line.value \in Lists
BY DEF Lines

\* The bounded lists that TLC enumerates are sequences of entries.
LEMMA ListsAreSequences == Lists \subseteq Seq(Entries)
<1>1. MaxEntries \in Nat
  BY ResolutionAssumption
<1>2. SUFFICES ASSUME NEW m \in 0 .. MaxEntries, NEW l \in [1 .. m -> Entries]
               PROVE  l \in Seq(Entries)
  BY DEF Lists, BoundedSeq, SeqOf
<1>3. m \in Nat
  BY <1>1
<1> QED
  BY <1>3, SeqDef

\* The actions that leave the file alone have nodes, TLS and types right.
LEMMA Returns ==
  ASSUME TypeOK, NEW result \in Seq(Node), result # <<>>,
         given = <<>> => \A k \in DOMAIN result : Remote(result[k]),
         Return(result), UNCHANGED <<sources, conf, locals>>
  PROVE  TypeOK' /\ AlwaysANode' /\ TlsOnlyRemote'
BY DEF TypeOK, AlwaysANode, TlsOnlyRemote, Remote, Return, sources, locals

\* One node in a list.
LEMMA OneNode ==
  ASSUME NEW n \in Node, Remote(n)
  PROVE  <<n>> \in Seq(Node) /\ <<n>> # <<>> /\ \A k \in DOMAIN <<n>> : Remote(<<n>>[k])
OBVIOUS

Resolved == TypeOK /\ AlwaysANode /\ TlsOnlyRemote

\* Nothing is resolved at first.
LEMMA InitResolved == Init => Resolved
<1> SUFFICES ASSUME Init PROVE Resolved
  OBVIOUS
<1>1. TypeOK
  BY EmptySeq DEF Init, TypeOK
<1>2. nodes = <<>> /\ pc = "start"
  BY DEF Init
<1> QED
  BY <1>1, <1>2 DEF Resolved, AlwaysANode, TlsOnlyRemote

\* Each step keeps the three properties: it returns nodes that have them, adds
\* those of one entry, or leaves the nodes alone.
LEMMA StepResolved == Resolved /\ [Next]_vars => Resolved'
<1> SUFFICES ASSUME Resolved, [Next]_vars PROVE Resolved'
  OBVIOUS
<1> USE DEF Resolved
<1>1. CASE UseGiven
  <2>1. given \in Seq(Node)
    BY ResolutionAssumption DEF TypeOK
  <2> QED
    BY <1>1, <2>1, Returns DEF UseGiven
<1>2. CASE UseEnvironment
  <2>1. envHost # Absent => envHost \in Text
    BY ResolutionAssumption DEF TypeOK
  <2>2. CASE envHost # Absent /\ envPort # Absent /\ Return(<<NodeAt(envHost, EnvPort)>>)
    <3>1. NodeAt(envHost, EnvPort) \in Node /\ Remote(NodeAt(envHost, EnvPort))
      BY <2>1, <2>2, EnvPorts, NodesAt
    <3> QED
      BY <1>2, <2>2, <3>1, OneNode, Returns DEF UseEnvironment
  <2>3. CASE envHost # Absent /\ envPort = Absent /\ Return(<<DefaultNode(envHost)>>)
    <3>1. DefaultNode(envHost) \in Node /\ Remote(DefaultNode(envHost))
      BY <2>1, <2>3, DefaultNodes
    <3> QED
      BY <1>2, <2>3, <3>1, OneNode, Returns DEF UseEnvironment
  <2>4. CASE Return(<<[host |-> <<"localhost">>, port |-> EnvPort, tls |-> FALSE]>>)
    <3> DEFINE n == [host |-> <<"localhost">>, port |-> EnvPort, tls |-> FALSE]
    <3>1. n \in Node /\ Remote(n)
      BY EnvPorts, LocalNodes
    <3> HIDE DEF n
    <3>2. Return(<<n>>)
      BY <2>4 DEF n
    <3> QED
      BY <1>2, <3>1, <3>2, OneNode, Returns DEF UseEnvironment
  <2> QED
    BY <1>2, <2>2, <2>3, <2>4 DEF UseEnvironment
<1>3. CASE OpenConf
  <2>1. CASE Return(<<Fallback>>)
    BY <1>3, <2>1, Fallbacks, OneNode, Returns DEF OpenConf
  <2>2. CASE pc' = "parse" /\ UNCHANGED nodes
    BY <1>3, <2>2 DEF OpenConf, TypeOK, AlwaysANode, TlsOnlyRemote, sources, locals
  <2> QED
    BY <1>3, <2>1, <2>2 DEF OpenConf
<1>4. ASSUME NEW line \in Lines, ReadLine(line) PROVE Resolved'
  <2>1. conf' \in Seq(Lines)
    BY <1>4, AppendProperties DEF ReadLine, TypeOK
  <2>2. section' \in {"", "em_disco", "other"} /\ list' \in Lists \cup {Absent}
    BY <1>4, LineTypes DEF ReadLine, TypeOK
  <2> QED
    BY <1>4, <2>1, <2>2 DEF ReadLine, TypeOK, AlwaysANode, TlsOnlyRemote, sources
<1>5. CASE EndOfConf
  <2>1. CASE list = Absent
    BY <1>5, <2>1, Fallbacks, OneNode, Returns DEF EndOfConf, locals
  <2>2. CASE list # Absent
    <3>1. list \in Seq(Entries)
      BY <2>2, ListsAreSequences DEF TypeOK
    <3>2. pc' = "entries" /\ todo' = list /\ UNCHANGED <<nodes, sources, conf, section, list>>
      BY <1>5, <2>2 DEF EndOfConf
    <3> QED
      BY <3>1, <3>2 DEF TypeOK, AlwaysANode, TlsOnlyRemote, sources
  <2> QED
    BY <2>1, <2>2
<1>6. CASE TakeEntry
  <2> DEFINE found == ParseEntry(Head(todo))
  <2>1. Head(todo) \in Text /\ Tail(todo) \in Seq(Entries)
    <3>1. todo \in Seq(Entries) /\ todo # <<>> /\ Entries \subseteq Text
      BY <1>6, ResolutionAssumption DEF TakeEntry, TypeOK
    <3> QED
      BY <3>1, HeadTailProperties
  <2>2. found \in Seq(Node) /\ \A k \in DOMAIN found : Remote(found[k])
    BY <2>1, EntryNodes
  <2> HIDE DEF found
  <2>3. nodes' = nodes \o found /\ nodes \in Seq(Node)
    BY <1>6 DEF TakeEntry, TypeOK, found
  <2>4. nodes' \in Seq(Node)
    BY <2>2, <2>3
  <2>5. TlsOnlyRemote'
    <3> SUFFICES ASSUME given = <<>>, NEW k \in DOMAIN nodes' PROVE Remote(nodes'[k])
      BY <1>6 DEF TakeEntry, TlsOnlyRemote, Remote, sources
    <3>1. CASE k \in DOMAIN nodes
      BY <2>2, <2>3, <3>1 DEF TlsOnlyRemote, Remote
    <3>2. CASE k \notin DOMAIN nodes
      <4>1. k - Len(nodes) \in DOMAIN found /\ nodes'[k] = found[k - Len(nodes)]
        BY <2>2, <2>3, <3>2
      <4> QED
        BY <2>2, <4>1
    <3> QED
      BY <3>1, <3>2
  <2> QED
    BY <1>6, <2>1, <2>4, <2>5 DEF TakeEntry, TypeOK, AlwaysANode, sources
<1>7. CASE EndOfList
  <2>1. CASE nodes = <<>>
    BY <1>7, <2>1, Fallbacks, OneNode, Returns DEF EndOfList
  <2>2. CASE nodes # <<>>
    <3>1. nodes \in Seq(Node) /\ (given = <<>> => \A k \in DOMAIN nodes : Remote(nodes[k]))
      BY DEF TypeOK, TlsOnlyRemote, Remote
    <3> QED
      BY <1>7, <2>2, <3>1, Returns DEF EndOfList
  <2> QED
    BY <2>1, <2>2
<1>8. CASE UNCHANGED vars
  BY <1>8 DEF vars, sources, locals, TypeOK, AlwaysANode, TlsOnlyRemote
<1> QED
  BY <1>1, <1>2, <1>3, <1>4, <1>5, <1>6, <1>7, <1>8 DEF Next

\* The locals of resolve_nodes and parse_conf keep their types.
THEOREM TypeCorrect == Spec => []TypeOK
<1>1. Resolved => TypeOK
  BY DEF Resolved
<1> QED
  BY <1>1, InitResolved, StepResolved, PTL DEF Spec

\* resolve_nodes returns a node, whatever the code, the environment and the file
\* have in them: that run() takes the first cannot fail.
THEOREM NeverNoNode == Spec => []AlwaysANode
<1>1. Resolved => AlwaysANode
  BY DEF Resolved
<1> QED
  BY <1>1, InitResolved, StepResolved, PTL DEF Spec

\* The entries of any list, parsed, and the nodes of the environment use TLS
\* exactly on port 443 of a host that is not written as one of the Local ones.
THEOREM TlsWhereItBelongs == Spec => []TlsOnlyRemote
<1>1. Resolved => TlsOnlyRemote
  BY DEF Resolved
<1> QED
  BY <1>1, InitResolved, StepResolved, PTL DEF Spec

-----------------------------------------------------------------------------
(* The line that counts.                                                   *)

\* A position after all others is the greatest.
LEMMA GreatestIsNew ==
  ASSUME NEW n \in Nat, NEW S \in SUBSET (1 .. n)
  PROVE  Max(S \cup {n + 1}) = n + 1
<1> DEFINE T == S \cup {n + 1}
<1>1. T \in SUBSET (1 .. n + 1) /\ T # {} /\ n + 1 \in Nat /\ n + 1 \in T
  OBVIOUS
<1> HIDE DEF T
<1>2. Max(T) \in T /\ n + 1 <= Max(T)
  BY <1>1, GreatestPosition
<1>3. Max(T) = n + 1
  <2>1. Max(T) \in 1 .. n + 1
    BY <1>1, <1>2
  <2> QED
    BY <1>2, <2>1
<1> QED
  BY <1>3 DEF T

SectionOf(lines, i) ==
  LET above == {j \in 1 .. i - 1 : lines[j].kind = "section"}
  IN  IF above = {} THEN "" ELSE lines[Max(above)].name

OwnLines(lines) ==
  {i \in DOMAIN lines : /\ lines[i].kind = "entry" /\ lines[i].key = "nodes"
                        /\ SectionOf(lines, i) = "em_disco"}

\* A line that is read leaves the sections of those above it as they are, and
\* its own is the one read last.
LEMMA SectionsStay ==
  ASSUME NEW lines \in Seq(Lines), NEW line \in Lines, NEW i \in 1 .. Len(lines) + 1
  PROVE  SectionOf(Append(lines, line), i) = SectionOf(lines, i)
<1> DEFINE more == Append(lines, line)
           above(l) == {j \in 1 .. i - 1 : l[j].kind = "section"}
<1>1. Len(lines) \in Nat /\ \A j \in 1 .. Len(lines) : more[j] = lines[j]
  OBVIOUS
<1> HIDE DEF more
<1>2. above(more) = above(lines)
  BY <1>1
<1>3. above(lines) # {} => Max(above(lines)) \in 1 .. Len(lines)
  <2>1. above(lines) \in SUBSET (1 .. Len(lines))
    BY <1>1
  <2> HIDE DEF above
  <2> QED
    BY <1>1, <2>1, GreatestPosition
<1>4. SectionOf(more, i) = SectionOf(lines, i)
  BY <1>1, <1>2, <1>3 DEF SectionOf
<1> QED
  BY <1>4 DEF more

\* The section after a line is its name, if it is a section, and else as before.
LEMMA SectionAfter ==
  ASSUME NEW lines \in Seq(Lines), NEW line \in Lines
  PROVE  SectionOf(Append(lines, line), Len(lines) + 2)
           = IF line.kind = "section" THEN line.name ELSE SectionOf(lines, Len(lines) + 1)
<1> DEFINE n == Len(lines)
           more == Append(lines, line)
           before == {j \in 1 .. n : lines[j].kind = "section"}
           above  == {j \in 1 .. n + 1 : more[j].kind = "section"}
<1>1. n \in Nat /\ more[n + 1] = line /\ \A j \in 1 .. n : more[j] = lines[j]
  OBVIOUS
<1> HIDE DEF more, n
<1>2. above = before \cup (IF line.kind = "section" THEN {n + 1} ELSE {})
  BY <1>1
<1>3. before \in SUBSET (1 .. n)
  OBVIOUS
<1>4. (n + 2) - 1 = n + 1 /\ (n + 1) - 1 = n
  BY <1>1
<1>5. SectionOf(more, n + 2) = (IF above = {} THEN "" ELSE more[Max(above)].name)
  <2>1. {j \in 1 .. (n + 2) - 1 : more[j].kind = "section"} = above
    BY <1>4
  <2> HIDE DEF above
  <2> QED
    BY <2>1 DEF SectionOf
<1>6. SectionOf(lines, n + 1) = (IF before = {} THEN "" ELSE lines[Max(before)].name)
  <2>1. {j \in 1 .. (n + 1) - 1 : lines[j].kind = "section"} = before
    BY <1>4
  <2> HIDE DEF before
  <2> QED
    BY <2>1 DEF SectionOf
<1> HIDE DEF above, before
<1>7. CASE line.kind = "section"
  <2>1. above = before \cup {n + 1}
    BY <1>2, <1>7
  <2>2. Max(above) = n + 1
    BY <1>1, <1>3, <2>1, GreatestIsNew
  <2> QED
    BY <1>1, <1>5, <1>7, <2>1, <2>2 DEF more, n
<1>8. CASE line.kind # "section"
  <2>1. above = before
    BY <1>2, <1>8
  <2>2. before # {} => Max(before) \in 1 .. n
    BY <1>1, <1>3, GreatestPosition
  <2> QED
    BY <1>1, <1>5, <1>6, <1>8, <2>1, <2>2 DEF more, n
<1> QED
  BY <1>7, <1>8

\* A line `nodes` in a section em_disco is the last of them.
LEMMA OwnAfter ==
  ASSUME NEW lines \in Seq(Lines), NEW line \in Lines
  PROVE  OwnLines(Append(lines, line))
           = OwnLines(lines)
               \cup (IF /\ line.kind = "entry" /\ line.key = "nodes"
                        /\ SectionOf(lines, Len(lines) + 1) = "em_disco"
                     THEN {Len(lines) + 1} ELSE {})
<1> DEFINE n == Len(lines)
           more == Append(lines, line)
<1>1. /\ n \in Nat /\ DOMAIN lines = 1 .. n /\ DOMAIN more = 1 .. n + 1
      /\ more[n + 1] = line /\ \A j \in 1 .. n : more[j] = lines[j]
  OBVIOUS
<1>2. \A i \in 1 .. n + 1 : SectionOf(more, i) = SectionOf(lines, i)
  BY SectionsStay
<1> HIDE DEF more, n
<1>3. OwnLines(more) = {i \in 1 .. n + 1 : /\ more[i].kind = "entry" /\ more[i].key = "nodes"
                                           /\ SectionOf(lines, i) = "em_disco"}
  BY <1>1, <1>2 DEF OwnLines
<1>4. OwnLines(lines) = {i \in 1 .. n : /\ lines[i].kind = "entry" /\ lines[i].key = "nodes"
                                        /\ SectionOf(lines, i) = "em_disco"}
  BY <1>1 DEF OwnLines
<1>5. OwnLines(more) = OwnLines(lines)
         \cup (IF /\ line.kind = "entry" /\ line.key = "nodes"
                  /\ SectionOf(lines, n + 1) = "em_disco"
               THEN {n + 1} ELSE {})
  BY <1>1, <1>3, <1>4
<1> QED
  BY <1>5 DEF more, n

Counted ==
  /\ section = SectionOf(conf, Len(conf) + 1)
  /\ list = IF OwnLines(conf) = {} THEN Absent ELSE conf[Max(OwnLines(conf))].value

\* No line is read at first.
LEMMA InitCounted == Init => Counted
<1> SUFFICES ASSUME Init PROVE Counted
  OBVIOUS
<1>1. conf = <<>> /\ section = "" /\ list = Absent
  BY DEF Init
<1>2. OwnLines(conf) = {}
  <2>1. DOMAIN <<>> = {}
    OBVIOUS
  <2>2. DOMAIN conf = {}
    BY <1>1, <2>1
  <2> QED
    BY <2>2 DEF OwnLines
<1>3. SectionOf(conf, Len(conf) + 1) = ""
  <2>1. {j \in 1 .. (Len(conf) + 1) - 1 : conf[j].kind = "section"} = {}
    <3>1. Len(conf) = 0
      <4>1. Len(<<>>) = 0
        OBVIOUS
      <4> QED
        BY <1>1, <4>1
    <3>2. 1 .. 0 = {}
      OBVIOUS
    <3> QED
      BY <3>1, <3>2
  <2> QED
    BY <2>1 DEF SectionOf
<1> QED
  BY <1>1, <1>2, <1>3 DEF Counted

\* Reading a line keeps section and list in step with the lines read so far.
LEMMA StepCounted == TypeOK /\ Counted /\ [Next]_vars => Counted'
<1> SUFFICES ASSUME TypeOK, Counted, [Next]_vars PROVE Counted'
  OBVIOUS
<1>1. ASSUME NEW line \in Lines, ReadLine(line) PROVE Counted'
  <2> DEFINE n == Len(conf)
  <2>1. conf \in Seq(Lines) /\ n \in Nat /\ OwnLines(conf) \in SUBSET (1 .. n)
    <3>1. conf \in Seq(Lines)
      BY DEF TypeOK
    <3>2. n \in Nat /\ DOMAIN conf = 1 .. n
      BY <3>1, LenProperties
    <3> QED
      BY <3>1, <3>2 DEF OwnLines
  <2>2. conf' = Append(conf, line) /\ Len(conf') = n + 1
        /\ conf'[n + 1] = line /\ \A j \in 1 .. n : conf'[j] = conf[j]
    BY <1>1, <2>1 DEF ReadLine
  <2>3. section' = SectionOf(conf', Len(conf') + 1)
    <3>1. SectionOf(conf', n + 2) = IF line.kind = "section" THEN line.name ELSE section
      BY <2>1, <2>2, SectionAfter DEF Counted
    <3>2. Len(conf') + 1 = n + 2
      BY <2>1, <2>2
    <3> QED
      BY <1>1, <3>1, <3>2 DEF ReadLine
  <2>4. OwnLines(conf')
          = OwnLines(conf) \cup (IF /\ line.kind = "entry" /\ line.key = "nodes"
                                    /\ section = "em_disco"
                                 THEN {n + 1} ELSE {})
    BY <2>1, <2>2, OwnAfter DEF Counted
  <2> HIDE DEF n
  <2>5. CASE line.kind = "entry" /\ line.key = "nodes" /\ section = "em_disco"
    <3>1. OwnLines(conf') = OwnLines(conf) \cup {n + 1}
      BY <2>4, <2>5
    <3>2. OwnLines(conf') # {} /\ Max(OwnLines(conf')) = n + 1
      BY <2>1, <3>1, GreatestIsNew
    <3>3. list' = line.value
      BY <1>1, <2>5 DEF ReadLine
    <3> QED
      BY <2>2, <2>3, <3>2, <3>3 DEF Counted
  <2>6. CASE ~(line.kind = "entry" /\ line.key = "nodes" /\ section = "em_disco")
    <3>1. OwnLines(conf') = OwnLines(conf)
      BY <2>4, <2>6
    <3>2. OwnLines(conf) # {} => Max(OwnLines(conf)) \in 1 .. n
      BY <2>1, GreatestPosition
    <3>3. list' = list
      BY <1>1, <2>6 DEF ReadLine
    <3> QED
      BY <2>2, <2>3, <3>1, <3>2, <3>3 DEF Counted
  <2> QED
    BY <2>5, <2>6
<1>2. CASE UNCHANGED <<conf, section, list>>
  BY <1>2 DEF Counted
<1>3. CASE UseGiven
  BY <1>2, <1>3 DEF UseGiven, locals
<1>4. CASE UseEnvironment
  BY <1>2, <1>4 DEF UseEnvironment, locals
<1>5. CASE OpenConf
  BY <1>2, <1>5 DEF OpenConf, locals
<1>6. CASE EndOfConf
  BY <1>2, <1>6 DEF EndOfConf
<1>7. CASE TakeEntry
  BY <1>2, <1>7 DEF TakeEntry
<1>8. CASE EndOfList
  BY <1>2, <1>8 DEF EndOfList, locals
<1>9. CASE UNCHANGED vars
  BY <1>2, <1>9 DEF vars, locals
<1> QED
  BY <1>1, <1>3, <1>4, <1>5, <1>6, <1>7, <1>8, <1>9 DEF Next

\* In a file of any length the last `nodes` in any section em_disco counts.
THEOREM LastLineWins == Spec => []LastWins
<1>1. Counted => LastWins
  BY DEF Counted, LastWins, OwnLines, SectionOf, SectionAt
<1>2. Init /\ [][Next]_vars => []Counted
  <2>1. Resolved => TypeOK
    BY DEF Resolved
  <2> QED
    BY <2>1, InitResolved, StepResolved, InitCounted, StepCounted, PTL
<1> QED
  BY <1>1, <1>2, PTL DEF Spec
-----------------------------------------------------------------------------
(* Good entries.                                                           *)

\* A host is a text without brackets that is not empty.
LEMMA KnownHosts ==
  ASSUME NEW h \in Known
  PROVE  /\ h \in Text /\ h # <<>> /\ Len(h) \in Nat \ {0}
         /\ \A i \in 1 .. Len(h) : h[i] \notin Brackets
<1>1. h \in Seq(Words \cup {":"}) /\ h # <<>>
  BY ResolutionAssumption
<1>2. Words \cap (Brackets \cup {":"}) = {} /\ ":" \notin Brackets
  BY ResolutionAssumption DEF Brackets
<1>3. \A i \in 1 .. Len(h) : h[i] \in Words \cup {":"}
  BY <1>1, ElementOfSeq
<1>4. h \in Text
  BY <1>1, SeqMonotonic DEF Text
<1> QED
  BY <1>1, <1>2, <1>3, <1>4, EmptySeq, LenProperties

\* What is left after trimming goes from the first piece that is no bracket to
\* the last.
LEMMA Trims ==
  ASSUME NEW x \in Text, NEW a \in 1 .. Len(x), NEW b \in 1 .. Len(x),
         x[a] \notin Brackets, x[b] \notin Brackets,
         \A i \in 1 .. Len(x) : x[i] \notin Brackets => a <= i /\ i <= b
  PROVE  TrimBrackets(x) = SubSeq(x, a, b)
<1> DEFINE inner == {i \in DOMAIN x : x[i] \notin Brackets}
<1>1. Len(x) \in Nat /\ DOMAIN x = 1 .. Len(x)
  BY LenProperties DEF Text
<1>2. inner \in SUBSET (1 .. Len(x)) /\ a \in inner /\ b \in inner /\ inner # {}
      /\ \A i \in inner : a <= i /\ i <= b
  BY <1>1
<1>3. TrimBrackets(x) = IF inner = {} THEN <<>> ELSE SubSeq(x, Min(inner), Max(inner))
  BY DEF TrimBrackets
<1> HIDE DEF inner
<1>4. Min(inner) \in inner /\ Min(inner) <= a /\ Max(inner) \in inner /\ b <= Max(inner)
  BY <1>1, <1>2, LeastPosition, GreatestPosition
<1>5. Min(inner) = a /\ Max(inner) = b
  <2>1. a <= Min(inner) /\ Max(inner) <= b /\ Min(inner) \in 1 .. Len(x) /\ Max(inner) \in 1 .. Len(x)
    BY <1>2, <1>4
  <2> QED
    BY <1>1, <1>4, <2>1
<1> QED
  BY <1>2, <1>3, <1>5

\* Brackets around a host are trimmed, and nothing of the host is.
LEMMA HostsTrim ==
  ASSUME NEW h \in Known
  PROVE  LET x == IF HasColon(h) THEN <<"[">> \o h \o <<"]">> ELSE h
         IN  x \in Text /\ Len(x) \in Nat /\ TrimBrackets(x) = h
<1> DEFINE n == Len(h)
<1>1. h \in Text /\ h # <<>> /\ n \in Nat \ {0} /\ \A i \in 1 .. n : h[i] \notin Brackets
  BY KnownHosts
<1>2. TrimBrackets(h) = h
  <2>1. TrimBrackets(h) = SubSeq(h, 1, n)
    <3>1. 1 \in 1 .. n /\ n \in 1 .. n /\ \A i \in 1 .. n : 1 <= i /\ i <= n
      BY <1>1
    <3> QED
      BY <1>1, <3>1, Trims
  <2> QED
    BY <1>1, <2>1, SubSeqFull DEF Text
<1>3. ASSUME NEW x, x = <<"[">> \o h \o <<"]">>
      PROVE  x \in Text /\ Len(x) \in Nat /\ TrimBrackets(x) = h
  <2>1. <<"[">> \in Text /\ <<"]">> \in Text /\ {"[", "]"} = Brackets
    BY DEF Text, Brackets
  <2> DEFINE y == <<"[">> \o h
  <2>2. /\ y \in Text /\ Len(y) = n + 1 /\ y[1] = "[" /\ \A i \in 1 .. n : y[i + 1] = h[i]
    BY <1>1, <2>1 DEF Text
  <2> HIDE DEF y
  <2>3. /\ x \in Text /\ Len(x) = n + 2 /\ x[n + 2] = "]" /\ \A i \in 1 .. n + 1 : x[i] = y[i]
    BY <1>1, <1>3, <2>1, <2>2 DEF Text, y
  <2> HIDE DEF n
  <2>4. x[1] = "[" /\ \A i \in 1 .. n : x[i + 1] = h[i]
    BY <1>1, <2>2, <2>3
  <2>5. \A i \in 1 .. Len(x) : x[i] \notin Brackets => 2 <= i /\ i <= n + 1
    <3> SUFFICES ASSUME NEW i \in 1 .. Len(x), x[i] \notin Brackets PROVE 2 <= i /\ i <= n + 1
      OBVIOUS
    <3>1. i # 1 /\ i # n + 2
      BY <2>1, <2>3, <2>4
    <3> QED
      BY <1>1, <2>3, <3>1
  <2>6. x[2] \notin Brackets /\ x[n + 1] \notin Brackets
    <3>1. 1 \in 1 .. n /\ n \in 1 .. n /\ 1 + 1 = 2
      BY <1>1
    <3> QED
      BY <1>1, <2>4, <3>1
  <2>7. TrimBrackets(x) = SubSeq(x, 2, n + 1)
    <3>1. 2 \in 1 .. Len(x) /\ n + 1 \in 1 .. Len(x)
      BY <1>1, <2>3
    <3> QED
      BY <2>3, <2>5, <2>6, <3>1, Trims
  <2>8. SubSeq(x, 2, n + 1) = h
    <3> DEFINE z == SubSeq(x, 2, n + 1)
    <3>1. /\ z \in Text /\ Len(z) = n /\ \A i \in 1 .. n : z[i] = x[2 + i - 1]
      <4>1. 2 \in Int /\ n + 1 \in Int /\ 2 <= n + 1 /\ (n + 1) - 2 + 1 = n
        BY <1>1
      <4>2. \A i \in 2 .. n + 1 : x[i] \in Words \cup Brackets \cup {":"}
        <5>1. \A i \in 2 .. n + 1 : i \in 1 .. Len(x)
          BY <1>1, <2>3
        <5> QED
          BY <2>3, <5>1, ElementOfSeq DEF Text
      <4> QED
        BY <4>1, <4>2, SubSeqProperties DEF Text
    <3> HIDE DEF z
    <3>2. \A i \in 1 .. n : z[i] = h[i]
      <4>1. \A i \in 1 .. n : 2 + i - 1 = i + 1
        BY <1>1
      <4> QED
        BY <2>4, <3>1, <4>1
    <3>3. z = h
      BY <1>1, <3>1, <3>2, SeqEqual DEF Text, n
    <3> QED
      BY <3>3 DEF z
  <2> QED
    BY <1>1, <2>3, <2>7, <2>8
<1> QED
  BY <1>1, <1>2, <1>3

\* The port is what follows the last colon, and the host is what precedes it.
LEMMA SplitsAtPort ==
  ASSUME NEW x \in Text, Len(x) \in Nat, NEW w \in Words, NEW t, t = x \o <<":", w>>
  PROVE  /\ t \in Text /\ LastColon(t) > 0
         /\ PortText(t) = <<w>> /\ HostText(t) = TrimBrackets(x)
<1> DEFINE n == Len(x)
           p == <<":", w>>
<1>1. p \in Text /\ Len(p) = 2 /\ p[1] = ":" /\ p[2] = w /\ w # ":"
  BY ResolutionAssumption DEF Text
<1>2. /\ t \in Text /\ Len(t) = n + 2 /\ t[n + 1] = ":" /\ t[n + 2] = w
      /\ \A i \in 1 .. n : t[i] = x[i]
  BY <1>1 DEF Text
<1> HIDE DEF n
<1>3. n \in Nat
  BY DEF n
<1>4. LastColon(t) = n + 1
  <2>1. Colons(t) \in SUBSET (1 .. n + 2) /\ n + 1 \in Colons(t) /\ n + 2 \notin Colons(t)
    BY <1>1, <1>2, <1>3 DEF Colons
  <2>2. n + 2 \in Nat /\ Colons(t) # {}
    BY <1>3, <2>1
  <2>3. Max(Colons(t)) \in Colons(t) /\ n + 1 <= Max(Colons(t))
    BY <2>1, <2>2, GreatestPosition
  <2>4. Max(Colons(t)) \in 1 .. n + 2 /\ Max(Colons(t)) # n + 2
    BY <2>1, <2>3
  <2> QED
    BY <1>3, <2>2, <2>3, <2>4 DEF LastColon
<1>5. PortText(t) = <<w>>
  <2>1. PortText(t) = SubSeq(t, n + 2, n + 2)
    BY <1>2, <1>3, <1>4 DEF PortText
  <2>2. n + 2 \in 1 .. Len(t)
    BY <1>2, <1>3
  <2> QED
    BY <1>2, <2>1, <2>2, OneMember DEF Text
<1>6. SubSeq(t, 1, n) = x
  <2> DEFINE y == SubSeq(t, 1, n)
  <2>1. y \in Text /\ Len(y) = n /\ \A i \in 1 .. n : y[i] = t[i]
    <3>1. n \in 0 .. Len(t)
      BY <1>2, <1>3
    <3> QED
      BY <1>2, <3>1, Prefix DEF Text
  <2> HIDE DEF y
  <2>2. y = x
    BY <1>2, <2>1, SeqEqual DEF Text, n
  <2> QED
    BY <2>2 DEF y
<1>7. HostText(t) = TrimBrackets(x)
  <2>1. LastColon(t) - 1 = n
    BY <1>3, <1>4
  <2> QED
    BY <1>6, <2>1 DEF HostText
<1>8. LastColon(t) > 0
  BY <1>3, <1>4
<1> QED
  BY <1>2, <1>5, <1>7, <1>8

\* An entry that spells a node gives that node and no other.
LEMMA SpelledGives ==
  ASSUME NEW t \in Text, NEW n \in Good, Spells(t, n)
  PROVE  ParseEntry(t) = <<n>>
<1>1. /\ n.host \in Known /\ n = [host |-> n.host, port |-> n.port, tls |-> n.tls]
      /\ n.tls = (n.port = 443 /\ n.host \notin Local)
  BY DEF Good
<1>2. ASSUME NEW w \in DOMAIN PortOf, PortOf[w] = n.port, t = Spelt(n.host, w)
      PROVE  ParseEntry(t) = <<n>>
  <2> DEFINE x == IF HasColon(n.host) THEN <<"[">> \o n.host \o <<"]">> ELSE n.host
  <2>1. x \in Text /\ Len(x) \in Nat /\ TrimBrackets(x) = n.host
    BY <1>1, HostsTrim
  <2>2. t = x \o <<":", w>> /\ w \in Words
    BY <1>2, ResolutionAssumption DEF Spelt
  <2> HIDE DEF x
  <2>3. LastColon(t) > 0 /\ PortText(t) = <<w>> /\ HostText(t) = n.host
    BY <2>1, <2>2, SplitsAtPort
  <2>4. Len(PortText(t)) = 1 /\ PortText(t)[1] = w
    BY <2>3
  <2>5. ParseEntry(t) = <<NodeAt(n.host, n.port)>>
    BY <1>2, <2>3, <2>4, EntryCases
  <2>6. NodeAt(n.host, n.port) = n
    BY <1>1 DEF NodeAt, InferTls
  <2> QED
    BY <2>5, <2>6
<1>3. ASSUME t = n.host, n = DefaultNode(t), ~HasColon(t)
      PROVE  ParseEntry(t) = <<n>>
  <2>1. t # <<>> /\ Len(t) \in Nat /\ DOMAIN t = 1 .. Len(t)
    BY <1>1, <1>3, KnownHosts, LenProperties DEF Text
  <2>2. Colons(t) = {}
    BY <1>3, <2>1 DEF HasColon, Colons
  <2>3. LastColon(t) = 0
    BY <2>2 DEF LastColon
  <2>4. ParseEntry(t) = <<DefaultNode(t)>>
    BY <2>1, <2>3, EntryCases
  <2> QED
    BY <1>3, <2>4
<1> QED
  BY <1>2, <1>3 DEF Spells

\* What KeepsGoodEntries says of the first k entries of a list and their nodes.
Places(place, l, k, found) ==
  /\ place \in [0 .. k -> 0 .. Len(found)] /\ place[0] = 0
  /\ \A i \in 1 .. k :
       /\ place[i] \in {place[i - 1], place[i - 1] + 1}
       /\ \A n \in Good : Spells(l[i], n) =>
            place[i] = place[i - 1] + 1 /\ found[place[i]] = n

\* The nodes of one entry more are put behind those of the others.
LEMMA PlaceOneMore ==
  ASSUME NEW l, NEW k \in Nat, NEW t \in Text, l[k + 1] = t, NEW found \in Seq(Node),
         NEW place, Places(place, l, k, found), place[k] = Len(found)
  PROVE  LET more == found \o ParseEntry(t)
         IN  \E q : Places(q, l, k + 1, more) /\ q[k + 1] = Len(more)
<1> DEFINE entry == ParseEntry(t)
           more  == found \o entry
           q     == [i \in 0 .. k + 1 |-> IF i <= k THEN place[i] ELSE Len(more)]
<1>1. entry \in Seq(Node) /\ Len(entry) \in {0, 1} /\ \A n \in Good : Spells(t, n) => entry = <<n>>
  BY EntryNodes, SpelledGives
<1> HIDE DEF entry
<1>2. /\ more \in Seq(Node) /\ Len(more) = Len(found) + Len(entry) /\ Len(found) \in Nat
      /\ \A i \in 1 .. Len(found) : more[i] = found[i]
      /\ Len(entry) = 1 => more[Len(found) + 1] = entry[1]
  BY <1>1
<1> HIDE DEF more
<1>3. /\ place \in [0 .. k -> 0 .. Len(found)] /\ place[0] = 0 /\ place[k] = Len(found)
      /\ \A i \in 1 .. k :
           /\ place[i] \in {place[i - 1], place[i - 1] + 1}
           /\ \A n \in Good : Spells(l[i], n) =>
                place[i] = place[i - 1] + 1 /\ found[place[i]] = n
  BY DEF Places
<1>4. q[k + 1] = Len(more) /\ \A i \in 0 .. k : q[i] = place[i]
  OBVIOUS
<1>5. q \in [0 .. k + 1 -> 0 .. Len(more)] /\ q[0] = 0
  BY <1>1, <1>2, <1>3
<1> HIDE DEF q
<1>6. ASSUME NEW i \in 1 .. k + 1
      PROVE  /\ q[i] \in {q[i - 1], q[i - 1] + 1}
             /\ \A n \in Good : Spells(l[i], n) => q[i] = q[i - 1] + 1 /\ more[q[i]] = n
  <2>1. CASE i \in 1 .. k
    <3>1. /\ i \in 0 .. k /\ i - 1 \in 0 .. k /\ q[i] = place[i] /\ q[i - 1] = place[i - 1]
          /\ place[i] \in 0 .. Len(found) /\ place[i - 1] \in 0 .. Len(found)
      BY <1>3, <1>4, <2>1
    <3>2. place[i] = place[i - 1] + 1 => more[place[i]] = found[place[i]]
      BY <1>2, <3>1
    <3> QED
      BY <1>3, <2>1, <3>1, <3>2
  <2>2. CASE i = k + 1
    <3>1. q[i] = Len(found) + Len(entry) /\ q[i - 1] = Len(found) /\ l[i] = t
      BY <1>2, <1>3, <1>4, <2>2
    <3>2. ASSUME NEW n \in Good, Spells(t, n)
          PROVE  Len(entry) = 1 /\ entry[1] = n
      BY <1>1, <3>2
    <3>3. q[i] \in {q[i - 1], q[i - 1] + 1}
      <4>1. Len(entry) = 0 \/ Len(entry) = 1
        BY <1>1
      <4>2. Len(found) \in Nat /\ Len(found) + 0 = Len(found)
        BY <1>2
      <4> QED
        BY <3>1, <4>1, <4>2
    <3>4. ASSUME NEW n \in Good, Spells(l[i], n)
          PROVE  q[i] = q[i - 1] + 1 /\ more[q[i]] = n
      <4>1. Len(entry) = 1 /\ entry[1] = n
        BY <3>1, <3>2, <3>4
      <4> QED
        BY <1>2, <3>1, <4>1
    <3> QED
      BY <3>3, <3>4
  <2> QED
    BY <2>1, <2>2
<1>7. Places(q, l, k + 1, more)
  BY <1>5, <1>6 DEF Places
<1> QED
  BY <1>4, <1>7 DEF more, entry

\* A list none of whose entries gives a node spells none.
LEMMA PlaceNone ==
  ASSUME NEW l, NEW k \in Nat, NEW place, Places(place, l, k, <<>>)
  PROVE  Places(place, l, k, <<Fallback>>) /\ place[k] = 0
<1>1. Len(<<>>) = 0 /\ Len(<<Fallback>>) = 1
  OBVIOUS
<1>2. place \in [0 .. k -> {0}]
  BY <1>1 DEF Places
<1>3. place \in [0 .. k -> 0 .. 1]
  BY <1>2
<1>4. \A i \in 1 .. k : place[i] = 0 /\ place[i - 1] = 0
  BY <1>2
<1>5. \A i \in 1 .. k : ~ \E n \in Good : Spells(l[i], n)
  BY <1>4 DEF Places
<1> QED
  BY <1>1, <1>2, <1>3, <1>4, <1>5 DEF Places

\* What is left to be taken is the rest of the list, and until it is begun there
\* are no nodes.
Placed ==
  /\ pc = "start" => list = Absent
  /\ pc \in {"start", "parse"} => nodes = <<>>
  /\ pc = "entries" => /\ list # Absent /\ Len(todo) <= Len(list)
                       /\ \A i \in 1 .. Len(todo) : todo[i] = list[(Len(list) - Len(todo)) + i]
  /\ KeepsGoodEntries

Keeping(place) ==
  LET taken == Len(list) - Len(todo) IN
  /\ Places(place, list, taken, nodes)
  /\ \/ place[taken] = Len(nodes)
     \/ pc = "done" /\ place[taken] = 0 /\ nodes = <<Fallback>>

\* The property, in these terms, before a step.
LEMMA KeepsByPlaces ==
  KeepsGoodEntries /\ pc \in {"entries", "done"} /\ list # Absent => \E place : Keeping(place)
BY DEF KeepsGoodEntries, Keeping, Places

\* And after it.
LEMMA PlacesKeep ==
  ASSUME NEW place, Keeping(place)'
  PROVE  KeepsGoodEntries'
BY DEF KeepsGoodEntries, Keeping, Places

\* No list is begun at first.
LEMMA InitPlaced == Init => Placed
BY DEF Init, Placed, KeepsGoodEntries

\* Taking an entry goes on by one in the list and in the places.
LEMMA StepPlaced == TypeOK /\ Placed /\ [Next]_vars => Placed'
<1> SUFFICES ASSUME TypeOK, Placed, [Next]_vars PROVE Placed'
  OBVIOUS
<1>1. list # Absent => list \in Seq(Entries) /\ Len(list) \in Nat
  BY ListsAreSequences, LenProperties DEF TypeOK
<1>2. CASE UseGiven \/ UseEnvironment \/ OpenConf
  <2>1. list = Absent /\ list' = Absent /\ nodes = <<>> /\ pc' \in {"parse", "done"}
        /\ (pc' = "parse" => nodes' = <<>>)
    BY <1>2 DEF UseGiven, UseEnvironment, OpenConf, Return, locals, Placed
  <2> QED
    BY <2>1 DEF Placed, KeepsGoodEntries
<1>3. ASSUME NEW line \in Lines, ReadLine(line) PROVE Placed'
  BY <1>3 DEF ReadLine, Placed, KeepsGoodEntries
<1>4. CASE EndOfConf
  <2>1. CASE list = Absent
    BY <1>4, <2>1 DEF EndOfConf, Return, Placed, KeepsGoodEntries
  <2>2. CASE list # Absent
    <3>1. /\ pc' = "entries" /\ todo' = list /\ list' = list /\ nodes' = <<>>
      BY <1>4, <2>2 DEF EndOfConf, Placed
    <3>2. Len(list') - Len(todo') = 0 /\ Len(nodes') = 0
          /\ \A i \in 1 .. Len(todo') : i = (Len(list') - Len(todo')) + i
      BY <1>1, <2>2, <3>1
    <3> DEFINE place == [i \in 0 .. 0 |-> 0]
    <3>3. place \in [0 .. 0 -> 0 .. Len(nodes')] /\ place[0] = Len(nodes') /\ place[0] = 0
      BY <3>2
    <3> HIDE DEF place
    <3>4. Places(place, list', 0, nodes')
      BY <3>3 DEF Places
    <3>5. KeepsGoodEntries'
      <4>1. Keeping(place)'
        BY <3>2, <3>3, <3>4 DEF Keeping
      <4> QED
        BY <4>1, PlacesKeep
    <3> QED
      BY <1>1, <2>2, <3>1, <3>2, <3>5 DEF Placed
  <2> QED
    BY <2>1, <2>2
<1>5. CASE TakeEntry
  <2> DEFINE k == Len(list) - Len(todo)
  <2>1. /\ pc = "entries" /\ pc' = pc /\ list' = list /\ todo # <<>>
        /\ todo' = Tail(todo) /\ nodes' = nodes \o ParseEntry(Head(todo))
    BY <1>5 DEF TakeEntry
  <2>2. /\ list # Absent /\ Len(todo) <= Len(list)
        /\ \A i \in 1 .. Len(todo) : todo[i] = list[k + i]
    BY <2>1 DEF Placed
  <2>3. /\ todo \in Seq(Entries) /\ Len(todo) \in Nat \ {0} /\ Head(todo) = todo[1]
        /\ Len(Tail(todo)) = Len(todo) - 1
        /\ \A i \in 1 .. Len(Tail(todo)) : Tail(todo)[i] = todo[i + 1]
    <3>1. todo \in Seq(Entries) /\ todo # <<>>
      BY <2>1 DEF TypeOK
    <3> QED
      BY <3>1, EmptySeq, LenProperties, HeadTailProperties
  <2>4. Head(todo) \in Text /\ nodes \in Seq(Node)
    BY <2>1, <2>3, HeadTailProperties, ResolutionAssumption DEF TypeOK
  <2>5. k \in Nat /\ Len(list') - Len(todo') = k + 1 /\ list[k + 1] = Head(todo)
    BY <1>1, <2>1, <2>2, <2>3
  <2>6. PICK place : Places(place, list, k, nodes) /\ place[k] = Len(nodes)
    BY <2>1, <2>2, KeepsByPlaces DEF Placed, Keeping
  <2> HIDE DEF k
  <2>7. PICK q : Places(q, list', k + 1, nodes') /\ q[k + 1] = Len(nodes')
    <3> DEFINE more == nodes \o ParseEntry(Head(todo))
    <3>1. \E q : Places(q, list, k + 1, more) /\ q[k + 1] = Len(more)
      BY <2>4, <2>5, <2>6, PlaceOneMore, ZenonT(60)
    <3> HIDE DEF more
    <3>2. list' = list /\ nodes' = more
      BY <2>1 DEF more
    <3> QED
      BY <3>1, <3>2
  <2>8. KeepsGoodEntries'
    <3>1. Keeping(q)'
      BY <2>5, <2>7 DEF Keeping
    <3> QED
      BY <3>1, PlacesKeep
  <2>9. \A i \in 1 .. Len(todo') : todo'[i] = list'[(Len(list') - Len(todo')) + i]
    <3> SUFFICES ASSUME NEW i \in 1 .. Len(todo')
                 PROVE  todo'[i] = list'[(k + 1) + i]
      BY <2>5
    <3>1. i + 1 \in 1 .. Len(todo) /\ todo'[i] = todo[i + 1] /\ k + (i + 1) = (k + 1) + i
      BY <2>1, <2>3, <2>5
    <3> QED
      BY <2>1, <2>2, <3>1
  <2>10. Len(todo') <= Len(list')
    BY <1>1, <2>1, <2>2, <2>3
  <2> QED
    BY <2>1, <2>2, <2>8, <2>9, <2>10 DEF Placed
<1>6. CASE EndOfList
  <2> DEFINE k == Len(list) - Len(todo)
  <2>1. /\ pc = "entries" /\ pc' = "done" /\ list' = list /\ todo' = todo
        /\ nodes' = IF nodes = <<>> THEN <<Fallback>> ELSE nodes
    BY <1>6 DEF EndOfList, Return, locals
  <2>2. k \in Nat
    <3>1. list # Absent /\ Len(todo) <= Len(list) /\ todo \in Seq(Entries)
      BY <2>1 DEF Placed, TypeOK
    <3>2. Len(todo) \in Nat
      BY <3>1, LenProperties
    <3> QED
      BY <1>1, <3>1, <3>2
  <2>3. PICK place : Places(place, list, k, nodes) /\ place[k] = Len(nodes)
    BY <2>1, KeepsByPlaces DEF Placed, Keeping
  <2> HIDE DEF k
  <2>4. CASE nodes = <<>>
    <3>1. Places(place, list, k, <<Fallback>>) /\ place[k] = 0
      BY <2>2, <2>3, <2>4, PlaceNone
    <3>2. Keeping(place)'
      BY <2>1, <2>4, <3>1 DEF Keeping, k
    <3>3. KeepsGoodEntries'
      BY <3>2, PlacesKeep
    <3> QED
      BY <2>1, <3>3 DEF Placed
  <2>5. CASE nodes # <<>>
    <3>1. Keeping(place)'
      BY <2>1, <2>3, <2>5 DEF Keeping, k
    <3>2. KeepsGoodEntries'
      BY <3>1, PlacesKeep
    <3> QED
      BY <2>1, <3>2 DEF Placed
  <2> QED
    BY <2>4, <2>5
<1>7. CASE UNCHANGED vars
  BY <1>7 DEF vars, locals, Placed, KeepsGoodEntries
<1> QED
  BY <1>2, <1>3, <1>4, <1>5, <1>6, <1>7 DEF Next

\* Each entry that spells a node gives that node, in the place of the entry, in
\* lists of any length and among any other entries: none is lost to a bad one,
\* and no bracket or colon of an address is taken for a port.
THEOREM GoodEntriesKept == Spec => []KeepsGoodEntries
<1>1. Placed => KeepsGoodEntries
  BY DEF Placed
<1>2. Resolved => TypeOK
  BY DEF Resolved
<1> QED
  BY <1>1, <1>2, InitResolved, StepResolved, InitPlaced, StepPlaced, PTL DEF Spec
=============================================================================
