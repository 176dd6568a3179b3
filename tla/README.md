# em_filter: a verification development

em_filter is a Rust library for agents of a search mesh. An author implements one
trait, `Filter`; the library gives the agent a persistent ed25519 identity and
serves queries to it over two transports, alone or together:

- **Model B, `relay`**: the agent opens a WebSocket to a relay (em_disco) and
  answers the queries that come in over it (`src/src/wsclient.rs`);
- **Model A, `direct`**: the agent serves HTTP and advertises itself to seeds
  (`src/src/server.rs`).

`FilterRunner::run` (`src/src/runner.rs`) reads the mode and starts one or both.
This directory holds TLA+ modules of all of it, TLC configurations that check them,
and proofs checked by TLAPS. File names without a directory are those of `src/src`.

## 1. Inventory

| Component | State | Operations | Talks to |
|---|---|---|---|
| Relay client (`wsclient.rs`) | connection, frame in work, reconnect delay | `run`, `session`: connect, hello, read loop, answer, reconnect | relay; filter mutex; identity |
| HTTP server (`server.rs`, `AgentServer`) | listener with its queue, the request in work | `bind`, `start`, `run`: `/health`, `/pop/gossip`, `/agent/query`, 404 | nodes; filter mutex; identity |
| Gossip pusher (`server.rs`, `GossipPusher`) | seeds, stop flag, thread | `start`, `push_once`, `http_post_json`, `stop` | seeds; identity |
| Runner (`runner.rs`) | mode, thread handles | `run` | starts all of the above |
| Shared filter (`runner.rs`, `Arc<Mutex<F>>`) | the filter, a fair tokio mutex | `lock().await` from a task, `block_on(lock())` from the server thread | both transports |
| Key file and identity (`crypto.rs`, `identity.rs`) | a file of 64 bytes | `load_or_create`, `Identity::new`, payloads | file system |
| Signing (`crypto.rs`, `identity.rs`) | none; the clock | canonical forms, `sign_results_v2`, `gossip_headers`, `verify` | ed25519-dalek |
| Node resolution (`config.rs`) | none; environment, `emergence.conf` | `resolve_nodes`, `parse_conf`, `parse_nodes` | runner |
| HTML helpers (`html.rs`) | none | `strip_scripts`, `extract_elements`, entity decoding ... | authors of filters |

**Interactions.** The relay client is a task of the caller's runtime; the server and
the pusher are OS threads, the server with a runtime of its own. The two transports
meet in the mutex around the filter and nowhere else. The runner owns the threads'
handles and is the only one that can join or stop them. Several processes may meet in
one key directory.

**What is hard.** The mutex is taken by a task and by a blocked thread; a handler may
panic while the other transport waits for it; the relay client has to answer the right
query, signed over the right string, whatever frames come in between, and to come back
after every kind of loss; none of its reads has a time limit; one server thread serves
all nodes, slow ones too; the pusher looks at its stop flag only between rounds; the key
file is checked and then written in separate steps, without a sync; a signed form joins
texts of any bytes with single separators, and its time is read once and sent on from
elsewhere. `PROJECT.json` lists each such hazard at its line with the properties that cover
it.

## 2. Modules

| Module | Models | Extends / instantiates |
|---|---|---|
| `Signing` | what a signature is made over | |
| `QueryService` | abstract: what a transport promises to the one who asks | |
| `RelayClient` | `wsclient.rs` with relay and network | `Signing`, `QueryService` |
| `Exchange` | abstract: what a server promises on each connection | |
| `AgentServer` | `AgentServer` with tiny_http and the nodes | `Signing`, `Exchange` |
| `FilterAgent` | mode `both`: the two over one mutex | `RelayClient`, `AgentServer` |
| `GossipPusher` | `GossipPusher`, `http_post_json`, the seeds | |
| `FilterRunner` | `FilterRunner::run` | `GossipPusher` |
| `KeyFile` | `load_or_create`, `Identity::new` | |
| `NodeResolution` | `config.rs`, and the relay's URL | |
| `Canonical` | the signed forms of `crypto.rs`, and how `identity.rs` makes them | |
| `HtmlEntities` | `decode_html_entities` | |
| `RelayClientProofs`, `AgentServerProofs`, `FilterRunnerProofs`, `KeyFileProofs`, `NodeResolutionProofs` | theorems | their modules |
| `TextProofs` | theorems | `Canonical`, `HtmlEntities`, `SequenceLemmas` |
| `SequenceLemmas` | lemmas about sequences, folds and least elements | community and library modules only |
| `FilterAgentProofs` | theorems of the composition | `FilterAgent`, `RelayClientProofs`, `AgentServerProofs` |
| `MC*` | constants for TLC | their modules |

Operators whose names contain `_` and whose comment begins with "Mutant" are not part of
the models: each is a definition changed the way a bug would change it. They show that
the property named with it in `PROJECT.json` can fail.

### RelayClient

`pc` is the place of the task in `run()` and `session()`: `connect` (`connect_async`),
`hello` (`write.send`), `ack` (waiting for `hello_ok`), `read` (`read.next().await`),
`lock` (`filter.lock().await`), `handle`, `send`, `sleep` (the delay), and `dead` after a
panic. `cur` is the frame in work and `ret` the result or error of the handler. The
connection is two bounded queues of frames and `link`: `open`, `cut` (an end that the
client will see, after what is still in `inbox`) or `mute` (the peer has vanished and
nothing tells the client). A frame keeps what the code tells frames apart by: its kind,
its action, id and body, each of which may be missing.

Every `continue` and every `?` of the source is a disjunct or an action of its own:
`SkipFrame` stands for binary frames, text that is no JSON, other actions, and queries
without an id; a missing body counts as the empty string. The handler gets the trimmed
body; the signature is made over the body as it was sent. A panic unwinds through
`run()`, drops the guard (a tokio mutex is not poisoned), and leaves nobody to reconnect.

Not in the repository, and so modelled from what `session()` does with it: the relay and
the network. The relay may ask, chatter, refuse the handshake and close; connections may
break, losing any suffix of what is on its way in.
History variables: `asked` and `answers`, and the number `n` on a frame. The code has no
counterpart of them and no guard of the client reads them.

### QueryService

Over one connection the n-th answer belongs to the n-th query: it carries its id and is
signed over the query as it was asked. A connection may be lost and takes all that was
asked over it with it. `RelayClient` implements it (`Implements`), with `Queries` and
`AnswersTo` for its constants.

### AgentServer

tiny_http's own threads accept and parse; `queue` holds the connections whose request
waits for the one server thread, whose place is `spc`. `conn`, `ask`, `body` and `got` are
a node's view: idle, waiting or gone, its last request, how much of the body it has sent,
and its reply. `read_to_string` waits for the rest of a body; its errors are ignored, so a
broken body is a bad query on `/agent/query` and no matter at all on `/pop/gossip`.
`Respond` ignores errors: a node that has hung up gets nothing. A panic of the handler
ends the thread and drops the server, which closes the listener; tiny_http answers 500 for the
request in work. Connections already accepted are still parsed and queued, so `Request` stays
possible, and what they ask is never served.

### Exchange

On each connection a request gets one reply, one that is for it, before the next is made, or
its node gives up. `AgentServer` implements it (`Implements`), with `RepliesTo` for what a
request may get and `conn`, `ask` and `got` for the variables: that all connections share one
thread, one queue and one mutex does not show.

### FilterAgent

Both of the above on one `mutex`, a queue in order of arrival whose head is the owner:
tokio's mutex is fair, and `block_on(lock())` queues up like a task. Each step is one of
`RelayClient` or one of `AgentServer`. The properties are about the mutex; that each transport
keeps what it promises alone is not run again but proved (`PromisesKept`, `ServicesKept`).

### GossipPusher and FilterRunner

`GossipPusher` has one action for each step that can fail or wait: connect, write, drain,
sleep. The drain loop reads until the seed closes, fails, or is silent for five seconds:
`talking` says that it does none of these. `FilterRunner` has the steps of `run()` in
order, each with what it can fail with, and the pusher of `GossipPusher` as the thread it
starts; the server and the relay client are reduced to whether they run or have been
ended by a panic. `Drop` is the caller dropping the future.

### KeyFile

One action for each file system step of each process: `exists()`, the read, `fs::write`
as truncate-or-create followed by the write, and a crash between any two. `flushed` is
what the disk has; `PowerFails` takes the file back to it or cuts it short. A key pair is
a number. `raced` and `lost` are history: they say whether the two things happened that
the code does not guard against, and the properties say what holds until then.

### NodeResolution

`resolve_nodes` in order: the list in the code, the environment, `emergence.conf`, and
localhost:8080. The file is read line by line, one action per line of any kind (section,
`nodes` entry, other entry, comment or blank). A text is a sequence of pieces, where
colons and brackets are pieces of their own, because the parser cuts at the last colon
and trims brackets. The entries of the list are then parsed one by one (`TakeEntry`), and a list
that leaves no node falls back to localhost (`EndOfList`). `Url` is what `run()` makes of the
first node. `Known` are the hosts whose nodes `KeepsGoodEntries` looks for; the parser does not
know them.

### Canonical

`SignResults` reads the clock and the results (`sign_results_v2`), `AddLine` is one turn of
the loop of `canonical_response`, and `SendResults` puts the time and the signature next to
the results, as both transports do; `Clock` moves the time, forwards or back, between any two
steps. Texts are sequences of bytes of which 0x00 and 0x0A are two; an item is `Absent` when
it is no object, and a result that is no list is `NoArray`. A signature is the form it was
made over. `Decimal` and `Digest` are constants with what the proofs need of them: decimals
hold no zero byte and differ, digests have one length and do not collide (`FormAssumption`).
There are no history variables: what goes out carries the query, the time, the results and
the signature, and the properties compute from these what a verifier would (`Showing`, `Lines`).

### HtmlEntities

A text is a sequence of tokens. Three patterns say what they match at a place; `ReplaceEach`
is `replace_all` and `replace`, left to right without looking at what was put in; `Decode`
is the three passes, the last of them one pass for each row of the table. The reference,
`DecodeOnce`, replaces entities of all kinds in one pass. `DecodedOnce` says of every text, without
a premise, when the two differ: exactly where one pass makes an entity for a later one (`Twice`).
The code does decode such texts twice: `&amp;lt;` becomes `<`, because `&amp;` precedes `&lt;` in
the table, and a number for `&`, `#`, `;` or for no character can complete an entity with its
neighbours. `&amp;#60;` is not one of them and stays the text `&#60;`, because numbers come first.
`Twice` looks at each ampersand and each pass k: with what stands there (`Wanted`) not an entity
of the pass, do the patterns of the passes before it (`EarlierAt`), applied at once to the text
from there on, make one? A change of the order of the passes or of the rows changes which texts
are decoded twice, and breaks the property.

`text` is the argument and `Tokens` what it is made of: digits and names are each one token, as
are the characters around them. `EntityAssumption` says that the tokens for digits are not those
for `&`, `#`, `;` or for what a name stands for, and that a number stands for no character, or
for one that is not itself a digit, a name or an `x`: such a one would make a longer number or
name of its neighbours, which this model leaves out.

## 3. Runs

| Run | Instance | Distinct states | Shows |
|---|---|---|---|
| `relay` | 2 ids, 2 bodies (white space; empty), 2 frames without effect, buffers of 2, 2 queries a session, 2 faults, panic, vanishing peer | 150,940 | all properties of the relay client |
| `relay_vanished_peer` | 1 id, 1 fault | | finding: `AlwaysReconnects` fails |
| `server` | 2 kept connections, 2 queries, all paths, slow and broken bodies, panic, requests after it | 8,013 | all properties of the server |
| `both` | 1 connection, 2 queries a session, 1 fault, panics in either | 93,299 | properties of the shared mutex |
| `key_file` | 3 processes, 5 starts, power losses | 40,878 | all properties of the key file |
| `key_file_race` | 2 processes, 2 starts | | finding: `PersistedOnFirstRun` fails |
| `runner` | all modes, 3 seeds, bad interval, panics, drop | 608 | all properties of runner and pusher |
| `gossip_talking_seed` | 2 seeds | | finding: `Periodic` fails |
| `runner_dead_server` | mode `both`, 2 seeds | | finding: `AdvertisesWhileUp` fails |
| `node_resolution` | 4 hosts, 6 entries, lists of 2, files of 3 lines | 224,056 | all properties of node resolution |
| `node_url` | the same, files of 2 lines | | finding: `UrlNamesNode` fails |
| `texts` | 2 queries, 2 times, 32 results of at most 2 items, 2 signatures; 5,150 texts of at most 3 of 17 fragments, 147 of them decoded twice | 547,512 | all properties of the signed forms and of entity decoding |

**Why the bounds are enough.** Two queries in a session are needed for an answer to go to
the wrong one, and two bodies that differ only by white space for a signature over the
wrong string; the buffers of two let a second query arrive while the first is in work and
a second answer wait behind the first. Faults reset a session to what it starts from, so
one fault reaches every way a session can end and a second what a session does after it;
the session itself is not bounded, nor the number of sessions that end without a fault.
For the server, two connections let one node's request wait behind another's; kept
connections repeat without a bound. Three processes and five starts let a process come
back twice between the steps of two others. Three seeds have a first, a middle and a last
turn. Three lines hold a section, a `nodes` entry and any line before, between or after.
Two signatures are what it takes for one to be mistaken for another; the strings hold both
separators and a digit, so that a query, a title and a time can pass for their neighbour's
beginning, and with two items a line break in a title can pass for a line's end. Three
fragments hold an ampersand, what follows it, and an end, and each of the three can be what
another pass has made.

`CHECK_DEADLOCK FALSE` stands where the system does stop: after a panic, a `run()` that
returned, the bounded starts of the key file, a resolution that is done.

**Properties.** Each module states them at its end, with a comment. In short:

- `RelayClient`: `InOrder` (right query, right id, signed over the right string),
  `LockScope`, `SessionEndsForCause` (no frame and no handler error costs a session),
  `Implements`, `Answered`, `Reconnects`;
- `AgentServer`: `RepliesMatch`, `EachOnce`, `LockScope`, `Implements`, `Served`;
- `FilterAgent`: `OneAtATime`, `Owners`, `NoStarvation`;
- `FilterRunner` and `GossipPusher`: `ReturnsClean`, `EveryTurn`, `DirectReturns`,
  `StopIsFinal`, `Advertises`;
- `KeyFile`: `OneIdentity`, `Persisted`, `Untouched`;
- `NodeResolution`: `AlwaysANode`, `TlsOnlyRemote` (port 443, unless the host is written
  `localhost`, `127.0.0.1` or `::1`; `EM_DISCO_HOST=[::1]` keeps its brackets and counts as remote),
  `LastWins`, `KeepsGoodEntries`;
- `Canonical`: `Verifies` (who knows the query computes the form that was signed), `Binds`
  and `GossipBinds` (a signature stands for nothing else);
- `HtmlEntities`: `DecodedOnce` (exactly the texts in which one pass makes an entity for a later
  one are decoded twice).

`Binds` is about texts without zero bytes, and URLs without line breaks; the query may hold
any bytes. Without this premise it fails, and the run has texts that show why: a
title that goes on with a line break and zero bytes reads like the end of its line. JSON can
carry such texts; no doc says that results with them are told apart.

**Fairness, and what justifies it.**

- `RelayClient`: the runtime polls a task that can move and fires its timer
  (`WF(Client)`); the handler returns or panics; a connect is refused at most MaxFaults
  times, since refusals are faults. Of the relay it is assumed that it greets a client and
  reads what it is sent; nothing is assumed of what it asks. The kernel gives up on data
  that a vanished peer does not acknowledge (`WF(SendTimesOut)`); it does not if there is
  nothing to resend, and that is what `relay_vanished_peer` shows.
- `AgentServer`: the thread is scheduled and the handler returns or panics. The code sets
  no limit on reading a body, so `Served` needs the assumption that a node sends the rest
  or hangs up: without it one slow node holds all others, and `/health` with them.
- `FilterAgent`: each of the two runs (weak fairness each); the order of the mutex is in
  the model and not assumed.
- `GossipPusher`, `FilterRunner`: threads are scheduled, and the system gives up on a
  connect. `FilterRunner` further assumes that no seed talks for ever; the run
  `gossip_talking_seed` leaves that assumption out.

## 4. What the checks found

Five disagreements of the code with what its documentation says of it; each is a run of its
own with `expect: violation`:

1. **A vanished peer is never noticed.** `wsclient.rs:83` reads without a limit and sends
   nothing on its own (no ping), so a connection whose peer vanished without closing lasts
   for ever, against the README's automatic reconnection.
2. **A race of two first runs.** Both processes find no file (`crypto.rs:200`), both
   generate a key, and the one that writes first runs on under a key that is on no disk.
3. **A seed that talks holds the pusher.** The drain loop (`server.rs:247`) ends on
   silence and not after a time, so no other seed is pushed to and `stop()` blocks.
4. **A dead server is advertised.** In mode `both` nobody joins the server thread while
   the relay client runs; after a handler's panic the pusher goes on (`runner.rs:158`).
5. **IPv6 nodes get a URL that is none.** `parse_nodes` strips the brackets and `run()`
   does not put them back (`runner.rs:151`).

Seen while modelling, without a run of their own:

- an error of the handler becomes `[]` (`wsclient.rs:119`), where `filter.rs:56` says that
  the connection sends `null`;
- `&amp;lt;` is decoded twice and becomes `<` (`html.rs:170`). No doc says what it should become,
  so this is not a finding; `DecodedOnce` says which texts it happens to;
- `reconnect_delay()` is documented as sampled once per session and is sampled once a run
  (`runner.rs:156`);
- a bare `::1` in a list of nodes is cut at its last colon and becomes the host `:` on
  port 1, and `[::1]` without a port is dropped (`config.rs:197`), though
  `default_port_tls` knows the host `::1`;
- `filter.rs:44` calls the handler's argument the raw query, and the relay client trims it;
- "run forever" (`runner.rs:77`): in mode `direct`, `run()` returns `Ok` after a panic of
  the handler;
- a negative gossip interval panics in `from_secs_f64` after the server has been started;
- the key file is not synced, so a loss of power can take back an identity that is already
  in use.

## 5. Proofs

TLAPS checks these for every value of the constants that the named assumptions allow
(`RelayAssumption`, `ServerAssumption`, `AgentAssumption`, `KeyFileAssumption`,
`RunnerAssumption`, `ResolutionAssumption`, `CanonicalAssumption`, `FormAssumption`,
`EntityAssumption`), so for any number of ids, bodies, queries, sessions, faults, processes,
connections, seeds, lines, items and tokens, and any size of buffer. All safety properties of
the passing runs are proved, but for one direction of `DecodedOnce`.

**`SequenceLemmas`** has what several of them need of sequences. The library's induction
theorems take an operator, which no installed prover can instantiate. Where a proof is about a
list of any length, it argues from the least counterexample instead: `Least` says that a set of
naturals has one, from the minimum that the library has for well-founded sets, and
`GreatestPosition` and `LeastPosition` say it of positions. `FlatteningExists` and
`FlatteningsAgree` are proved so: `FlattenSeq` is a recursion that TLA+ defines with CHOOSE,
so one has to show that a solution exists and that there is no second. From these follow the
lemmas that the proofs cite: what `FlattenSeq` gives, and what one more element adds
(`FlattenStep`, `FlattenAppend`).

**`RelayClientProofs`** proves `TypeCorrect`, `LockScoped`, `AnswersInOrder`,
`EndsForCause` and `ImplementsService`. `InOrder` is not inductive: that the next result
will belong to the right query depends on the frame in work and on the inbox. The
inductive invariant `Inv` has these parts:

- `Session`: what each place in the task says of link, queues and handshake;
- `Work`: the frame in work is the query number `Taken`, where `Taken` counts the
  answers received, those on their way and the one in work;
- `Queued`: the frames of the inbox carry on from `Taken` without a gap (`Chain`), and on
  an open connection the last of them is the newest query.

Reading keeps a chain (`ChainTail`), sending to it extends it (`ChainAppend`), a loss cuts
a suffix (`ChainPrefix`), and asking makes the sequence longer that it points into
(`ChainAsk`); one lemma per action puts these together. The refinement follows from
`Inv` and the shape of each step: all but three kinds of steps stutter in
`QueryService`, and the three are `Ask`, `Answer` and `Lose`.

**`AgentServerProofs`** proves `TypeCorrect`, `RepliesMatched`, `ServedOnce`, `LockScoped`
and `ImplementsExchange`. `RepliesMatch` needs to know of the request in work that it was
asked and is not answered yet, and that what reaches the handler is a query: `Core` is the
types, `JobAsked` (what each place in the thread says of its job), `Asked` (who waits has no
reply yet, and a body breaks only when its node hangs up), `EachOnce` and `RepliesMatch`.
`Core` leaves the mutex out, so that it serves the composition too.

**`FilterRunnerProofs`** proves `TypeCorrect`, `Clean`, `EverySeedsTurn` and `StopFinal`.
`Inv` adds to the types what runs at each place of `run()` (`Running`), and that the pusher's
turns are in order and `stop()` returns only after the thread has ended (`PusherOK`).

**`KeyFileProofs`** proves `TypeCorrect`, `NeverReplaced`, `SoleOneIdentity` and
`SolePersisted`. The invariant `SoleInv` says that without a race at most one process is
on its first run, that the file is then as its own writes have left it (`Sole`), and that,
unless a loss of power has taken back what was not flushed, every key pair ever used is
the one in the file (`UsedIsStored`).

**`FilterAgentProofs`** proves `Serialized`, `MutexOwners`, `PromisesKept` and
`ServicesKept`. For the first two, the mutex is a function of the two program counters, up to
the order of the two when both have a query in hand (`Turns`); each component's steps are
reduced to what they may do to `mutex` (`RelaySteps`, `DirectSteps`), so that the proof does
not depend on the rest of the state. For the other two, each transport is seen alone: with its
own place in the mutex (`OwnRelay`, `OwnDirect`) for the mutex, every step of the agent is a
step of that transport by itself or a stutter (`RelayAlone`, `DirectAlone`, `BothAlone`). The
theorems of `RelayClientProofs` and `AgentServerProofs`, instantiated so, then carry over
unchanged.

**`NodeResolutionProofs`** proves `TypeCorrect`, `NeverNoNode`, `TlsWhereItBelongs` and
`LastLineWins`. The first three hold together (`Resolved`): `EntryNodes` says that whatever an
entry is, the nodes it gives are nodes and speak TLS where they should. For the last, `Counted`
says that `section` and `list` are functions of the lines read; `SectionAfter` and `OwnAfter`
say what one more line does to them.

`GoodEntriesKept` is the other one about lists of any length: each entry that spells a known
host and a good port gives its node, in the order of the list, whatever stands around it.
`SplitsAtPort` and `Trims` say that such an entry is cut at its last colon and loses its
brackets and nothing else, so that it gives the one node it spells (`SpelledGives`); no other
entry gives more than one (`EntryNodes`). `Places` says where the nodes of the first k entries
are; an entry more leaves these where they are and puts its own behind them (`PlaceOneMore`), so
the property holds at every step of the loop over the entries (`Placed`). When no entry gave a
node, none was spelled, and the fallback takes the place of none (`PlaceNone`).

**`TextProofs`** proves of the signed forms `TypeCorrect`, `SentVerifies`, `SignatureBinds` and
`GossipBound`. `Current` ties the response in work to its results: `todo` are the items without
a line, and `body` is the lines of what the others show. `LinesGrow` says what one more item
does to the lines, so `AddLine` keeps it, and `SendResults` sends a response whose items all
have their lines, with the time of its form: `Verifies`. For `Binds` it is left to show
that a form is the form of one query, one time and one list (`FormsUnique`), by the least
counterexample. A form with lines ends in 0x0A and one without in 0x00. Read from its end, a
clean line comes apart at its separators (`LineSplit`, from `SplitAfter`), so the last lines of
two equal forms are equal, and what precedes them is two equal forms of shorter lists. The
query and the time of a form without lines come apart because decimals have no zero byte
(`HeadSplit`), and so the query may have any.

And it proves of the decoder `TextsDecodedOnce`, for any text over `Tokens`: seventeen passes
(two over numbers, one for each of fifteen names) give what one gives. A `Rule` is what stands
behind the `&` of an entity with what it is replaced by; each pass, and the reference, is
`Replace` with a set of rules (`PassesAlike`). `ReplaceEach` is a recursion with CHOOSE, so
`Computable` and `RestAlone` show that it has a solution and that this depends on the rest of
the text alone; from there a text is read from its first token (`ReplaceToken`) or entity
(`ReplaceEntity`). The heart is `TwoPasses`: a pass with the rules A and then one with the rules B
are one pass with both, if the text is `Quiet`, that is, if from no place on A makes of it an
entity of B that was not there. Its least counterexample would have to begin with an entity of A,
one of B, or another token, and in each case a shorter one remains. A text that is not `Twice` is
quiet for each pass and all those before it (`NotTwiceQuiet`), so rule by rule the passes become
one (`SoFar`, `FirstPasses`, `NextPass`, `AllPasses`). That each text that is `Twice` does come
out otherwise is the other direction of `DecodedOnce`, and model-checked only.

Model-checked only: that what is `Twice` is decoded twice (half of `DecodedOnce`), and all liveness (`Answered`, `Reconnects`, `Served`, `NoStarvation`,
`DirectReturns`, `Advertises`), which needs fairness and ENABLED and is out of the
prover's reach.
`GossipPusher` is proved as a part of `FilterRunner`.

## 6. Not modelled

- Ed25519, SHA-256, base64, JSON, TLS, HTTP and WebSocket framing: libraries. A signature
  is the content it was made over.
- `canonical_identity`, the older response form without query and time (`sign_results`), and
  `verify`: the first has one fixed value for each agent, the second is called by no
  transport, and no part of the agent verifies anything. How old a time a verifier accepts is
  the verifier's and not in the repository.
- The other HTML helpers (`strip_scripts`, `get_text`, `extract_elements`,
  `extract_attribute`, `should_skip_link`): single calls of regex, scraper or the string
  library on one text, with no state and no order of steps of their own.
- Entities that decode to letters or digits, which would make one token of two.
- `resolve_jwt`: dead code, as its own comment says.
- Logging, and the environment variables of the runner beyond what they decide.

## 7. Plan

Done: the shared filter and both transports first, because everything an agent promises
passes through them; then the key file, the runner with the pusher, and node resolution; the
signed forms and entity decoding; two abstract services and the refinements to them; and the
proofs of section 5, the composition last, from the proofs of its parts.

What could follow, in this order:

1. The two transports with the forms of `Canonical` in the place of `Signing`. Today they
   meet in the claim that a form stands for one query and one list (`Binds`), which `Signing`
   takes for granted; composing them would have TLC enumerate bytes in every frame.
2. In `KeyFile`, a file system whose `stat()` can fail alone (`crypto.rs:200`), once a doc
   says what should happen then.
