# Verification of the BlockIRC server

TLA+ models of the IRC server under `src/internal`, TLC configurations that
check them on small instances, and TLAPS proofs of what matters most for every
size. `PROJECT.json` maps every definition to the source lines it models and
lists runs, mutants, hazards, findings and theorems.

    tlc -config MCSessions.cfg MCSessions      # any run of PROJECT.json
    tlapm SessionsProofs.tla                   # and the other *Proofs.tla

## 1. The system

The server is one process. `Server.Run` (server.go) is its main loop: a select
over signals, new connections and idle clients. Every client has a reader
goroutine (`readloop`), which parses a line and runs the command's handler to
its end, a writer goroutine (`writeloop`), which takes messages from the
unbuffered channel `replies`, and two timers whose functions run on goroutines
of their own. All of them work on shared maps, each with its own lock, and no
lock spans a handler.

| Component | State | Operations | Used by |
|---|---|---|---|
| Sessions (client.go, server.go, nickname.go, capability.go, modes.go) | per client: nickname, user info, authorized, cap state, registered, user modes, `hasQuit`; `server.connections` | accept, PASS, NICK, USER, CAP, OPER, MODE, AWAY, ONICK, KILL, QUIT, timeout, destroy | everything |
| Nickname registry (`ClientLookupSet`) | lower-case nickname → client | Get, Add, Remove, Find, FindAll | sessions, channels, messages |
| Channels (channel.go) | name registry; per channel members and their modes, flags, key, limit, three mask lists, topic; per client the list of its channels | JOIN, JOIN 0, PART, KICK, INVITE, TOPIC, MODE, destroy | sessions (destroy), messages |
| Mask lists (`UserMaskSet`) | masks and the compiled expression | Add, AddAll, Remove, Match | channels |
| WHOWAS list (whowas.go) | ring buffer, start, end, RWMutex | Append, Find, Each | NICK, QUIT, WHOWAS |
| Goroutines, socket, timers (client.go, socket.go) | `hasQuit`, `replies`, the socket's RWMutex and `closed`, two timers | Read, Write, Close, Reply, Quit, Touch, Idle | all handlers |
| Main loop (server.go) | channels for signals, connections, idle clients; listeners | Run, acceptor, Shutdown, Stop, Wallops, Global | sessions |
| SASL (sasl.go, server.go) | buffer, account | AUTHENTICATE | sessions |
| Messages and visibility (server.go, channel.go, privacy.go) | none of its own; what clients believe follows from the lines they get | announcements of JOIN, PART, KICK, QUIT, NICK; PRIVMSG, NOTICE, WHO, WHOIS, LIST, NAMES | sessions, channels |
| Parsing (command.go, strings.go) | none | ParseLine, one constructor per command, NewName | readers |
| Replies (reply.go, constant.go) | none | MultilineReply, mode strings, numerics | handlers |
| Configuration (config.go, server.go) | the file, the shared `Config`, the server's copies | LoadConfig, Reload, Rehash | operators |
| Passwords (password.go), metrics and web page (metrics.go, ww.go), helpers | – | – | – |

What is hard here, and what has to be right:

* **Destroying a client from outside.** KILL and the quit timer run
  `Client.Quit` on a client whose reader may be anywhere. `Socket.Close` waits
  for the lock `Socket.Read` holds while it waits for a line; the line that ends
  the wait is still processed by the destroyed client. The registry, the
  counter, the channels and the waits have to survive that.
* **Test and use of `hasQuit`.** Reply and Quit test it and act later; closing
  `replies` twice or sending on it after the close ends the process.
* **The registry under renames.** NICK, ONICK, USER and destroy remove and add
  entries under names that may differ in case only, or belong to someone else.
* **Registration in any order.** PASS, OPER, NICK, USER, CAP LS and CAP END arrive
  in any order and repeatedly; OPER counts as a PASS before registration.
* **Membership kept twice.** `channel.members` and `client.channels` are updated
  at different times, and the client keeps channels it has left, some of them no
  longer registered and replaced by a newer channel of the same name.
* **Privileges within one MODE line.** Changes are applied one by one, each with
  its own test.
* **Recursive read locks.** `Each` takes the list's read lock on a goroutine,
  takes it again in `prev`, and its caller holds it as well.
* **Silent peers.** Idle timer, main loop and quit timer hand a client on.
* **Handlers that interleave.** Every map access locks for itself: NICK against
  NICK and USER on the registry, JOIN against JOIN, KICK and destroy on the
  channels of a name, REHASH against REHASH on the settings.
* **Broadcasts.** Global and Wallops send under the registry's read lock, without
  a look at `hasQuit`, to clients that are being destroyed; the main loop does it
  too when it shuts down. A client that two goroutines rename at once may be left
  in the registry under two names.
* **Announcements that come late.** Quit tells the others after destroy, which may
  wait for a silent peer, while the nickname is free for anybody.
* **A protocol read line by line.** SASL keeps a buffer between lines, CAP and MODE
  apply lists, JOIN and KICK pair two lists by position, names have several
  spellings, and other clients rebuild state from what they are told.

PROJECT.json "hazards" has each at its line with the properties aimed at it.

## 2. Modules

| Module | Models | Granularity |
|---|---|---|
| `Sessions` | connections from accept to destroy, and the nickname registry | one handler is one step |
| `Channels` (extends `Sessions`) | channels, their registry, membership, modes, masks, topic | one handler is one step |
| `UserMask` | what the compiled expression of a mask list matches | one operation is one step |
| `WhoWasHistory` | what WHOWAS promises: the newest entries up to a number | abstract |
| `WhoWas` | the ring buffer, `Each` and `Find` as functions of it | one operation is one step |
| `WhoWasLock` (extends `WhoWas`) | `Find`, the goroutine of `Each`, `Append` and the RWMutex | one lock or channel operation |
| `Teardown` | the goroutines around one client | one access to shared state |
| `Clients` | the constants of the modules that follow | |
| `Lookup` | the nickname registry between the locks of `ClientLookupSet` | one access to the registry or to a nickname |
| `JoinRace` | the channels of one name, membership and destroy | one access to a shared set |
| `MainLoop` | `Server.Run`, Idle, Shutdown, Stop, Global, Wallops among several clients | one lock or channel operation |
| `Rehash` | `LoadConfig`, `Reload` and `Rehash` | one read or write of a setting |
| `Negotiation` | AUTHENTICATE and CAP | one handler is one step |
| `Parsing` | lines to commands, names, echo of MODE | a line is typed token by token, and parsed at each |
| `ReplyLines` | `MultilineReply` | one turn of its loop |
| `Views` (extends `Channels`) | what clients are told of their channels | one handler is one step |
| `SessionsProofs`, `MainLoopProofs`, `TeardownProofs` | theorems about the module of that name | |
| `ChannelsProofs` | theorems about Channels and Views | |
| `WhoWasProofs` | theorems about WhoWas and WhoWasLock | |
| `ProtocolProofs` | theorems about ReplyLines, Negotiation and Parsing | |
| `SharedProofs` | theorems about Lookup, JoinRace, Rehash and UserMask | |
| `Iteration` | induction on a set of numbers, and the values a loop goes through | |
| `MC*` | constants for TLC | |

`MCProtocol` and `MCShared` put several modules with no state in common into one
run: `part` chooses one at the start, the others rest in an initial state.

**Sessions.** `conn` says where a connection and its reader stand: `none`,
`pending` (counted by the acceptor, not yet a client), `open`, and after destroy
`lame` (reader still in `Socket.Read`), `late` (the line has come and is about
to be processed) and `gone`. `blockedOn` names the client in whose
`Socket.Close` a reader is stuck. Every other variable is a field of `Client` or
`Server`. A handler runs as one step, the granularity at which the comment in
client.go:140-144 describes the server; the one place where a handler stops half
way even then, the wait in `Socket.Close`, is kept. A MODE command of several
letters is its net effect, since it makes one test at the top. A handler that
refuses or only answers is `NoEffect`, and one that ends in `Quit` on its own
client, for whatever reason, is `Leave`. Whether a password is right is a free
choice of the model (`CheckPassword`). OPER before registration is handled as a
PASS and compared with the operator's password, with none when there is no
operator of that name; both set `authorized` unless the comparison failed.

**Channels.** Channels are objects with identity, because `client.channels`
points to objects and not to names: `chan` holds them, `channels` is the name
registry and `joined` is `client.channels`. An object nothing points to any more
is used again for the next channel. A mask is the set of user hosts it matches;
that a list of two or more masks matches everybody is what `UserMask` shows of
the code (`MatchByCount`). Targets of JOIN, PART and KICK are taken one at a
time. `SessionEnd` composes `Client.Quit` with `Channel.Quit` on every channel of
the client; every other step is one of Sessions with the channels unchanged, or
a channel command that leaves the session alone but for the reader's progress.

**WhoWas and WhoWasLock.** `Each` and `Find` are first given as functions of the
ring; `WhoWasLock` then runs them as goroutines. The walker is started with no
lock of its own; a `Lock` that has announced itself makes later `RLock`s wait, as
sync.RWMutex documents. Go lets waiting readers in before the next writer; the
model leaves that order open.

**Teardown.** `pc` holds a program point for the reader, the writer, the quit
timer's goroutine, the main loop, a client that kills this one and one that sends
to it. A line is QUIT, or a command that is answered or not; commands of a
registered client touch the timers, lines before registration and lines that do
not parse do not. A panic ends the process (`crashed`).

**Lookup.** Sessions takes a handler as one step; here `step` says where each
reader stands between Get, Remove, the assignment of the nickname and Add, each
of which tests under one hold of the lock and writes under another. `crossed`
remembers whom another's ONICK has renamed.

**JoinRace.** The same for one channel name. `registered` is the entry in
`server.channels`, `pos` the place of each reader in JOIN, PART, KICK or destroy,
`rest` the channels a destroy has still to leave. `ChannelNameMap.Add`, whose
package is not in the repository, may keep the old channel or take the new one.
`late` remembers who entered a channel after its `hasQuit` was set. What may keep
a client out, key, invite-only flag or ban, is one bit per channel (`closed`), set
and lifted by MODE between the steps of the others; `shut` remembers the channels
that were closed while they had no members.

**MainLoop.** `at` and `arg` are program point and client at hand of every reader
and of Run. The registry's RWMutex is what keeps Global and Remove apart: a `Lock`
that was called keeps new readers out and waits for the ones inside. The registry maps
lower-case nicknames (`nicks`); Remove and Add go by the nickname the client has at
that moment (`nick`), as the code does, so the steps of a NICK, of another's ONICK
and of destroy on one client may mix. An idle timer may fire at any time; sockets
are reduced to Close waiting for the reader. `back` remembers who was added to the
registry after its `hasQuit` was set, and `crossed` whom a NICK or ONICK began to
rename while another was at it.

**Rehash.** `Reload` is one step, as it holds the mutex; `Rehash` then reads and
writes setting by setting. `mergo.MergeWithOverwrite` is external and modelled by
what it does to strings and to the map of operators.

**Negotiation.** A message of AUTHENTICATE is one of a few kinds: what matters is
whether it is full, too long, decodes, and to what, alone or behind the text that
is in the buffer already (a `rest`). `permitted` is `client.authorized`, without
which AUTHENTICATE ends the client (`Leave` of Sessions). `proven` and `granted`
remember what the client has shown and what it was told.

**Parsing.** A text is a sequence of tokens, a character or a whole command word
each. NewName is a map over tokens, with one token that has another normal form.
Every constructor of the command table is there; what a field holds is modelled,
what a handler does with it is not.

**ReplyLines.** A name is its length, and so is the argument in front of the
names, the channel of NAMES or the nickname of WHOIS. As in the code, `baseLen`
measures the format as it stands, with its verbs; `replyLen` is what is sent.

**Views.** Extends the handlers of Channels and Sessions by the lines they send
to members or to `Friends`; `view` is what a client makes of them. Quit looks its
friends up, destroys, and tells them then: when destroy has to wait for the
client's reader, `friends` holds them until its Read returns (`ToldLate`). Nothing
is claimed any more (`haunted`) after a destroyed client's late JOIN or NICK, and
once somebody has taken the nickname of a client whose QUIT has not been sent.

## 3. Runs

Passing runs:

| Run | Shows | Instance |
|---|---|---|
| `sessions` | `NickOwner`, `RegistrySound`: registry and clients agree both ways. `RegistrationGate`: nobody is registered before it is authorized, has nickname and user info and has ended its negotiation. `ConnectionsCount`: one destroy per connection. `NoCircularWait`: waits in `Socket.Close` have depth one | 3 connections; 2 names, one in two spellings, and an invalid spelling; server password |
| `protocol` | `ModesByRight`: a command changes the modes of the client that sent it, and another's only if that client is an operator; operator status comes by one's own OPER. `LoginVerified`: no leftover of an exchange logs anybody in. `RetryLogsIn`: nor does it lock anybody out for longer than one try. `CapabilitiesAgreed`: a REQ is granted whole or not at all. `ArgsAreWords`: arguments are the words of the line. `EchoParsesBack`: what is told of a MODE, of a channel or a user, is what was done. `TargetsSeparate`: lists of JOIN and KICK are paired by position. `NamesCanonical`: every name in a command is in normal form. `NamesOnceInOrder`, `CutAsMeasured`: a long list arrives whole, cut neither later nor earlier than what is measured says | 2 connections with modes w and a; 1 account of 2 names, 2 passwords, buffer of 3; 41 openings continued by up to 6 tokens; 3906 lists of up to 5 names, behind a short and a long argument |
| `channels` | `RegisteredIffInhabited`: the registry holds exactly the channels with members. `MembersPointBack`: destroy finds every channel to clean up. `OneCreator`. `OplessFrozen`: without an operator nothing but the user limit changes | 2 registered clients, 1 name, 2 objects, 1 key, 2 masks, 4 MODE lines |
| `views` | `ViewsAgree`: each live member believes all the members to be on its channel, and nobody else but clients whose QUIT is still to come, although `client.channels` is out of date | 3 registered clients, 3 nicknames, 1 channel |
| `shared`, part lookup | `EntrySound`: an entry leads to a client of that name, whoever else is between test and write | 2 clients, 2 names, one in two spellings |
| part join | `EmptyForgotten`: no empty channel is left behind, unless a MODE closed it before anybody was in. `DestroyLeavesAll`: destroy against the client's own JOIN. `OneFounder`: at most one creator | 2 clients, 2 objects of one name |
| part mask | `MatchByCount`: a list matches nothing, its one mask, or (from two masks on) everybody | 6 masks with `*` and `?`, 14 user hosts |
| part whowas | `RingIsHistory`: the ring implements the history. `EachIsContents`, `FindIsNewestMatches`: loop and search are right. `FindAnswers`: so is what a concurrent search returns. `WalkerOnRing`: the ring stands still under a walker. `FindBlocksOnWriterOnly`: without a waiting writer a search goes on | ring of 4, 2 searches, 1 appender, limits 0 and 2 |
| part rehash | `SettledConfig`: a REHASH that none overlaps leaves the server on the configuration. `IdentityKept`: no file takes name, network or operators away | 2 operators, 5 files |
| `mainloop` | `BroadcastSafe`: a broadcast does not meet a closed channel, but for a client that was put back or that two renamed at once. `MainLoopReturns`: Run comes back to its select. `ShutdownStops`: a signal ends the server | 2 clients and 2 nicknames; one client renames itself, the other broadcasts, quits, kills it and gives it nicknames; 1 signal |
| `teardown` | `CloseExcludesIO`: no Read or Write runs on a closed socket. `QuitCloses`: a client that has quit is closed, unless its reader waits for the peer for ever. `SilentQuits`: a client whose peer is silent is made to quit | one client, all six goroutines |

Runs that show a disagreement between the code and what it says of itself (each
is a finding in PROJECT.json):

| Run | Text | What happens |
|---|---|---|
| `sessions_destroyed` | "clean up server" (client.go:255) | a killed client processes its next line; NICK puts it back into the registry, where it stays |
| `whowas_each` | "Iterate the buffer in reverse" (whowas.go:68) | an `Append` that waits for the lock stops the walker's `RLock`, and the search with it |
| `usermask_or` | "joined into a big or-expression" (client_lookup.go:198) | the index never moves; two masks match everybody |
| `teardown_panic` | "the server is single-threaded for commands" (client.go:141) | two goroutines pass the test of `hasQuit`; `replies` is closed twice |
| `teardown_timeout` | "how long after idle before a client is kicked" (client.go:15) | `Socket.Close` waits for the silent peer's `Read`, and the connection stays |

### Bounds

* *Sessions.* Every interaction involves at most an operator, a target and a
  third client that wants a name or waits in a KILL; a name in two spellings
  reaches the case-only rename. Theorems cover any number (section 4). The VIEW
  leaves out the user modes other than operator, which nothing in this run reads.
* *Channels.* With one name and two objects a leftover pointer to the old object
  meets the new one of the same name; two clients allow founder, joiner, kick and
  kill in any order. `MCInit` starts from two registered clients, a state
  Sessions reaches, since the way there is covered by `sessions`. The VIEW
  identifies states that differ only in the contents of an object that is neither
  registered nor inhabited, which no action reads; channel objects are symmetric.
  `MaxLimit` bounds the argument of MODE +l, `ModeLines` the lines a client may
  send: every kind of change, both signs, and a line that hands the operator's
  privilege over half way.
* *WhoWas.* A ring of four slots holds three entries and wraps on the next;
  searches meet an empty, a partial and a full ring in every rotation.
* *UserMask.* Only the number of alternatives and their anchors matter; texts of
  up to three letters tell them apart.
* *Protocol.* Sessions' part is the instance of `sessions` with two clients. Three
  messages in the SASL buffer are one more than the longest leftover that matters (a
  full one and what follows). It starts with or without authorization. The openings
  take every command word with up to four further tokens, and those with lists,
  signs and numbers with more: enough for two items in each list and for both signs
  in a line. Five names of lengths 0 to 4, measured against 5 characters, are cut in
  every way; the argument is shorter than the two verbs (2 against 4) or longer (9).
* *Views.* Who acts, who is acted upon and who is told are three clients. One
  channel object is enough, since a leftover pointer to an old object of the name
  is the `channels` run's matter. The constraint cuts behaviours once a line may
  tell of the wrong client, after which nothing is claimed. The VIEW
  leaves out modes other than operator, which no announcement reads.
* *Lookup, JoinRace.* The races are between two handlers; the theorems cover any
  number.
* *Rehash.* The files are one that changes settings, one that drops one, one that
  adds an operator, one that does not load and one with a bad password.
* *MainLoop.* The two clients' tasks make every pair of users of the registry's
  lock and of `replies` meet, NICK and ONICK of one client among them; two
  nicknames are enough to leave it under both. The VIEW takes nicknames as
  interchangeable. `BroadcastSafe` is proved for any tasks. `MaxSignals`
  is 1: a second signal repeats what the first does.
* *Teardown.* One client has one set of goroutines; a second killer adds nothing
  the quit timer does not do already. Others may reply any number of times.

Deadlock checking is off where the system may come to rest: all clients gone, the
process crashed, all searches done.

### Fairness

*Teardown.* Weak fairness for each goroutine says that the Go scheduler runs what
can run, and for the two timers that time passes. Strong fairness for Reply says
that senders blocked on `replies` are served in turn, as Go queues them. The
writer's step assumes that the kernel accepts what is written. `ReadEOF` is fair
since the kernel reports a closed connection. Nothing is assumed of a peer:
neither that it sends a line nor that it closes; `QuitCloses` therefore names
the case where the reader waits for ever, which `teardown_timeout` shows.
*MainLoop.* Strong fairness for each goroutine and for Run's cases of a signal and
of Stop: locks and channels serve who waits in turn, and a select takes any case
that stays ready. Weak fairness for the writers says that peers read what is
written to them. One that does not keeps its writer in Write, everybody who sends
to it waiting, and the main loop in Idle; the server sets no write deadline, so
`MainLoopReturns` holds under that assumption only.
*WhoWasLock.* Goroutines that can run do; whether clients ask or quit is open.

## 4. Proofs

Assumptions are those the modules state: nil, the empty nickname and the like are no
values, `Fold` is a function on nicknames, no mode set by USER, MODE or AWAY is
operator status, the connections are finitely many (`SessionsAssumption`), there is
a channel name and MODE lines are sequences of changes (`ChannelsAssumption`), the
buffer has at least one slot (`WhoWasAssumption`), lists of names are sequences of
lengths (`ReplyLinesAssumption`), masks are finitely many and user hosts are
sequences (`UserMaskAssumption`), the main loop is no client (`MainLoopAssumption`),
normal forms of tokens are normal and the lines begun with are lines of tokens
(`ParsingAssumption`), and those on accounts and files in Negotiation and Rehash.

`SessionsProofs`:

* `TypeCorrect`: the type invariant.
* `RegistryCorrect`, `SoundCorrect`: `NickOwner` and `RegistrySound`. They are
  inductive only together and with `Fresh` (a connection that is not yet a client
  has no nickname and is not registered): a rename is safe because the old entry
  leads back to the client that gives it up, and the new one is free or its own.
  `RegistryChange` states that once for NICK, ONICK and USER; `RegistryQuit` does it
  for destroy.
* `GateCorrect`: `RegistrationGate`. CAP END completes a registration without
  looking at the authorization, so the invariant needs `NamedAuthorized`: whoever
  has a nickname is authorized. (Authorized is what a PASS or an OPER made it; that
  a password was compared does not follow, see section 5.) `TryRegisters` is the
  lemma on tryRegister. The registry invariant is used for MODE and ONICK on others:
  whom the registry finds has a nickname.
* `WaitCorrect`: `NoCircularWait`, inductive with the type invariant. A reader
  that waits runs no command, so nobody it could be waiting for starts to wait;
  Quit on a destroyed client returns at once, so nobody joins a wait.
* `CountCorrect`: `ConnectionsCount`, by the cardinality of a finite set that
  gains a member in accept and loses one in the first Quit only.
* `ModesCorrect`: the action property `ModesByRight`, for each client whose command
  the step may be, command by command. USER and
  MODE cannot give operator status because no settable mode is operator status.

`ChannelsProofs`, about Channels:

* `ChannelsImplementSessions`: every step of Channels is a step of Sessions or
  leaves its state alone, so all theorems of `SessionsProofs` hold of channels too.
* `ApplyModesType`: a MODE line of any length keeps a channel well formed, keeps
  its members, and changes nothing but the user limit for who is not its operator.
  By induction along the line: who is no operator before a change is none after it.
* `ChannelsTypeCorrect`, `PointBackCorrect`, `InhabitedCorrect`, `CreatorCorrect`:
  `ChannelsTypeOK`, `MembersPointBack`, `RegisteredIffInhabited`, `OneCreator`, from
  one inductive invariant, `ChanInv`. JOIN takes for a new channel an object nobody
  points to; that it is empty is `MembersPointBack`. That an emptied object in some
  old list of channels does not unregister its successor is `RegisteredIffInhabited`
  itself: it is registered under its name only if it has members. At most one
  creator is stated without counting (`SingleCreator`). `StepKinds` reduces the
  handlers to four kinds of step on channels, each proved once.
* `FrozenCorrect`: the action property `OplessFrozen`, from `ChanInv` and the same
  four kinds.

`ChannelsProofs`, about Views:

* `ViewsCorrect`: `ViewsAgree`. The invariant (`ViewsInv`) needs, besides what the
  members believe (`Told`), that members of channels are live and registered
  (`MembersLive`), so that the registry keeps their nicknames apart (`Distinct`):
  a QUIT or NICK line takes exactly one name off a list. This is where the
  registry invariant, `MembersPointBack` (a quitting or renamed client's friends
  are everybody it shares a channel with) and `RegisteredIffInhabited` (a PART
  names the channel everybody means) meet; results about Channels carry over
  because a step of Views is one of Channels (`ViewsImplementChannels`, a lemma).
  A client whose QUIT is still to come is destroyed and waits for its reader, and
  nobody has its nickname (`Awaited`): so its line, when it comes, takes no
  member's name off (`Apart`, `LateTold`). What a member believes apart from such
  clients (`Rest`) is what the other lines keep up to date. All this holds until
  `haunted`.

`WhoWasProofs`:

* `TypeCorrect`: indices stay in the buffer.
* `RingImplementsHistory`: `WhoWas` implements `WhoWasHistory` under the mapping
  that reads the ring backwards (`Contents`), for every buffer size. An Append
  makes the ring's contents the new entry followed by the old ones, cut to
  N - 1 (`AppendHeld`, `AppendNewest`, `AppendRemembers`).
* `EachCorrect`: `EachIsContents`. The walk is at an entry of age i in its i-th
  round (`Ages`), and ages differ up to the number held, so it does not meet the
  slot before start any earlier (`EachWalks`).
* `FindCorrect`: `FindIsNewestMatches`. After each round the results are the
  matches so far, cut to the limit (`FoundTakes`); how many there are is a
  cardinality (`MatchesCount`).
* `LockImplementsRing`: WhoWasLock, with walkers, finders and the lock, implements
  the ring that Append alone moves.
* `WalkerCorrect`, `AnswerCorrect`: `WalkerOnRing` and `FindAnswers`. The invariant
  (`LockInv`) says of each search which locks it and its walker hold (`LocksOK`),
  which entry the walker is at and how far it has yet to go (`WalkOK`), and that
  the results so far are those of the entries handed over (`FindOK`). Whoever
  holds a read lock keeps Append out, so the ring does not move under it.

`ProtocolProofs`:

* `NamesOnceInOrderCorrect`, `CutAsMeasuredCorrect`, for every list, argument and
  limit. The invariant adds that the slice being measured is one name ahead of what
  is known not to be too long (`Measured`). What is measured and what is sent
  differ by the argument and the verbs alone (`MeasuredLength`).
* `LoginCorrect`: `LoginVerified`. Text is in the buffer only while an exchange is
  open (`IdleEmpty`), none is open before the client is authorized, and a right
  password that was left in it has been sent (`BufferProven`).
* `RetryCorrect`: `RetryLogsIn`, from the same invariant: whatever is in the buffer,
  the first try either logs in or resets it.
* `CapabilitiesCorrect`: `CapabilitiesAgreed`.
* `NamesCorrect`: `NamesCanonical`. The invariant is that the command is that of the
  line and the line is made of tokens; the rest is about operators. The loop of
  ParseLine makes a list of texts of it (`ArgsType`), Split makes texts of a text
  (`SplitItem`), a map keeps the names it is filled with (`MapOfType`), and then
  each constructor `Fit`s the arguments it is given, error or command.
* `ArgsCorrect`: `ArgsAreWords`. Each round of the loop of ParseLine begins at a word
  of the line and leaves what follows from the next word on (`SplitSuffix`); a round
  after a word has one word more before it (`BeforeNext`), so that the words that
  are read and the rounds are as many, one to one (`ArgsFrom`).
* `TargetsCorrect`: `TargetsSeparate`. An item of a list holds no comma (`SplitItem`),
  so a list of one item is that item (`SplitOne`); of a name that is given twice the
  last entry stays (`MapOfLast`).
* `EchoCorrect`: `EchoParsesBack`. All arguments of a line but the last are words
  (`LineWords`), so a change lacks its argument only where all later ones do
  (`Ordered`): within a group because arguments are dealt out in order
  (`GroupOrdered`), across groups because another group is left only when this one
  had all it wanted (`ConcatOrdered`, `ChannelRounds`), and so for the changes that
  were applied (`SomeOrdered`). Told behind one sign, letters and arguments stay
  where they were: each word put at the end of a line is one more argument
  (`AppendWords`), and the letters, read as a group, deal the same arguments out
  again (`ChannelTold`, `ChannelToldBack`; `UserToldBack` for a user). Without the
  order it is false: an argument would move to an earlier letter.

`SharedProofs`:

* `EntryCorrect`. An entry can only become wrong when the client it leads to is
  renamed. Its own reader does that only after Remove, when it has no entry any
  more (`RenamedUnlisted`): the Get of Remove finds the only entry the client can
  have, because the others are right. Another's reader does it for ONICK only, and
  then the client is in `crossed` (`OthersCrossed`).
* `EmptyCorrect`, `DestroyCorrect`, `FounderCorrect`. `EmptyForgotten` is made
  inductive by `EmptyHelped`: a JOIN not yet admitted helps an empty channel only
  where that is not closed, since a closed one may refuse it; any other handler in
  the middle of joining or leaving does. For `OneFounder` the ones about to be
  marked count as well (`OneCrown`): who finds one member finds itself or is not a
  member any more, and then is not marked. For `DestroyLeavesAll`, a client is
  destroyed by one goroutine (`Walkers`), `client.channels` is never behind
  `channel.members` (`MembersListed`, since JOIN adds to the former first), and so
  whatever channel a client that has quit is in, its destroy will still come to it
  or the client entered it late (`ToLeave`).
* `IdentityCorrect`. Every value on its way from file to server is fit for its
  setting (`Fit`): in the shared Config, in the copies that readers hold, and in
  the server; only the Config may hold a password that does not decode, and who
  would copy it ends the process.
* `SettledCorrect`: `SettledConfig`. While one REHASH runs alone, the settings it has
  passed are those of the Config (`OneByOne`).
* `MatchCorrect`: `MatchByCount`, for any masks. `setRegexp` leaves one mask in the
  first place and nothing in the others (`MaskInv`); an empty alternative at the
  end matches at the end of any text (`EmptyMatch`).

`MainLoopProofs`: `BroadcastCorrect`, for any number of clients and any commands.
An entry a broadcast has still to send to stays, since nobody is taken off under
its lock (`CastKept`). Unless two have renamed it at once, a client has one entry at
most, under the nickname it has (`EntryOwn`): one goroutine at a time renames it
(`OneRenamer`), and does so after taking it off (`RenamedOff`). So destroy, which
takes off the entry under the present nickname, takes off the only one, and whose
`replies` is closed is not registered unless it is `back` (`UnlistedFirst`), for only
a client that has quit by then comes back (`QuitFirst`).

`TeardownProofs`: `CloseCorrect`. Inside Read and Write exactly the holders of the
read lock are, and the lock of a closed socket is free (`LockedIO`).

`Iteration` replaces induction over an operator, which this prover cannot use, by
induction over a set (`SetInduction`, from the well-foundedness of the naturals),
and shows that the function a loop follows exists (`IterationExists`). Loops of the
code, a MODE line, the walk of Each, the search of Find, are written as recursive
functions over their rounds, so that these lemmas apply.

Only model-checked: `FindBlocksOnWriterOnly`, which speaks of ENABLED, and liveness
(`QuitCloses`, `SilentQuits`, `MainLoopReturns`, `ShutdownStops`); both are beyond this
prover.

## 5. What is not modelled

* **Messages and queries**: PRIVMSG, NOTICE, WHO, WHOIS, LIST, NAMES, ISON, LUSERS
  and CanSeeChannel. They read the state and change nothing. (Read in passing:
  WHO of a channel does not look at the invisibility of members, and
  `WhoisChannelsNames` counts and fills in two steps.)
* **The wording of replies and numerics**, but for mode strings and the cutting
  of long lists.
* **Parsing below tokens**: the characters a nickname or a channel name may have,
  and UTF-8. strings.go and types.go hold the same code; the map names the former.
* **The YAML decoder**, password hashing, metrics, the web page, listeners, TLS,
  I2P and Tor: libraries or pure I/O. Whether a file is readable, whether a
  password is right and that a connection arrives are inputs of the models. An
  empty configuration file is not among the files of the run.
* **A writer that blocks for ever** on a peer that does not read: see the fairness
  of MainLoop.
* The modes z (secure connection) and the account's host mask, which follow from
  the connection and from SASL.
* The calls of `WhoWas.Append` in Quit and ChangeNickname are left to the WhoWas
  modules, whose appender stands for all of them.

Consequences of the code that the models show, and that no run is spent on:

* OPER before registration with the name of no operator authorizes the client: no
  password is compared, not even the server's (command.go:213-222 and 648).
* A late JOIN makes a destroyed client a member of a channel, as a late NICK does
  for the registry. A broadcast then panics (`back` in `BroadcastSafe`).
* An operator's ONICK and the client's own NICK at the same time may leave the
  client in the registry under two names. Destroy removes one, and the next
  broadcast panics (`crossed` in `BroadcastSafe`).
* ONICK with an empty nickname looks at its first character and panics
  (nickname.go:75, strings.go:54); Sessions takes it as refused.
* A server operator's MODE may close a channel between its registration and the
  JOIN of the client that made it: refused, it leaves the channel registered and
  empty for ever (`shut` in `EmptyForgotten`).
* The QUIT of a client that is killed or timed out while it reads is sent when the
  peer sends a line or goes, if it ever does. Meanwhile its nickname is free; the
  QUIT of whoever had it then takes the new holder off the members' lists
  (`Haunts` in Views).
* Two clients that JOIN a new name at once may sit in two channel objects, one of
  which nobody else finds; or both see two members and nobody becomes operator. A
  JOIN that is kicked between Count and Get panics (`JoinCrown`).
* Between the steps of two NICKs both clients may end with the same nickname, one
  of them without an entry; `NickOwner` is a property of whole handlers.
* `client.channels` keeps left channels, so `Friends` is too large after PART and
  KICK.
* A walker whose search stopped at the limit stays blocked in its send with the
  read lock held.
* MODE +l asks nobody's privileges (channel.go:403). A MODE line with both signs
  is echoed with one.
* A failed AUTHENTICATE leaves its text in the buffer, and the next, correct,
  attempt fails once.
* REHASH removes no operator, since maps are merged; it reports success for a file
  that does not load; a password that does not decode ends the process.
* A line of a long list may exceed MAX_REPLY_LEN: the argument is not measured, its
  verb is (reply.go:78), and the last line is sent without its last name having
  been measured.

## 6. Plan

1. `FindBlocksOnWriterOnly` with the enabling condition written out.
2. Queries as operators on the channel state: CanSeeChannel in LIST, NAMES, WHO
   and WHOIS against each other.
