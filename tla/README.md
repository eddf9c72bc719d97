# TLA+ models of the IOCP/UDP game server and its client

This directory holds TLA+ modules for the server (`Server/`), the client
(`Client/`) and the code they share (`Common/`), the TLC configurations that
check them on small instances, and proofs for TLAPS; the database code
(`Persistence/`) is modelled with the server.  The program is a small
room-based shooter: clients log in and join over UDP, the server keeps peers,
rooms, matches and a simulated world, and either side repeats what the network
may lose.  Every definition is read from the source; `PROJECT.json` names, for
each, the lines it stands for.

## 1. The system

| Part | Where | State it keeps | Operations | What makes it correct |
|---|---|---|---|---|
| Sequence numbers, receive histories | `Common/Net/SequenceNumber.h`, `Reliable/ReliableUdpProtocol.h`, `Auth/PacketReplayGuard.cpp` | latest sequence, 32 ack bits, 128 replay bits | `Record`, `CheckAndRecord`, `IsSequenceNewer` | bits are the true history across wrap-around; verdicts on an arrival are true |
| Reliable session | `Common/Net/Reliable/` | next sequence, send window, ack tracker | build, resend, process incoming | what leaves a window was delivered or given up; a repeat is recognised |
| Server session registry | `Server/Net/ReliableUdpSessionRegistry.h` | a session per endpoint, with token, replay guard and close deadline | `Upsert`, `Remove`, `BeginClose`, `Authenticate`, resend | a session for each connected peer, and closing ones end |
| UDP server | `Server/Net/UdpServer.cpp` | the tables below under `stateMutex_`; packets authenticated and not yet handled | packet handlers, tick, kick, stop | the tables agree after every critical section |
| Peers and rooms | `Server/Service/PeerRoomManager.cpp`, `PeerSessionService.cpp` | peers by endpoint, their state, token, player and room; members of rooms | join, recover, leave, change room, time out, expire | one peer per account; rooms and peers agree |
| Login admission | `Server/Service/AccountLoginAdmissionService.cpp` | logins waiting for a join, by endpoint | apply, find, remove, expire | an account is logged in once |
| Match history | `Server/Game/MatchHistoryTracker.cpp` | a match per room: active players and statistics; the matches completed | enter, exit, kill, finish, extract | a match has the members of its room; every kill has its statistics |
| Simulation | `Server/Game/GameSimulation.cpp` | players, bullets, timers | input, fire, tick | players are those of connected or recoverable peers |
| Thread pool | `Common/Threading/ThreadPool.cpp` | queue, running and accepting flags, stop source | `Start`, `Enqueue`, `Stop`, `StopAfterDrain` | no accepted task is lost or run twice; stopping ends |
| Account login requests | `Server/Protocol/AccountLoginPacketHandler.cpp`, `Server/Account/`, `Client/Net/AccountLoginState.*` | pending, remembered and latest requests; completions | request, complete, answer, expire, drain | one task per request; every login is answered |
| Client connection | `Client/Runtime/ClientRuntime.cpp`, `JoinHandshake*`, `Client/Net/UdpClient.cpp`, `Client/App/GameClientApp.cpp` | handshake, received notices, time of the last packet, socket | join, recover, leave, close | what the client believes of its session is so; it is never stranded |
| Client world | `Client/Game/ClientWorld.cpp` | players of the current room | snapshots, announcements, room changes | the world follows its own room's newest snapshots |
| Prediction | `Client/Game/LocalPlayerPrediction.cpp`, `LocalPlayerReconciliation.cpp`, `Common/Game/Movement.h`, `WorldCollision.h` | predicted position, pending inputs and whether they are whole | input, snapshot, reset, toggle | a replay has every input the server has not processed; the prediction comes to where the server has the player; nobody is in a wall |
| Snapshot chunks | `Common/Net/Snapshot/`, `Client/Net/SnapshotChunkAssembler.*` | the tick being assembled and its chunks | add chunk, expire | a complete snapshot is of one tick, and ticks do not go back |
| Match persistence | `Server/Match/`, `Persistence/Match/` | queue of its pool, completions | enqueue, save, report | every completed match is tried and reported once, and saved whole or not at all |
| Database | `Persistence/` | connection, transaction, auto-commit, rows | open, begin, commit, roll back, insert, find or create | only whole matches are committed; a player who was let in is stored |
| Server process | `Server/App/GameServerApp.cpp` | what is started, the order of the stops | `Run` | nothing completed before the end is lost, the database is closed last |
| Configuration | `Common/Config/`, `Server/Config/`, `Client/Config/` | none; files and rows become records | load, overlay, validate | whatever a file says, the settings are within reach of those who use them |
| Completion port transports | `Server/Net/UdpIocpTransport.cpp`, `Client/Net/UdpIocpTransport.cpp` | socket, port, receive and send contexts, worker threads | start, receive, send, stop | no context is used after it is freed or lost; stopping ends |
| The rest | codecs, HMAC, rendering, input, console, fault simulation, blocking sockets | none that others read | | out of scope, see section 9 |

### How they interact

* A **client process** has a main thread (window, shutdown), an update thread
  (`ClientRuntime::UpdateLoop`) and receive threads that call into `UdpClient`.
  They share atomics (`leaveResponseReceived_`, `serverDisconnectReason_`,
  `lastServerPacketReceiveTimeCount_`), the world under its own mutex and the
  reliable session under another.
* The **server** receives on completion-port workers.  A worker takes
  `stateMutex_` to authenticate a packet, releases it, and takes it again to
  handle it; the tick thread takes it for each phase of a tick, the console
  thread to kick, and the main thread to stop.  Between two sections of a worker
  everything may change.
* Logins leave `stateMutex_`: the packet handler has its own mutex, a thread pool
  runs the database call, and the tick thread turns completions into answers.
* The **main thread** of the server starts everything in one order, undoes what is
  started when a start fails, and between extracts completed matches, hands them to a
  pool of one worker and logs what became of them.  That worker and the one of the
  logins share one database connection under `databaseMutex_`.
* The **update thread** of the client moves its player at once and remembers each input;
  the **receive thread** replays what is remembered whenever a snapshot comes.
* **Messages**: `AccountLoginRequest/Response`, `JoinRequest/Response` and input
  are unreliable and repeated by their senders; room changes, leaves, events and
  the notice of a disconnect go through the reliable session.

### What is hard here

Interleavings of receive workers, tick thread, pool and main thread; packets
that come late, twice, out of order or never; peers that rebind to another
endpoint; time-outs that race with late answers; windows and bit fields at their
limits; sequence numbers at their wrap; database calls that fail before or after they
took effect; shutting down while all of it goes on.
`PROJECT.json` lists each hazard at the line where it bites, with the properties
that watch it.

## 2. The modules

| Module | Models | State and actions against the code |
|---|---|---|
| `SequenceNumber` | `Common/Net/SequenceNumber.h` | `IsSequenceNewer` with the width `2 * HalfRange` as a constant |
| `AckTracker` | `ReliableAckTracker` | operators on `[has, latest, bits]`; the bit field is the set of its distances |
| `ReplayGuard` | `PacketReplayGuard` | the same with the replay window and its three verdicts |
| `ReceiveHistory` | the two together | one stream of arrivals drives both; the ghost `seen` is the history that is really true |
| `ReliableUdp` (`ReliableUdpMC`) | `ReliableUdpSession`, send window, registry | client and server session over one network that keeps all packets ever sent |
| `AckTracker_proofs` | | the inductive invariants of `ReceiveHistory` and of `ReliableUdp`, and their theorems |
| `Identities`, `Tables` | `Common/Identity`, the maps of the services | records of ids and the functions that stand for hash maps |
| `PeerRoomManager`, `MatchHistoryTracker` | the classes of the same names | their operations as operators on their tables |
| `UdpServer` (`UdpServerMC`) | `UdpServer` and all it calls under `stateMutex_` | one action per critical section |
| `UdpServer_proofs` | | the inductive invariant of `UdpServer` and its theorems |
| `TaskPool` | what those who give tasks to a pool may expect | abstract specification: a queue of tasks begun in order, each once, and a pool that opens and closes |
| `ThreadPool` | `Common/Threading/ThreadPool.cpp` | one action per step between two accesses to mutex, atomics or condition variable |
| `ThreadPool_proofs` | | the inductive invariant of `ThreadPool`, its theorems, and that it is a `TaskPool` |
| `AccountLogin` | login requests from the client's state machine to the answer | one action per critical section of the handler, per task step, per tick |
| `AccountLogin_proofs` | | the inductive invariant of `AccountLogin` and its theorems |
| `ClientConnection` | update, receive and main thread of one client and its peer at the server | one action per stretch between two accesses that others can see |
| `ClientWorld` | `Client/Game/ClientWorld.cpp` and the handlers of `UdpClient` that change it, against the rooms of the server | one action per handled packet at the client, per section or send at the server |
| `Client_proofs` | | the inductive invariants of `ClientConnection`, of `ClientWorld` and of `SnapshotChunkAssembler`, and their theorems |
| `UdpIocpTransport` | both `UdpIocpTransport.cpp` | one action per step of the thread that starts and stops, of a worker, of a call of `SendPacket`, and the completions of Winsock |
| `UdpIocpTransport_proofs` | | the inductive invariant of `UdpIocpTransport` and its theorems |
| `SnapshotStream` | what a client may expect of snapshots | abstract specification: whole snapshots, none before the last until the room is reset |
| `SnapshotChunkAssembler` | `SnapshotChunkAssemblerCore`, its two uses, the division into chunks | the entries of the two tables for one room and kind, and what is handed on; one action per pushed chunk |
| `ConfigText` | `Common/Config/ConfigText.h`, the casts of the loaders | a text is a number, a fraction or a word; the widths of the integer types are constants |
| `ServerConfig`, `ClientConfig` | loaders, overlay from the database, validators | one operator per section, applied line by line and row by row; `Usable` is what those who use the settings rely on |
| `Persistence` | `OdbcConnection.cpp`, the repositories, the constraints of the schema | a database and its connection is a record; an operation returns the set of its outcomes |
| `MatchLedger` | what the server promises of its matches | abstract specification: matches begin, end, are tried in order, and are reported |
| `GameServerApp` (`GameServerAppMC`) | `GameServerApp::Run` with both task processors | the main thread is the sequence of the calls it has still to make; one action per call, per section of a worker, per event of the UDP server |
| `GameServerApp_proofs` | | the settings of the server, the inductive invariant of `GameServerApp`, its theorems, and that it is a `MatchLedger` |
| `Movement` | `Movement.h`, `WorldCollision.h` | a step against walls and bounds, on a grid |
| `Prediction` (`PredictionMC`) | local prediction and reconciliation against the server's simulation | one action per section of the update thread, per handled packet, per section of the server |
| `Prediction_proofs` | | the settings of the client, movement against walls, the inductive invariant of `Prediction`, and its theorems |

`GameServerApp` composes `ServerConfig` with `Persistence`, and `Prediction` composes
`ClientConfig` with `Movement`.  `UdpServer` composes the two table modules; `ReceiveHistory` and `ReliableUdp`
compose the operators of `SequenceNumber`, `AckTracker` and `ReplayGuard`.
`ReceiveHistory` is also the abstract specification of a receiver: a set of
arrivals against which the bit fields are shown to be right, so that the other
modules may use "was received" in its place.  `SnapshotStream` is the abstract
specification of `SnapshotChunkAssembler`, by the mapping `last <- applied`.
`TaskPool` is the one of `ThreadPool`: its phase is where the owner and the two flags are
(`Phase`), its queue is the queue, under way is what a worker has in its hands (`Held`),
dropped what was discarded.  Steps of workers and owner between two of these are stutters.
`MatchLedger` is the one of `GameServerApp`: what waits to be tried is what the save worker
has taken, the queue of the pool, what the main thread has extracted and the completed list
of the tracker, in this order; the results that are not in the log are the completions and
the result the worker has not pushed yet; what is stored is what is committed; and the
ledger is closed when the runtime has stopped.  That the four places are one queue is what
makes the ledger worth stating: the order in which matches end survives every hand-over,
failed attempts and the shutdown included.

### Abstractions, module by module

**ReceiveHistory.** One stream of sequences arrives at both receivers.  An
arrival is at most `Horizon` away from the latest one, less than half the range:
a sender never has more than its window outstanding.  The shift by the whole
width of the field (undefined in C++) is a choice between the outcomes of the
builds: unchanged, as x86 does when the count is masked, or empty.

**ReliableUdp.** Every packet that was ever sent stays on the network, which is
loss, repetition and reordering in one; a resend of the same sequence adds
nothing.  Both sides have their own configuration of resends.  Authentication is
part of `ReceiveHistory`.

**UdpServer.** Time is a choice: a phase of the tick picks the set of peers or
logins whose time is over.  `KeepAlive` only refreshes `lastRecvTime` and is no
action.  The phases of a tick may come in any order, because each may do nothing.
Bullets that are equal in all that matters are one.  Broadcasts and status
snapshots change no state.  Tokens never repeat.  `Stop` and a later `Start` are
one action, with no worker between its two sections.

**ThreadPool.** Spurious wake-ups are left out, as they only help.  The stop
request of `condition_variable_any` is tested under its inner mutex, as in the
library the build uses; a `Start` that cannot spawn calls `Stop`.

**AccountLogin.** A request stands for its credentials; whether an admission
succeeds is a choice, as `UdpServer` models it.  A sent packet may displace or
lose others, since the network holds `MaxNetwork` of each kind.  Expiry is free to
happen at any time: every reader removes what is expired first.  Extracting
completions and responses is one step, as is admission with the recording of the
answer, because nothing else touches what they share in between.

**ClientConnection.** A socket stands for its port; the operating system hands a
port out again only when nothing refers to it.  Unreliable packets stay on the
network until they are lost, so they are late, repeated and reordered; a reliable
notice is dispatched once.  An answer to a closed socket reaches nobody.  The
receive threads interleave with everything, except that `StopTransport` joins
them.  The peer at the server is the one with this client's token: a second login
of its account is refused as long as the peer exists.  An `Update` in which
nothing is due is left out.  Two ghosts: `accepted`, that the server let the
client in on its present port, and `crossed`, that a `JoinResponse` was handled
between `BeginRecovery` and `StopTransport`.

**SnapshotChunkAssembler.** Any chunk of any tick may be pushed at any time, which is
loss, repetition and reordering in one.  What a chunk carries is named by its tick, so
that a snapshot put together from two ticks shows.  Whether the unfinished assembly
has expired when a chunk comes is a choice.  The rooms and the two kinds do not touch
each other, and pushes do not overlap: the client has one receive thread unless it is
configured otherwise.

**UdpIocpTransport.** What is received and sent does not matter to the life of a context,
nor whether it completed well: workers treat a failed completion like a successful one,
but for the handler.  The port hands completions out in any order.  An open socket may
refuse a context; a closed one does.  That Winsock has finished with the contexts of a
closed socket when `Stop` frees them is assumed, since nothing in the code waits for it.
The writes of `socket_.Close` race with the reads of senders; a sender is taken to see
either the socket or none.  One thread starts and stops the transport.

**ClientWorld.** A room change is answered through the reliable session, which hands
each response on once, in any order, or never: when the window is full, when the
session is gone or after the last resend.  Snapshots and announcements stay on the
network until they are lost: an announcement may be handled again and again, and when its
player has long moved on.  Ticks are only compared, so the network keeps snapshots in the
order of their ticks; one that is handled after a newer one is ignored and leaves the
network with it.  A socket is either the one on which the server has the peer or another
one (`reachable`); how a client gets from one to the other is `ClientConnection`.
Other players are told from each other, not where they are.  The first entry of a peer
into its room and its recovery are one action, `HandleJoinResponse`.  The ghost `word`
says whether the last answer on the own room was handled, is under way or will not come.

**ConfigText, ServerConfig, ClientConfig.**  What matters of a text is what the parsers
make of it: whether it is a whole number and which, a fraction, or a word such as `true`,
`inf` or `warn`.  Floats are whole numbers of thousandths; `nan` fails every comparison
and so is refused like any other word.  The largest values of the types are constants,
and every conversion that narrows or multiplies wraps at them: the instances have types
of 8 to 19 bits, in which everything that overflows in the program does.  Warnings are left
out, and so are lines that are neither a section nor a key.  The connection string is
empty or not.

**Persistence.**  A row is its key.  Any call of the driver may fail, `SQLEndTran` and an
`INSERT` also after they took effect; a statement is one call.  Another user of the
database may store a player between the query and the `INSERT`.  The schema's keys are
kept: statistics need their match and their players.

**GameServerApp.**  `UdpServer` is reduced to what reaches the main thread and the
database: logins that are submitted and admitted, and matches that begin with players
who are in and complete; `Stop` completes all that are active.  The pool of a task
processor has one worker, as the code starts it; `ThreadPool` has its details, and here
a join is a step that waits for an empty queue and an idle worker.  `config` is forgotten
once the server runs, as nothing reads it then.  Destructors find nothing left to stop.
A run of the process ends; another is another behaviour.

**Movement, Prediction.**  Positions are whole numbers, the factor of a diagonal (1/√2)
is 7/10, and what `float` rounds is not looked at.  Sequence numbers are told by their age, that of the
input sent last being 0; the wrap of the sequence is in `ReceiveHistory`, whose
comparison the code shares.  Inputs and snapshots are lost by being never handled or by
being handled after a newer one; the network holds inputs up to an age and some
snapshots.  One join or room change is answered at a time.  The three sections in which
a room change is handled (`SetCurrentRoomId`, `ResetLocalPlayerPrediction`,
`ApplyPlayerJoinedEvent`), and the two of an input (send, record), are separate actions.
The `PlayerJoined` that `BroadcastPlayerJoined` sends to a room goes to the player that
has just joined or changed to it as well (`UdpServer.cpp:1273`, `1490`), and
`ApplyPlayerJoinedEvent` then resets its prediction and clears its history
(`ClientWorld.cpp:82`).  It has neither a sequence number nor a tick: once broadcast it may be
handled at any time and again (`HandlePlayerJoined`), until it is lost or its socket closed.
`PushSample` drops a sample that is older than the last one; its times are those of ticks
or of arrivals, so whether a snapshot's or a `PlayerJoined`'s becomes the last is a choice.
*Left out:* the offset by which the renderer hides a correction; a room that does not fit
into a snapshot (the own player is in each); and the `PlayerLeft` of the own player, which
is sent to it only if it has come back to the room it left before the broadcast is made.
That takes two room changes whose broadcasts cross, which are in `ClientWorld`; here the next
change waits for the broadcast of the last.  A client with a `deltaSeconds` outside `Deltas`
is not followed beyond its start.

## 3. The runs

| Run | Bounds | States | Shows |
|---|---|---|---|
| `receive_history` | sequences modulo 16, 3 ack bits, 4 replay bits, horizon 6 | 22,817 | bit fields are the true history and verdicts are true, over the wrap |
| `reliable_udp` | modulo 16, 2 ack bits, window 2, 4 client packets, 1 server packet | 448,576 | nothing is settled that was not delivered or given up; closing ends |
| `udp_server` | 2 endpoints, 2 accounts, 2 rooms, 1 worker, 3 tokens, 3 player ids, 1 bullet | 271,906 | the eight tables agree in every order of events |
| `thread_pool` | 2 workers, 2 producers, 3 tasks | 260,855 | tasks are kept, run once, and stopping ends; the pool is a `TaskPool` |
| `thread_pool_drain` (violation) | 2 workers, 1 producer, 1 task | | `StopAfterDrain` may never return |
| `account_login` | 1 endpoint, 1 worker, 2 requests, 3 tasks, 1 packet of each kind | 140,670 | one task per request, no request stuck, every login settles |
| `client_connection` | 3 ports | 19,554 | beliefs, leaves and liveness of a client that recovers any number of times |
| `snapshot_chunks` | 4 ticks of 1 to 3 chunks each | 6,689 | only whole snapshots are shown, none goes back; when a tick may be assembled twice |
| `udp_iocp_transport` | 2 workers, 2 receive contexts, 1 send context | 7,216 | contexts are alive where they are used, none is lost, and stopping ends |
| `client_world` | 2 rooms, 1 other player, 2 players in a snapshot, 1 snapshot, 2 responses; players move while fewer than 2 announcements are unsent or under way | 540,444 | the client comes to show the members of its room, whatever stale announcements it handles; one that handled the last word on its room is in the right one |
| `game_server_app` | 2 players, 2 matches, one key per file and per row, each with 15 texts, ports 0 and 7000, types of 8 to 19 bits | 234,009 | matches are accounted for until the process ends, saved whole, settings are usable, the database is closed last; the server is a `MatchLedger` |
| `prediction` | 2 rooms of 7 by 3, one wall each, 2 sets of keys, 2 pending inputs, ages to 2 (1 on the network), 1 snapshot, 1 event, 1 tick per update | 470,613 | the history is whole, nobody is in a wall, settings are usable, the prediction settles |

**Why the bounds are enough.**  *ReceiveHistory*: every distance that the code
distinguishes occurs (behind and ahead, inside, at and outside of both windows,
over the wrap), and the proof removes the bound.  *ReliableUdp*: four packets are
one more than the field and its latest sequence can name, with a window of two,
so a pending packet can drop out of the field.  *UdpServer*: two accounts and two
endpoints are what a rebinding and a taken endpoint need, two rooms a change of
room; three tokens let one account come back after another; the configuration is
symmetric in endpoints, accounts and rooms.  A second worker between its sections
was tried and adds states, but no new kind of interleaving: only one worker at a
time holds the mutex, and what happens in between is already arbitrary.
*ThreadPool*: two workers and two producers, so that one of each can be stuck while
the other goes on.  *AccountLogin*: two requests make an earlier and a later
one, three tasks let one be run again after its answer was forgotten.
*ClientConnection*: the port in use, the port the server knows and a fresh one;
recoveries are not bounded.  *SnapshotChunkAssembler*: the last tick shown, the one
that displaces and the one that is displaced, and one more; three chunks let a snapshot
be half complete; the proof removes both bounds.  *UdpIocpTransport*: two workers hold two contexts
while a third is sent and the transport stops, or fails at any point of its start; starts
and stops are not bounded, and the proof has any number of workers and contexts.
*ClientWorld*: two responses can be handled in the other order.  A player may move while
one announcement of an earlier move is unsent or under way, so that it is handled when it
contradicts the rooms of the server: a `PlayerJoined` of a player that has moved on, a
`PlayerLeft` of one that came back, one heard again after a newer one.  With a bound of 1
no announcement would be stale.  The one snapshot on the network may be of long before,
too.  Recoveries are not bounded, and the proof of `RoomIsTheServers` has no bounds.
*GameServerApp*: two matches, so that one is being saved, fails or waits while the other
completes or is extracted, and two players, so that a match may lack one of its rows.
Sections of the configuration do not read each other's settings, so files with one key,
and a few with several keys of one section, meet every case; the texts are the numbers at
both sides of every width.  *Prediction*: a history of two overflows with the third input, and a replay goes through
two.  One event is a death, a room change, a recovery or a switch.  The `PlayerJoined`
packets of the own player are no events: they come early, late, again, between the
sending and the recording of an input, and after the player has moved on, in its room or to
another, so that the spawns of both rooms may be on the network.  The spawn of one
room is in the wall of the other, so that a packet of the wrong room would show, and
a late `PlayerJoined` throws the prediction back by more than the correction ignores.
The client's step (75 ms) is shorter than the server's (100 ms), so that predictions are
wrong without any loss; a difference of one step is ignored, one of two lost inputs
is not.  An input may be accepted after the next one was sent.  A switch
and its undoing are two events: that the prediction then goes on where the player was shown
last, and what several events do, is in the proofs only, which have any rooms, walls,
steps, files and bounds.  That every step from a clear place leads to a clear
one, with any keys against and along the walls, is an assumption that TLC evaluates
(`StepsStayClear`).

Symmetry is used only in runs without liveness properties.  `CHECK_DEADLOCK
FALSE` stands where the system really stops: `ReliableUdp` when its bounded
packets are sent, `ThreadPool` after its last stop, or in the hang it shows,
`GameServerApp` when `Run` has returned, and `Prediction` for a client whose settings
are looked at but which is not followed further.

## 4. The properties

Each property is stated in words where it is defined.  The ones that carry most:

* `HistoriesAreTrue` (bit field and replay window), `VerdictsAreTrue`: bit
  arithmetic modulo 2^w against the set of what arrived.
* `SettledWasDelivered`: a packet leaves the send window only if it was handled
  or abandoned, whatever acknowledgements come late or twice.
* `TablesFollowPeers` (rooms, players and sessions), `MatchesFollowPeers` (players of
  matches, and the kills of bullets still flying), `AccountsLogInOnce`,
  `TokensKeepTheirPlayer`: the tables of the server, in pairs.
* `TasksAreKept`, `StopEnds`, `TasksSettle`: the pool; a drain throws away only what was
  accepted after it began, and a stopped pool stays empty.
* `ImplementsTaskPool`: tasks begin in the order of `Enqueue`, whatever worker takes them;
  while the pool ends it may still accept (until the second of its two flags falls), and
  when it has ended nothing is under way.
* `RequestsAreTracked`, `LoginsSettle`: a login request is neither run twice at once nor
  blocked by what is remembered of it.
* `MatchesAreAccountedFor`, `CompletedMatchesAreTried`: every match that began is in one
  place from the tracker to one line of the log, also when it completes while the process
  ends, and none waits for ever before it is tried.
* `ImplementsLedger`: matches are tried in the order in which they ended, stored only by
  their own try and never removed, reported in the order of the tries, called saved only if
  they are stored, and all in the log when the ledger is closed.
* `SavedMatchesAreWhole`, `AdmittedPlayersAreStored`: whatever call of the driver fails,
  before or after it took effect, no half of a match is committed, what is reported as
  saved is there, and so is the row of whoever was let in, with one exception (section 7).
* `DatabaseOutlivesItsUsers`: the shutdown, and every way out of a start that failed.
* `ConfigIsUsable`, `ClientConfigIsUsable`: every key with every kind of text, through
  narrowing casts, overlay and corrections; validating again changes nothing, and the rows
  of the database have no say in the port and in the database.
* `PendingIsComplete`: the inputs a replay needs are there, each once and in order, also
  when a late `PlayerJoined` clears the history between the sending and the recording of one.
  `PlayersStayClear`: no step, correction, respawn or `PlayerJoined` of long ago puts a player
  into a wall.
  `PredictionSettles`: once the keys are released the client comes to show its player
  where it is.
* `ContextsAreAlive`, `ContextsAreAccountedFor`, `SendsAreReleased`:
  who owns the memory of an overlapped operation, while the transport is stopped under
  workers and senders.
* `JoinedWasAccepted`, `LeftIsGone`, `StrandedClientNotices`, `JoinEnds`: client
  and server about the same session.
* `RoomIsTheServers`: whatever snapshots of other rooms are late, the room in which a
  client believes is the server's once the last answer was handled.  Without the last
  answer it need not be: responses that overtake each other, or one that is never built
  because the window is full, leave the client in a room it has left, whose snapshots no
  longer come, while it refuses those of its own until it recovers.
* `MembersAreShown`: when nobody moves any more, announcements of players that have moved on
  and snapshots of before leave nobody missing and nobody too much, in a room that fits into
  a snapshot.
* `ImplementsStream`: whole snapshots, none before the last.  `AppliedAgainByOtherCount`
  says when a tick is nevertheless assembled twice: a chunk of it, repeated late,
  displaces a newer assembly with another number of chunks (`NeedsReset` compares the
  counts before the ticks).  Impact effects of that tick are then shown again, and the
  newer snapshot is lost unless its chunks are repeated.

## 5. Fairness

* `ReliableUdp`: only the server's resend of a pending sequence is weakly fair;
  its tick resends what is due.  Deliveries are not fair.
* `ThreadPool`: a worker that can step does, a notification that is under way
  arrives, a stop goes on, and a `Start` that failed calls its `Stop`.  Producers
  are free.
* `AccountLogin`: the client's update loop, the pool and the tick thread go on.  A
  request or an answer that is sent again and again arrives (strong fairness, per
  kind): the client repeats its request every interval, and the server repeats its
  answer whenever it is asked again.
* `ClientWorld`: the server ticks, and what it has to announce it sends.  Announcements
  are eventually lost, as nobody repeats them.  Handling a snapshot is strongly fair:
  every tick sends one, and not all of them are lost.
* `UdpIocpTransport`: threads are scheduled, a mutex is handed to whoever waits for it,
  sends complete, and the port, a queue, hands out each completion while workers come
  back for more (strong fairness).  No receive need ever complete while the socket is
  open.
* `ClientConnection`: threads are scheduled.  `NoticeSilence` is strongly fair: the
  update thread compares with the clock again and again, and is at that place only
  now and then.  The server's time-out of a peer whose client is elsewhere is weakly
  fair, as it hears nothing more of it.  Joins and their answers are strongly fair at
  the present port, because the client repeats its request at an interval much
  shorter than the grace period.  Requests of old ports are eventually lost.
  Nothing makes the user close the window, the server kick or the login expire.
* `GameServerApp`: the main thread and the workers go on; a call of the driver returns.
  Joins are not fair, because a drain may wait for ever (section 7); so that every
  completed match is tried does not rest on the end of the process.  Logins and matches
  need not happen.
* `Prediction`: the update thread ticks (its weak fairness is over the three steps of a
  tick together) and so does the server.  Snapshots are sent every tick and not all of them
  are lost: handling one, or going on with a reset, is strongly fair.  No input need ever
  arrive.  A `PlayerJoined` is not repeated, so that it is eventually lost.
  Recoveries and their answers need not end: the property is about a client that stays
  joined.

## 6. What is proved

All proofs are for all values of the constants.  Each proof module also has the type
invariant (`TypeCorrect` or a part of the invariant), which the runs check only where
another property does not already need it.

**`UdpServer_proofs`.**  Assumption: `ServerAssumption` (joins are let into a room there
is, the send window has a place, the bounds are numbers); the sets of endpoints, accounts,
rooms and workers are any sets.  The invariants the run checks say how the peer table
agrees with each other table, and hold only together: `IInv` is `LoginsFit`, `RoomsFit`,
`PlayersFit`, `SessionsFit` and `MatchesFit`, each the types of its tables and their
relation to the peers, and `WorkFits` for what a receive worker has between two sections.
Two facts had to be added.  `TokensApart`: a token is of one login or one peer and below
the next to be generated; a recovery looks a peer up by its token, and without this could
find another's.  `BulletsHaveTheirMatch`: a bullet flies in a room that has members and
whose match knows its owner, also when the owner has left; `KillsAreRecordable` speaks
only of bullets that can hit somebody now, who may enter the room later.  The operators on
sessions and matches have their lemmas (`OpenSessionFacts`, `LeaveFacts`, `EnterFacts`),
and every way in which peers go, by request, by time-out, by kick, shares `LeavingLogins`,
`LeavingPeers`, `LeavingRooms`, `LeavingPlayers` and `LeavingMatches`; one lemma per
critical section then puts them together.  What a worker read before it locked is not in
the invariant: each handler looks again, and the proof uses only what it finds.  Theorems:
`OneLoginPerAccount`, `TablesAgreeWithPeers`, `MatchesAgreeWithPeers`,
`RecoveryFindsThePlayer`.

**`AckTracker_proofs`, the session.**  Assumptions: `HalfRangeAssumption`,
`AckBitsAssumption` and `ReliableAssumption` (a window with at least one place; each side
sends fewer packets than half the range of the sequences, so that none wraps).
`SettledWasDelivered` is about what is on the network: a stale acknowledgement must not
settle what it does not name.  `SessionInv` therefore has `NetIsTrue` (every packet ever
sent, whenever it comes, names only sequences that its sender had received) and
`TrackersFollow` (a tracker is exact about the deliveries: the latest is the greatest, a bit
is set just for those received at its distance), both until a side shifts its field by the
whole width.  `ObserveFollows` is the lemma that an arrival keeps a tracker exact, whether
it is ahead of the field, within it or behind; `FollowsHas` says what an exact tracker
answers, and gives `RepeatsAreOld` as well.  `TrueAckStays` needs that sequences, deliveries
and overflows only go on (`Onward`): an acknowledgement names nothing above its `ack`, so
what is sent later cannot make it false.  Theorems: `SettledPacketsArrived`,
`OnlyOldPacketsRepeat`.

**`AckTracker_proofs`, the histories.**  Assumptions: `HalfRangeAssumption` (the half range is
a positive number), `AckBitsAssumption` and `ReplayBitsAssumption` (fields of at least
one bit, narrower than half the range), `HorizonAssumption` (an arrival is less than
half the range away and may be as far as the fields are wide).  The
invariants the run checks are not inductive alone: whether a shifted bit is right
depends on the true history having the latest sequence in it, and whether a verdict
is right depends on both receivers having the same latest one.  The inductive
invariant is `HistoryInv`, the conjunction of `HistoryTypeOK`, `HistoryStarts`,
`AckBitsMatchHistory`, `ReplayWindowMatchesHistory` and `VerdictsAreTrue`.  The lemmas
`AheadIsNewer`, `BehindIsOlder` and `AgeZeroIsLatest` reduce arithmetic modulo `2 *
HalfRange` to distances; `FirstPreserves`, `AheadPreserves` and `BehindPreserves`
are the three kinds of arrival.  Theorems: `HistoryInvHolds`, `HistoryTyped`,
`FieldsAreHistories`, `VerdictsHold`.

**`Client_proofs`, the connection.**  Assumption: `PortAssumption` (no socket is no port).
`JoinedWasAccepted` needs three more facts, together `Belief`: an answer on its way
to the present port was given by a server that let the client in there
(`AnswerWasAccepted`); so was any peer whose endpoint is that port, whose answers
are repeated (`PeerWasAccepted`); and a client that is joined at the moment of its
restart was crossed (`RestartIsUnjoined`).  `LeftIsGone` needs `LoginIsUsedOnce` (a
login waits at one endpoint and is gone once a peer exists) and extends to a leave
whose answer is still under way (`LeftForGood`), together `Farewell`.  The two
halves are proved apart, on the types and `ChecksOpenSocket`.  Theorems:
`InvariantHolds`, `TypeCorrect`, `JoinedIsAccepted`, `LeaveIsFinal`.

**`Client_proofs`, the snapshots.**  Assumption: `ChunkAssumption` (finitely many
ticks, at least one chunk).  What is shown at the moment of completion is whole
because of a count: `ChunkInv` adds to the types that what is under way is a part of one
tick (`IsPartOfATick`) whose count is the number of places filled, all of them among
the first `chunkCount`.  A full count then fills every place, by the cardinality of
subsets (`CompleteIsWhole`).  That no tick goes back needs that an assembly is never
older than the last tick shown.  `CurrentIsPart` is the argument of
`AppliedAgainByOtherCount`: a repeated chunk gets past the checks only if the counts
differ.  Theorems: `ChunkTypeCorrect`, `AppliedAgainIsDisplacement`,
`AssemblerImplementsStream`.

**`Client_proofs`, the world.**  Assumption: `WorldAssumption` (the local player is not
another one, no room is not a room, the bounds are numbers).  `RoomIsTheServers` is
not inductive: when a response is handled, the room it names is the server's only if
it was the last to be built.  `WorldInv` adds `LastWordIsLastResponse` (while the last word
is under way, it is the last of the responses and names the server's room) and
`IsInARoom` (the peer is in some room, so the client's room is not the empty one, and
snapshots of other rooms are refused).  `RemovedResponses` is the lemma on sequences
behind it.  Theorems: `WorldTypeCorrect`, `RoomIsRight`.

**`UdpIocpTransport_proofs`.**  Assumption: `TransportAssumption` (finitely many workers,
at least one; receive and send contexts are different memory).  `ContextsAreAlive` needs
to know what a worker has at each place (`HoldsFit`), what a call of `SendPacket` past its
tests may rely on (`SenderFits`), that contexts stay in their lists while the socket is
closed and the workers still run (`InTheirLists`), and what is so at each step of `Start`
and `Stop` (`OwnerFits`): the lists are cleared only when no thread is left, which holds
because the join comes first, and after a failed start because `Stop` is run once more.
One lemma per action shows that it keeps `IInv`.  Theorems: `InvariantHolds`,
`ContextsStayAlive`, `NoContextIsLost`.

**`GameServerApp_proofs`.**  Assumptions: `AppAssumption`, `WidthAssumption`,
`DefaultAssumption` and `ThreadAssumption` (what a line of a file, a row and a port on the
command line are; how wide the integer types are, and that the defaults and the number of
threads fit into them).  Players and matches are any sets, files and tables have any length,
and the database may fail in any way `Persistence` has.  The
inductive invariant has three layers.  The first is about the main thread.  Its state is
the list of calls it has still to make, and `ControlFits` says for each place in the three
lists (the way up with the loop, the way back from a server that did not start, the way
down) which pools run, whether the handler is attached, whether the server is up and which
lists are empty there; `OtherLists` shows that a failure or the end of the loop leads from
a place in one list to a place in another.  With `PoolsFit` (a pool that has stopped has
nothing left) this gives `DatabaseOutlivesItsUsers`, since on every way out `StopDatabase`
comes after both joins.  The second layer is about the rows.  `ConnectionFits` says that
outside a transaction the connection commits at once, and inside one it does not; on it
rest the lemmas about what each statement, a whole `SaveMatch` (`SaveOutcome`) and a
`FindOrCreatePlayer` (`FindPlayerOutcome`) may leave behind, including the rollback that
fails and the commit whose answer is lost.  `WholeRows` and `TrailFits` then say that
committed matches have the rows of all their players, and that a result on its way to the
log tells the truth.  The third layer counts: `Placed` says that a match that has begun is
in one of the seven places it can be in (tracker, completed list, hands of the main thread,
queue, worker, completions, log), and no other match is in any.  `Hits` with its lemmas
carries such counts through appending, taking and concatenating.
*Settings:* `ConfigFits` follows the settings from the defaults through the file, the
database's rows, the validator and the command line, each of which `Run` applies at its
place.  A file and a table of any length keep the types by induction over lines and rows
(`LoadKeepsTypes`, `EntriesKeepTypes`), the validator makes typed settings usable
(`ValidatedIsUsable`) and has nothing to correct in usable ones (`UsableIsKept`).
*Ledger:* `StepIsLedgers` has one lemma per action or group of actions and needs the first
two layers only.  Most steps move a match from one of the four places to the next
(`TakeMatchIsUnseen`, `ExtractIsUnseen`, `EnqueueIsUnseen`) or do not touch them
(`OthersAreUnseen`); the one that
matters, `SaveTakenIsTry`, uses `SaveOutcome`: an attempt stores its match or stores
nothing, and says saved only in the first case.  That a `Close` finds nothing waiting is
`ControlFits` at `StopDatabase`.  `Enqueue` could refuse a match, which the ledger does not
allow: the pool runs wherever the main thread calls it.
Theorems: `DatabaseIsClosedLast`, `LoginsLeaveRows`, `MatchesAreSavedWhole`, `NoMatchIsLost`
(which has the type invariant as well), `ServerStartsWithUsableSettings`,
`ServerImplementsLedger`.

**`Prediction_proofs`.**  Assumptions: `PredictionAssumption` (walls are rectangles, spawns
are clear of them, the bounds are numbers, files are lists of lines of any length),
`MovementAssumption` (a player fits into the world) and the widths of the integer types.
Three of its arguments are inductions over data: a replay goes through a list of inputs, a
file is read line by line, and `std::min` over the walls that are met has to exist.  The
library's induction theorems cannot be used, as their parameter is an operator, but that
`<` is well founded on the naturals can be stated of a relation; `LeastNatural` and
`Induction`, which is about a set, follow from it and carry all three (`MinOfBounded`,
`ReplayStaysClear`, `LoadKeepsTypes`).
*Places:* `IsMove` says what a move along one axis may do: it stays between the bounds and
does not get past a wall beside it.  `ClearMeans` says that a place is clear if for every
wall one axis separates the two, so a move along one axis cannot undo what the other axis
separates, and one along both in turn keeps a place clear (`MovingStaysClear`).
`PlacesAreClear` extends this to whatever may become a place of the player: what is under
way to the client, the `PlayerJoined` packets of all joins so far included, the resets that
wait, and the place shown last while the prediction is off.  It needs `RoomIsKnown`, because a
place is clear in a room: a client with a prediction knows its room, and so refuses what is
of another.
*History:* `PendingIsComplete` is not inductive.  `HistoryIsWhole` says how old each input
in the history is: it follows from its place, with one tick more while the input just sent
is not recorded, and the history reaches back to where it started over or to what the
server has processed (a late `PlayerJoined` lets it start over, also between the two).
`UnprocessedIsTheEnd` is the lemma about what is left of
a history; one lemma per action shows that it keeps `IInv`.
*Settings:* every key keeps the types of the settings, so a file does (`LoadKeepsTypes`);
the validator makes typed settings usable (`ValidatedIsUsable`) and leaves usable ones as
they are (`UsableIsKept`); and what the command line adds is usable (`BuiltIsUsable`).
Theorems: `TypeCorrect`, `HistoryHasNoGap`, `PlayersAreClear`,
`ClientStartsWithUsableSettings`.

**`ThreadPool_proofs`.**  Assumption: `PoolAssumption` (a bound on the tasks, at least
one worker: `Start` refuses none).  That a task is in one place is its own
induction: `IInv` says that tasks are below the next number (`Below`), that none is twice
in the queue or with two workers and that queue, workers, executed and discarded tasks
have none in common (`Apart`), and that each is somewhere (`Somewhere`).  That a drain
discards only what came late needs what holds at each step of `Start` and `Stop`
(`OwnerFits`), and that a worker which has ended in a drain left an empty queue behind, so
that what is in the queue then is late (`DrainFits`, `DiscardedWasLate`).  The refinement follows
step by step from the same invariant: a `Close` of the abstract pool needs that no worker
has a task in its hands, which is what the join leaves, and that what a drain drops is late.
Theorems: `InvariantHolds`, `TasksStay`, `ThreadPoolImplementsTaskPool`.

**`AccountLogin_proofs`.**  Assumption: `LoginAssumption` (the bounds are numbers).  That a
success belongs to the last request needs to be known of every place a success can come
from: `GrantsAreTrue` says that an answer on the network, in the cache, in the queue of
cached answers or in the hands of the tick thread that grants a request does so truly,
which for the last request of a client means that it was admitted.  It is kept when a client
begins the next request only because the server knows no request that has still to begin
(`OnlyBegun`), and numbers are not used twice (`Numbered`).  `AnswerKeeps` is the step the
cached, refused, stale and admitted answers share.  `RequestsAreTracked` is an induction of
its own, `Tracking`: the two pending tables are inverse to each other (`TablesAgree`), what
a worker, the pool or the tick thread has is pending under its key (`HandsFit`), a task is
with one of them only (`PlacesApart`) and every pending one is with somebody
(`NoneIsStuck`).  Without `PlacesApart` a request withdrawn by one worker could be in the
pool as well.  That the tick thread leaves no completion out is a fact about injections
between finite sets of one size.  Theorems: `InvariantHolds`, `TypeCorrect`,
`SuccessIsEarned`, `RequestsStayTracked`.

**Only model-checked:** all liveness properties (`ClosingEnds`, `StopEnds`,
`SendsAreReleased`,
`TasksSettle`, `LoginsSettle`, `StrandedClientNotices`, `JoinEnds`, `CloseEnds`,
`MembersAreShown`, `CompletedMatchesAreTried`,
`PredictionSettles`), which are out of the reach of the provers.  Every invariant and every
other property the passing runs check is stated by a theorem.

## 7. What was found

**`thread_pool_drain`** — `StopAfterDrain` notifies without the mutex; a worker
between its predicate and its sleep misses it and is joined for ever
(`ThreadPool.cpp:101`).  The server's shutdown ends with two such drains.

Observed besides, without a run:

* `ReliableUdpProtocol.h:88` shifts a 32-bit field by the distance of an arrival, which
  may be exactly 32.  C++ leaves this undefined; on x86 the field stays as it was and
  acknowledges packets that never came.  `AckBitsMatchHistory` excepts a field that was
  shifted so.
* A `JoinResponse` handled between `BeginRecovery` and `StopTransport` makes the client
  joined again; the restart gives it a socket the server does not know, and since nothing
  is ever heard there, silence is not measured (`ClientRuntime.cpp:137`,
  `UdpClient.cpp:1023`).  `JoinedWasAccepted` and `StrandedClientNotices` except it.
* A `ServerDisconnect` handled after `Update` has looked for one and before the reset of a
  restart is forgotten (`UdpClient.cpp:433`): the kicked client starts to recover.
* Whether a login is the latest of its endpoint is read when completions are extracted and
  used after the lock was released (`AccountLoginPacketHandler.cpp:139`); the order is
  that of arrival.
* The snapshot assembler has no lock; with more than one receive thread
  (`IocpWorkerThreadCount`, 1 by default) two complete snapshots may be applied in the
  other order (`UdpClient.cpp:892`).
* After a rollback that failed `transactionActive_` stays set (`OdbcConnection.cpp:246`):
  every later match fails with "already active", and the rows of new players are written
  into the open transaction and gone when the connection is closed.
* A commit after which auto-commit cannot be restored reports the match as not saved
  although it is, and closes the connection; nothing opens it again.
* A 64-bit number that narrows to one in range is taken silently (`InitialRoomId =
  4294967301` is room 5).  Intervals in milliseconds near the largest number overflow when
  they become ticks; the corrected interpolation delays may then be negative, though in
  order.  `inf` is accepted for `DeltaSeconds` and `FixedDeltaSeconds`.
* The `PlayerJoined` of a player that has just joined is sent to that player too, and
  throws its prediction back to the spawn whenever it comes (`ClientWorld.cpp:82`), again if
  it is repeated; the next snapshot corrects it.
* An input recorded between the sections of a join or a room change is dropped; the next
  snapshot corrects it.  Inputs that arrive within one tick of the server supersede each
  other, and the older ones count as processed without having moved the player.
* Input authenticated before a time-out is applied after it (`PlayerCommandService.cpp:51`
  does not look at the connection state), so that a recoverable player keeps moving until
  its grace period ends.
* The send window (64) is wider than the field (32), so a packet that was handled and has
  dropped out of the field cannot be acknowledged any more; the latest ACK, sent for its
  repetition (`ReliableUdpSession.h:156`), does not name it, and it is resent until it is
  given up.
* The result of `PostRecv` is ignored once the transport runs
  (`UdpIocpTransport.cpp:445`): each failure costs a receive context until the next start.

## 8. Plan

Everything the plan named is modelled: histories, sessions, the server's tables, the
pool, logins, the client's connection, snapshot chunks, rooms, transports, prediction, the
persistence of matches, the server process and the configuration.  What could follow:

1. **Interpolation** of remote players, whose delay adapts to late snapshots.
2. **Two client processes on one port**: a remembered login answer is keyed by endpoint and
   request id, and may reach the successor of the client it was for.

## 9. Not modelled, and why

* Packet layout and HMAC arithmetic: the models use whether a packet is accepted.
* SQL, ODBC binding and what is in a column: results of calls are choices.
* `CreateAccount` and the tests for existence, which only tests call.
* Rendering, input, window and console: presentation.  Of the console only kicking (in
  `UdpServer`) and quitting (in `GameServerApp`) change anything.
* Interpolation of remote players, bullets and effects of the client, and the offset that
  smooths a correction: they only decide what is drawn.
* The fault simulator, a test aid: the networks of the models lose, repeat and delay.
* The blocking socket transport: one thread and one buffer; what its stop does to the
  client is in `ClientConnection`.
* Flight and hits of bullets, hit points and timers are choices in `UdpServer`; the server
  also goes on moving a silent peer until it is marked recoverable, as in `Prediction`.

After 2^32 packets a sequence of 0 is sent, which a header that acknowledges nothing
acknowledges as well: the sequences of the `ReliableUdp` runs do not wrap.
