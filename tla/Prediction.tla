----------------------------- MODULE Prediction -----------------------------
(***************************************************************************)
(* What a client shows of its own player: LocalPlayerPrediction.cpp,       *)
(* LocalPlayerReconciliation.cpp and the local player's part of            *)
(* ClientWorld.cpp, driven by the update thread (ClientRuntime.cpp) and by *)
(* the receive thread (UdpClient.cpp), against the server that moves the   *)
(* player (GameSimulation.cpp, PlayerCommandService.cpp, UdpServer.cpp).   *)
(*                                                                         *)
(* The client sends the keys of each of its ticks with a sequence number,  *)
(* moves its player at once, and remembers the input until a snapshot says *)
(* that the server has processed it.  A snapshot is answered by a replay   *)
(* of what is remembered from where the server has the player.             *)
(*                                                                         *)
(* Sequence numbers are told by their age: that of the input sent last has *)
(* age 0.  Inputs and snapshots are unreliable: any of them may be handled *)
(* late or never.  One that is handled after a newer one is ignored, and   *)
(* so leaves the network with it.  The PlayerJoined that tells a room of   *)
(* the player is sent to the player too.  It has neither a sequence number *)
(* nor a tick: it may be handled at any time and more than once, until it  *)
(* is lost.                                                                *)
(*                                                                         *)
(* One room change or join is answered at a time, its broadcasts included: *)
(* ClientWorld has those that cross, ClientConnection the handshakes.  The *)
(* offset by which the renderer hides a correction is left out.            *)
(***************************************************************************)
EXTENDS Movement, ClientConfig, Functions

CONSTANTS
    Room,
    WallsOf,            \* the walls of each room
    SpawnsOf,           \* the spawn points of each room
    InitialRoom,        \* initialRoomId
    KeySets,            \* the keys that may be held at once
    ServerDelta,        \* fixedDeltaSeconds
    IgnoreDistance,     \* correctionIgnoreDistance
    MaxPendingInputs,   \* maxPendingInputCount
    MaxTicksPerUpdate,  \* maxSimulationTicksPerUpdate
    Files, Addresses, Ports,    \* Client.ini, and what the command line gives
    MaxAge,             \* bound: the age up to which inputs are told apart
    MaxLag,             \* bound: age of an input that is still on the network
    MaxSnapshots,       \* bound: snapshots on the network
    MaxEvents,          \* bound: deaths, room changes, recoveries and switches
    Deltas              \* bound: the deltaSeconds of a client that is followed further

Place == (World.min[1] .. World.max[1]) \X (World.min[2] .. World.max[2])
Distances == {MoveDistance(d) : d \in Deltas \cup {ServerDelta}}

NoRoom == "NoRoom"
NoPlace == <<>>
NoResponse == <<>>

ASSUME PredictionAssumption ==
    /\ NoRoom \notin Room /\ InitialRoom \in Room
    /\ \A r \in Room : WallsOf[r] \subseteq Rectangle
    /\ KeySets \subseteq SUBSET Keys /\ {} \in KeySets
    /\ {MaxPendingInputs, MaxTicksPerUpdate, MaxSnapshots, MaxEvents} \subseteq Nat \ {0}
    /\ ServerDelta \in Nat /\ Deltas \subseteq Nat
    /\ MaxAge \in Nat /\ MaxAge >= MaxPendingInputs
    /\ MaxLag \in 0 .. MaxAge
    /\ Files \subseteq Seq(Lines) /\ Addresses \subseteq Text /\ Ports \subseteq 0 .. ShortMax
    /\ \A r \in Room : \A p \in SpawnsOf[r] : p \in Int \X Int /\ IsClear(p, WallsOf[r])

VARIABLES
    stage,          \* of GameClientApp::Run
    config,         \* config_, until the runtime has started
    stride,         \* the length of the client's steps
    place,          \* where the server has the player
    room,           \* PeerState::roomId
    held,           \* PlayerState::inputFlags
    dead,           \* PlayerState::isDead
    accepted,       \* PeerState::lastAcceptedInputSequence
    connection,     \* the peer's: Connected, Silent at an old socket, or Recoverable
    inputs,         \* InputCommands on the network
    snapshots,      \* PlayerSnapshots on the network, in the order they were made
    response,       \* a JoinResponse or JoinRoomResponse on the network
    unsent,         \* the broadcast of the player's joining its room, if not made yet
    announced,      \* PlayerJoined packets of the player on the network
    joined,         \* isJoined_
    currentRoom,    \* currentRoomId_
    predicted,      \* localPlayerPrediction_, NoPlace before it is initialized
    pending,        \* pendingInputList_
    valid,          \* isHistoryValid_
    predictionOn,   \* predictionEnabled_
    reconciliationOn,   \* reconciliationEnabled_
    latest,         \* the last sample of the own player's interpolation buffer
    shownDead,      \* isDead of the own player in playerTable_
    update,         \* where the update thread is in ClientRuntime::Update
    resets,         \* positions the receive thread has yet to reset the prediction to
    events,         \* deaths, room changes, recoveries and switches so far
    settled         \* ghost: of the inputs sent before the history started over, or
                    \* processed according to a snapshot handled since, the last

app == <<stage, config, stride>>
peer == <<place, room, held, dead, connection>>
server == <<peer, accepted>>
broadcasts == <<unsent, announced>>
network == <<inputs, snapshots, response, broadcasts>>
prediction == <<predicted, pending, valid>>
switches == <<predictionOn, reconciliationOn>>
shown == <<latest, shownDead>>
threads == <<update, resets>>
world == <<joined, currentRoom, prediction, switches, shown>>
vars == <<app, server, network, world, threads, events, settled>>

\* Older than every input that is under way or pending; sequence 0 is.
Long == MaxAge + 1
Older(age) == IF age = Long THEN Long ELSE age + 1

Happens == events < MaxEvents /\ events' = events + 1

Idle == [phase |-> "Idle", ticks |-> 0, keys |-> {}]

Ages == 0 .. Long
Inputs == [age : 0 .. Long - 1, keys : KeySets]

\* PlayerJoinedPacket
Joinings == [room : Room, place : Place]

TypeOK ==
    /\ stage \in {"Loading", "Configured", "Running"}
    /\ stride \in Nat /\ place \in Place /\ room \in Room
    /\ held \in KeySets /\ update.keys \in KeySets
    /\ {dead, joined, valid, predictionOn, reconciliationOn, shownDead} \subseteq BOOLEAN
    /\ {accepted, settled} \subseteq Ages
    /\ connection \in {"Connected", "Silent", "Recoverable"}
    /\ inputs \subseteq Inputs /\ Range(pending) \subseteq Inputs
    /\ Len(pending) <= MaxPendingInputs /\ Len(snapshots) <= MaxSnapshots /\ Len(resets) <= 2
    /\ unsent \cup announced \subseteq Joinings
    /\ currentRoom \in Room \cup {NoRoom}
    /\ {predicted, latest} \subseteq Place \cup {NoPlace}
    /\ update.phase \in {"Idle", "Restarting", "Ticks", "Sent"}
    /\ update.ticks \in 0 .. MaxTicksPerUpdate

Init ==
    /\ stage = "Loading" /\ config = <<>> /\ stride = 0
    /\ room = InitialRoom /\ place \in SpawnsOf[room] /\ held = {} /\ dead = FALSE
    /\ accepted = Long
    /\ connection = "Connected"
    /\ inputs = {} /\ snapshots = <<>> /\ response = NoResponse
    /\ unsent = {[room |-> room, place |-> place]} /\ announced = {}
    /\ joined = FALSE /\ currentRoom = NoRoom
    /\ predicted = NoPlace /\ pending = <<>> /\ valid = TRUE
    /\ predictionOn = TRUE /\ reconciliationOn = TRUE
    /\ latest = NoPlace /\ shownDead = FALSE
    /\ update = Idle /\ resets = <<>>
    /\ events = 0
    /\ settled = Long

-----------------------------------------------------------------------------
(* GameClientApp::Run *)

Configure ==
    /\ stage = "Loading"
    /\ stage' = "Configured"
    /\ \E file \in Files, address \in Addresses, port \in Ports :
          config' = BuildClientConfig(file, address, port)
    /\ UNCHANGED <<events, stride, server, network, world, threads, settled>>

\* The settings are in use from here on; the server has answered the login.
StartRuntime ==
    /\ stage = "Configured"
    /\ config.simulation.deltaSeconds \in Deltas
    /\ stage' = "Running"
    /\ config' = <<>>
    /\ stride' = MoveDistance(config.simulation.deltaSeconds)
    /\ UNCHANGED <<events, server, network, world, threads, settled>>

-----------------------------------------------------------------------------
(* The history of the inputs sent *)

\* Where every step leads.
Steps ==
    [r \in Room |-> [distance \in Distances |-> [keys \in KeySets |-> [position \in Place |->
        MovePlayerWithWallCollision(position, keys, distance, WallsOf[r])]]]]

\* LocalPlayerPrediction::ApplyInput
Step(position, keys, distance, r) == Steps[r][distance][keys][position]

\* LocalPlayerReconciliation::Clear
ClearHistory ==
    /\ pending' = <<>>
    /\ valid' = TRUE
    /\ settled' = 0

\* LocalPlayerPrediction::Reset and LocalPlayerReconciliation::Clear
StartOver(position) ==
    /\ predicted' = position
    /\ ClearHistory

\* Mutant: a full history drops its oldest input and stays valid.
RecordPendingInputDropping(input) ==
    /\ pending' = IF Len(pending) >= MaxPendingInputs THEN Append(Tail(pending), input)
                  ELSE Append(pending, input)
    /\ valid' = valid

RecordPendingInput(input) ==
    LET isFull == valid /\ Len(pending) >= MaxPendingInputs
    IN  /\ valid' = (valid /\ ~ isFull)
        /\ pending' = CASE isFull -> <<>>
                        [] valid /\ ~ isFull -> Append(pending, input)
                        [] OTHER -> pending

\* What follows the last processed input, from the first that is newer.
Unprocessed(lastProcessed) ==
    LET kept == {k \in DOMAIN pending : pending[k].age < lastProcessed}
    IN  IF kept = {} THEN <<>> ELSE SubSeq(pending, Min(kept), Len(pending))

DiscardProcessedInputs(lastProcessed) ==
    /\ pending' = Unprocessed(lastProcessed)
    /\ settled' = IF lastProcessed < settled THEN lastProcessed ELSE settled

IsNear(position) ==
    predicted # NoPlace
    /\ LengthSquared(position, predicted) <= IgnoreDistance * IgnoreDistance

Replayed(position, list) ==
    LET after[k \in 0 .. Len(list)] ==
            IF k = 0 THEN position ELSE Step(after[k - 1], list[k].keys, stride, currentRoom)
    IN  after[Len(list)]

\* Reconcile
Reconcile(s) ==
    \/ ~ valid /\ StartOver(s.place)
    \/ /\ valid
       /\ UNCHANGED valid
       /\ DiscardProcessedInputs(s.processed)
       /\ \E reconciled \in {Replayed(s.place, pending')} :
             predicted' = IF IsNear(reconciled) THEN predicted ELSE reconciled

-----------------------------------------------------------------------------
(* The update thread: ClientRuntime::Update *)

Running == stage = "Running" /\ update.phase = "Idle"

\* localPlayerId_ is set: the first JoinResponse does, and initializes the prediction.
IsKnown == predicted # NoPlace

\* TryTogglePrediction: TogglePredictionEnabled
TogglePrediction ==
    /\ Happens
    /\ Running
    /\ predictionOn' = ~ predictionOn
    /\ ClearHistory
    /\ predicted' = IF ~ predictionOn /\ IsKnown /\ latest # NoPlace THEN latest ELSE predicted
    /\ UNCHANGED <<app, server, network, joined, currentRoom, reconciliationOn, shown,
                   threads>>

\* TryToggleReconciliation: ToggleReconciliationEnabled
ToggleReconciliation ==
    /\ Happens
    /\ Running
    /\ reconciliationOn' = ~ reconciliationOn
    /\ UNCHANGED <<app, server, network, joined, currentRoom, prediction, predictionOn, shown,
                   threads, settled>>

\* TryBeginRecovery: BeginRecovery ...
BeginRecovery ==
    /\ Happens
    /\ Running /\ joined
    /\ joined' = FALSE
    /\ ClearHistory
    /\ update' = [Idle EXCEPT !.phase = "Restarting"]
    /\ UNCHANGED <<app, server, network, currentRoom, predicted, switches, shown, resets>>

\* ... and RestartTransport, which waits for the receive thread.  The server has
\* the peer at the old socket; what is under way from there may still arrive.
RestartTransport ==
    /\ update.phase = "Restarting" /\ resets = <<>>
    /\ update' = Idle
    /\ connection' = IF connection = "Connected" THEN "Silent" ELSE connection
    /\ snapshots' = <<>> /\ response' = NoResponse /\ announced' = {}
    /\ UNCHANGED <<events, app, place, room, held, dead, accepted, inputs, unsent,
                   world,
                   resets, settled>>

\* One pass of Update: the keys, and whether the player is dead, are looked at once
\* for all the ticks that are due.
BeginTicks(ticks, keys) ==
    /\ Running /\ joined /\ ~ shownDead
    /\ update' = [phase |-> "Ticks", ticks |-> ticks, keys |-> keys]
    /\ UNCHANGED <<events, app, server, network, world, resets, settled>>

\* SendInputCommand; every other sequence number gets older.
SendInput ==
    /\ update.phase = "Ticks" /\ update.ticks > 0
    /\ update' = [update EXCEPT !.phase = "Sent", !.ticks = @ - 1]
    /\ inputs' = {[i EXCEPT !.age = @ + 1] : i \in {j \in inputs : j.age < MaxLag}}
                 \cup {[age |-> 0, keys |-> update.keys]}
    /\ accepted' = Older(accepted)
    /\ snapshots' = [k \in DOMAIN snapshots |-> [snapshots[k] EXCEPT !.processed = Older(@)]]
    /\ pending' = [k \in DOMAIN pending |-> [pending[k] EXCEPT !.age = @ + 1]]
    /\ settled' = Older(settled)
    /\ UNCHANGED <<events, app, peer, response, broadcasts, joined, currentRoom, predicted,
                   valid,
                   switches, shown, resets>>

\* ApplyLocalPredictionTick for the input just sent
ApplyLocalPredictionTick ==
    /\ update.phase = "Sent"
    /\ update' = IF update.ticks > 0 THEN [update EXCEPT !.phase = "Ticks"] ELSE Idle
    /\ \/ /\ joined /\ predictionOn /\ predicted # NoPlace /\ ~ shownDead
          /\ RecordPendingInput([age |-> 0, keys |-> update.keys])
          /\ predicted' = Step(predicted, update.keys, stride, currentRoom)
       \/ /\ ~ joined \/ ~ predictionOn \/ predicted = NoPlace \/ shownDead
          /\ UNCHANGED prediction
    /\ UNCHANGED <<events, app, server, network, joined, currentRoom, switches, shown,
                   resets, settled>>

-----------------------------------------------------------------------------
(* The receive thread; it handles one packet at a time *)

CanReceive == stage = "Running" /\ resets = <<>>

\* Mutant: what is of another room is taken as well.
IsOfAnyRoom(r) == r \in Room

IsOfThisRoom(r) == currentRoom \in {NoRoom, r}

\* HandleJoinResponse begins with TrySetJoinState.
HandleJoinResponse ==
    /\ CanReceive /\ response # NoResponse /\ response.type = "Join" /\ ~ joined
    /\ joined' = TRUE
    /\ currentRoom' = response.room
    /\ StartOver(response.place)
    /\ resets' = <<response.place>>
    /\ response' = NoResponse
    /\ UNCHANGED <<events, app, server, inputs, snapshots, broadcasts, switches, shown,
                   update>>

\* HandleJoinRoomResponse begins with SetCurrentRoomId.
HandleJoinRoomResponse ==
    /\ CanReceive /\ response # NoResponse /\ response.type = "JoinRoom"
    /\ currentRoom' = response.room
    /\ resets' = <<response.place, response.place>>
    /\ response' = NoResponse
    /\ UNCHANGED <<events, app, server, inputs, snapshots, broadcasts, joined, prediction,
                   switches,
                   shown, update, settled>>

\* ResetLocalPlayerPrediction and ApplyPlayerJoinedEvent for the own player
ResetPrediction ==
    /\ resets # <<>>
    /\ StartOver(Head(resets))
    /\ latest' = Head(resets)
    /\ resets' = Tail(resets)
    /\ UNCHANGED <<events, app, server, network, joined, currentRoom, switches, shownDead,
                   update>>

\* The last sample after PushSample, which drops one that is older: a snapshot's is
\* as old as its tick, a PlayerJoined's as its arrival.
Pushed(position) == {latest, position} \ {NoPlace}

\* HandlePlayerJoined for the own player: ApplyPlayerJoinedEvent
HandlePlayerJoined(a) ==
    /\ CanReceive /\ IsOfThisRoom(a.room)
    /\ latest' \in Pushed(a.place)
    /\ \/ IsKnown /\ StartOver(a.place)
       \/ ~ IsKnown /\ UNCHANGED <<prediction, settled>>
    /\ UNCHANGED <<events, app, server, network, joined, currentRoom, switches, shownDead,
                   threads>>

\* ApplyPlayerSnapshot, and so is every older one lost.
HandlePlayerSnapshot(k) ==
    LET s == snapshots[k] IN
    /\ CanReceive /\ IsOfThisRoom(s.room)
    /\ snapshots' = SubSeq(snapshots, k + 1, Len(snapshots))
    /\ UNCHANGED <<threads, events, app, server, inputs, response, broadcasts, joined,
                   switches>>
    /\ currentRoom' = s.room
    /\ shownDead' = s.dead
    /\ latest' \in (IF s.dead # shownDead THEN {s.place} ELSE Pushed(s.place))
    /\ CASE ~ IsKnown -> UNCHANGED <<prediction, settled>>
         [] IsKnown /\ s.dead # shownDead -> StartOver(s.place)
         [] IsKnown /\ s.dead = shownDead /\ ~ predictionOn ->
                ClearHistory /\ UNCHANGED predicted
         [] IsKnown /\ s.dead = shownDead /\ predictionOn /\ ~ reconciliationOn ->
                DiscardProcessedInputs(s.processed) /\ UNCHANGED <<predicted, valid>>
         [] OTHER -> Reconcile(s)

-----------------------------------------------------------------------------
(* The server *)

\* ProcessInputCommand and ApplyInputCommand, which does not look at the connection.
\* What is older than an accepted input will be refused.
AcceptInput(i) ==
    /\ i \in inputs
    /\ ~ dead /\ i.age < accepted
    /\ accepted' = i.age
    /\ held' = i.keys
    /\ inputs' = {j \in inputs : j.age < i.age}
    /\ UNCHANGED <<events, app, place, room, dead, connection, snapshots, response,
                   broadcasts, world, threads, settled>>

\* UpdatePlayers
ServerDistance == MoveDistance(ServerDelta)
Moved == IF dead THEN place ELSE Step(place, held, ServerDistance, room)

\* Mutant: a player that has not moved is left out, as what was sent last still holds.
WithSnapshotOfMoved(position, isDead) ==
    IF position = place THEN snapshots
    ELSE Append(IF Len(snapshots) < MaxSnapshots THEN snapshots ELSE Tail(snapshots),
                [place |-> position, room |-> room, dead |-> isDead, processed |-> accepted])

WithSnapshot(position, isDead) ==
    Append(IF Len(snapshots) < MaxSnapshots THEN snapshots ELSE Tail(snapshots),
           [place |-> position, room |-> room, dead |-> isDead, processed |-> accepted])

\* UpdateGameTick: UpdatePlayers, UpdateBullets, CommitProcessedInputSequences,
\* UpdateRespawns and BroadcastSnapshots.  The snapshots are built under a second
\* lock: an input accepted in between is not in them, and a room change in between
\* is as good as one before the tick.  What a snapshot says is processed is what its
\* tick has committed, the input accepted last.  A full network loses the oldest.
Tick ==
    /\ stage = "Running"
    /\ UNCHANGED <<threads, app, room, accepted, connection, inputs, response, broadcasts,
                   world, settled>>
    /\ \/ place' = Moved /\ UNCHANGED <<held, dead, events>>
       \/ ~ dead /\ Happens /\ dead' = TRUE /\ place' = Moved /\ held' = {}
       \/ dead /\ dead' = FALSE /\ place' \in SpawnsOf[room] /\ held' = {}
          /\ UNCHANGED events
    /\ snapshots' = IF connection = "Connected" THEN WithSnapshot(place', dead') ELSE snapshots

\* MarkTimedOutPeersRecoverable
MarkRecoverable ==
    /\ connection = "Silent"
    /\ connection' = "Recoverable"
    /\ held' = {}
    /\ UNCHANGED <<events, app, place, room, dead, accepted, network, world, threads,
                   settled>>

\* JoinAuthenticatedPeer for a request of the present socket: a recoverable peer is
\* moved there (RebindRecoverablePeer), what the old one sent is of no peer any more.
AnswerJoin ==
    /\ stage = "Running" /\ ~ joined /\ update.phase # "Restarting"
    /\ connection # "Silent"
    /\ connection' = "Connected"
    /\ inputs' = IF connection = "Recoverable" THEN {} ELSE inputs
    /\ response' = [type |-> "Join", room |-> room, place |-> place]
    /\ UNCHANGED <<events, app, place, room, held, dead, accepted, snapshots,
                   broadcasts,
                   world, threads, settled>>

\* ProcessJoinRoomRequest: ChangePeerRoom.  The broadcasts of the last change have
\* been made, so that no PlayerLeft of the player is sent to itself.
ChangeRoom(to, position) ==
    /\ Happens
    /\ joined /\ connection = "Connected" /\ response = NoResponse /\ resets = <<>>
    /\ currentRoom = room /\ unsent = {}
    /\ ~ dead /\ to # room
    /\ room' = to
    /\ position \in SpawnsOf[to]
    /\ place' = position
    /\ held' = {}
    /\ response' = [type |-> "JoinRoom", room |-> to, place |-> position]
    /\ unsent' = {[room |-> to, place |-> position]}
    /\ UNCHANGED <<app, dead, connection, accepted, inputs, snapshots, announced,
                   world,
                   threads, settled>>

\* To who is in the room and connected by then.
BroadcastPlayerJoined ==
    /\ stage = "Running" /\ unsent # {}
    /\ unsent' = {}
    /\ announced' = IF connection = "Connected" THEN announced \cup unsent ELSE announced
    /\ UNCHANGED <<events, app, server, inputs, snapshots, response, world, threads, settled>>

LosePlayerJoined(a) ==
    /\ announced' = announced \ {a}
    /\ UNCHANGED <<events, app, server, inputs, snapshots, response, unsent, world, threads,
                   settled>>

-----------------------------------------------------------------------------
UpdateThread ==
    \/ TogglePrediction \/ ToggleReconciliation
    \/ BeginRecovery \/ RestartTransport
    \/ \E ticks \in 1 .. MaxTicksPerUpdate, keys \in KeySets : BeginTicks(ticks, keys)
    \/ SendInput \/ ApplyLocalPredictionTick

ReceiveThread ==
    \/ HandleJoinResponse \/ HandleJoinRoomResponse \/ ResetPrediction
    \/ \E a \in announced : HandlePlayerJoined(a)
    \/ \E k \in DOMAIN snapshots : HandlePlayerSnapshot(k)

Server ==
    \/ \E i \in inputs : AcceptInput(i)
    \/ Tick \/ MarkRecoverable \/ AnswerJoin
    \/ \E to \in Room : \E position \in SpawnsOf[to] : ChangeRoom(to, position)
    \/ BroadcastPlayerJoined

Next ==
    \/ Configure \/ StartRuntime
    \/ UpdateThread \/ ReceiveThread \/ Server
    \/ \E a \in announced : LosePlayerJoined(a)

\* The threads run; of the snapshots made again and again some arrive, and a
\* PlayerJoined, which is not sent again, is eventually lost.  Inputs need never
\* arrive.  Each action here changes what its subscript names, but for a tick that
\* changes nothing at all.
Fairness ==
    /\ WF_update(\/ \E ticks \in 1 .. MaxTicksPerUpdate, keys \in KeySets : BeginTicks(ticks, keys)
                 \/ SendInput \/ ApplyLocalPredictionTick)
    /\ WF_<<peer, snapshots>>(Tick)
    /\ WF_announced(\E a \in announced : LosePlayerJoined(a))
    /\ SF_<<resets, snapshots>>(ResetPrediction
                               \/ \E k \in DOMAIN snapshots : HandlePlayerSnapshot(k))

Spec == Init /\ [][Next]_vars /\ Fairness

-----------------------------------------------------------------------------
\* The client predicts, and its history is whole.
Predicts == joined /\ predictionOn /\ valid /\ ~ shownDead

\* The inputs a replay needs are there, each once and in order: those sent since the
\* history last started over that no snapshot handled since then counted as
\* processed, but for the one whose tick is under way.  A full history, a death, a
\* room change or a late PlayerJoined between sending and recording an input, and a
\* recovery or a switch between two updates, must not leave a gap.
PendingIsComplete ==
    TypeOK /\ (Predicts =>
        /\ \A a \in 0 .. MaxAge :
              (a < settled /\ ~ (a = 0 /\ update.phase = "Sent"))
                  => \E k \in DOMAIN pending : pending[k].age = a
        /\ \A k \in 1 .. Len(pending) - 1 : pending[k].age > pending[k + 1].age)

\* Neither the server nor the prediction has the player in a wall or out of the
\* world, though corrections, respawns, room changes and PlayerJoined packets of
\* joins long past put it elsewhere, unless a room change is half done at the client.
PlayersStayClear ==
    /\ IsClear(place, WallsOf[room])
    /\ predicted # NoPlace /\ resets = <<>> => IsClear(predicted, WallsOf[currentRoom])

\* Whatever the file and the command line say, the settings are usable when the
\* client starts with them, and nothing is left to correct.
ClientConfigIsUsable ==
    stage = "Configured" => Usable(config) /\ Validated(config) = config

IsClose == IsNear(place)

\* Once no key is held, and the player is alive and its room known, the prediction
\* comes to stay where the server has the player, whatever was lost, dropped from a
\* full history, thrown back by a late PlayerJoined, or predicted with another step.
PredictionSettles ==
    <>[](/\ joined /\ predictionOn /\ reconciliationOn /\ update.keys = {}
         /\ ~ dead /\ ~ shownDead /\ currentRoom = room)
        => <>[]IsClose
=============================================================================
