------------------------------ MODULE UdpServer -----------------------------
(***************************************************************************)
(* The state of Server/Net/UdpServer.cpp that stateMutex_ protects and the *)
(* critical sections of its worker threads, its tick thread and its main   *)
(* thread.  One action is one critical section, with every call it makes.  *)
(*                                                                         *)
(* A worker locks twice or three times for one packet: to authenticate it, *)
(* to process the reliable header, and in the handler of its type; what it *)
(* carries from one lock to the next is `work`.  The phases of a tick may  *)
(* all do nothing, so they are actions of their own in any order.          *)
(*                                                                         *)
(* Time is a choice: which peers have been silent too long, whose grace    *)
(* period or login has expired, which resends are given up.                *)
(***************************************************************************)
EXTENDS PeerRoomManager, MatchHistoryTracker, FiniteSets

CONSTANTS
    Worker,
    InitialRoom,
    MaxPending,     \* reliableUdp.maxPendingPacketCount
    MaxToken,       \* bound: session tokens the server generates
    MaxPlayer,      \* bound: player ids the world allocates
    MaxBullets      \* bound: bullets in the world

ASSUME ServerAssumption ==
    /\ InitialRoom \in Room
    /\ MaxPending \in Nat \ {0}
    /\ MaxToken \in Nat
    /\ MaxPlayer \in Nat
    /\ MaxBullets \in Nat

VARIABLES
    registry,     \* authenticatedAccountRegistry_: logins that have not joined
    peers,        \* peerRoomManager_.peerTable_
    rooms,        \* peerRoomManager_.roomTable_
    players,      \* gameWorld_.playerTable_
    bullets,      \* gameWorld_'s bullets; bullets alike in all fields are one
    match,        \* matchHistoryTracker_.activeMatchTable_
    sessions,     \* reliableUdpSessionRegistry_.sessionTable_
    closing,      \* reliableUdpSessionRegistry_.closingEndpointSet_
    nextToken,    \* the next value of GenerateSessionToken, which never repeats
    nextPlayer,   \* gameWorld_.nextPlayerId_
    work          \* the packet each worker has in its hands

tables == <<registry, peers, rooms, players, bullets, match, sessions, closing>>
counters == <<nextToken, nextPlayer>>
vars == <<tables, counters, work>>

PacketKinds == {"Ack", "Leave", "JoinRoom", "Input", "Fire"}

\* IsReliablePacketType, and the packets that only carry an acknowledgement.
IsReliable(kind) == kind \in {"Ack", "Leave", "JoinRoom"}

Idle == [step |-> "Idle"]

Packets == [step : {"Process", "Handle"}, endpoint : Endpoint, kind : PacketKinds]

TypeOK ==
    /\ DOMAIN registry \subseteq Endpoint
    /\ \A e \in DOMAIN registry : registry[e] \in [account : Account, token : Nat]
    /\ DOMAIN peers \subseteq Endpoint
    /\ \A e \in DOMAIN peers : peers[e] \in PeerStates
    /\ rooms \in [Room -> SUBSET Endpoint]
    /\ DOMAIN players \subseteq Nat
    /\ \A p \in DOMAIN players : players[p] \in [dead : BOOLEAN, moving : BOOLEAN]
    /\ bullets \in SUBSET [player : Nat, account : Account, room : Room]
    /\ match \in Matches
    /\ DOMAIN sessions \subseteq Endpoint
    /\ \A e \in DOMAIN sessions : sessions[e] \in [token : Nat, pending : 0 .. MaxPending]
    /\ closing \in SUBSET Endpoint
    /\ nextToken \in Nat /\ nextPlayer \in Nat
    /\ work \in [Worker -> Packets \cup {Idle}]

Init ==
    /\ registry = EmptyTable
    /\ peers = EmptyTable
    /\ rooms = NoRooms
    /\ players = EmptyTable
    /\ bullets = {}
    /\ match = NoMatches
    /\ sessions = EmptyTable
    /\ closing = {}
    /\ nextToken = 1
    /\ nextPlayer = 1
    /\ work = [w \in Worker |-> Idle]

-----------------------------------------------------------------------------
\* The tables of the session registry.

\* Upsert: a session that was there loses its pending packets and its closing.
OpenSession(endpoint, token) ==
    /\ sessions' = Put(sessions, endpoint, [token |-> token, pending |-> 0])
    /\ closing' = closing \ {endpoint}

RemoveSessions(endpoints) ==
    /\ sessions' = Drop(sessions, endpoints)
    /\ closing' = closing \ endpoints

CanSend(endpoint) ==
    endpoint \in DOMAIN sessions /\ sessions[endpoint].pending < MaxPending

SetPending(endpoint, pending) ==
    Put(sessions, endpoint, [token |-> sessions[endpoint].token, pending |-> pending])

\* The last notice to a peer that is gone: its session closes once the notice
\* is acknowledged, or at once when the notice could not be built.
CloseSession(endpoint) ==
    IF CanSend(endpoint)
    THEN /\ sessions' = SetPending(endpoint, sessions[endpoint].pending + 1)
         /\ closing' = closing \cup {endpoint}
    ELSE RemoveSessions({endpoint})

\* Pending packets were acknowledged or given up; a closing session that has
\* none left is erased.
KeepPending(endpoint, pending) ==
    IF pending = 0 /\ endpoint \in closing
    THEN RemoveSessions({endpoint})
    ELSE /\ sessions' = SetPending(endpoint, pending)
         /\ UNCHANGED closing

-----------------------------------------------------------------------------
\* PeerSessionService: what a peer takes into the world and leaves in it.

HasPlayer(endpoint) == peers[endpoint].player \in DOMAIN players

\* ClearRoomTransientState of each room that was left without members.
BulletsLeft(left) == {b \in bullets : b.room \notin left \/ rooms'[b.room] # {}}

\* JoinPeer of a new peer, with what ProcessJoinRequest does for a joined one.
JoinPeer(endpoint, account, token) ==
    /\ nextPlayer <= MaxPlayer
    /\ peers' = Put(peers, endpoint,
                    [account |-> account, token |-> token, player |-> nextPlayer,
                     room |-> InitialRoom, conn |-> "Connected"])
    /\ rooms' = InsertMember(RemoveMembers(rooms, {endpoint}), InitialRoom, endpoint)
    /\ players' = Put(players, nextPlayer, [dead |-> FALSE, moving |-> FALSE])
    /\ nextPlayer' = nextPlayer + 1
    /\ registry' = Drop(registry, {endpoint})
    /\ match' = EnterPlayer(match, InitialRoom, account)
    /\ OpenSession(endpoint, token)

\* Mutant: the player stays in the world.
LeavePeerOnly(endpoint) ==
    LET peer == peers[endpoint]
    IN  /\ peers' = Drop(peers, {endpoint})
        /\ rooms' = RemoveMembers(rooms, {endpoint})
        /\ bullets' = BulletsLeft({peer.room})
        /\ match' = LeavePlayer(match, peer.room, peer.account)
        /\ UNCHANGED players

\* LeavePeer and the match history's LeavePlayer.
LeavePeer(endpoint) ==
    LET peer == peers[endpoint]
    IN  /\ peers' = Drop(peers, {endpoint})
        /\ rooms' = RemoveMembers(rooms, {endpoint})
        /\ players' = Drop(players, {peer.player})
        /\ bullets' = BulletsLeft({peer.room})
        /\ match' = LeavePlayer(match, peer.room, peer.account)

-----------------------------------------------------------------------------
\* The tick thread.

\* AccountLoginAdmissionService::Apply for a login the database has accepted.
\* Every refusal leaves the tables alone.
LoginExistingSession(endpoint, account) ==
    /\ endpoint \in DOMAIN peers
    /\ peers[endpoint].account = account
    /\ registry' = Drop(registry, {endpoint})
    /\ UNCHANGED <<peers, rooms, players, bullets, match, sessions, closing, counters, work>>

LoginAuthenticated(endpoint, account) ==
    /\ endpoint \notin DOMAIN peers
    /\ JoinedPeersOf(peers, account) = {}
    /\ \A e \in DOMAIN registry : e = endpoint <=> registry[e].account = account
    /\ nextToken <= MaxToken
    /\ registry' = Put(registry, endpoint, [account |-> account, token |-> nextToken])
    /\ nextToken' = nextToken + 1
    /\ UNCHANGED <<peers, rooms, players, bullets, match, sessions, closing, nextPlayer, work>>

\* UpdateBullets: a bullet ends its life or meets a wall.
BulletEnds(bullet) ==
    /\ bullet \in bullets
    /\ bullets' = bullets \ {bullet}
    /\ UNCHANGED <<registry, peers, rooms, players, match, sessions, closing, counters, work>>

CanHit(bullet, endpoint) ==
    /\ peers[endpoint].player # bullet.player
    /\ peers[endpoint].room = bullet.room
    /\ HasPlayer(endpoint)
    /\ ~ players[peers[endpoint].player].dead

\* UpdateBullets and RecordKills: the hit that takes the last of the victim's
\* hit points. (A hit that does not is a BulletEnds.)  The match history
\* counts the kill if it has the statistics of both; the counts are left out.
BulletKills(bullet, endpoint) ==
    /\ bullet \in bullets /\ endpoint \in DOMAIN peers
    /\ CanHit(bullet, endpoint)
    /\ players' = Put(players, peers[endpoint].player, [dead |-> TRUE, moving |-> FALSE])
    /\ bullets' = bullets \ {bullet}
    /\ UNCHANGED <<registry, peers, rooms, match, sessions, closing, counters, work>>

Respawn(player) ==
    /\ player \in DOMAIN players
    /\ players[player].dead
    /\ \E e \in DOMAIN peers : peers[e].player = player
    /\ players' = Put(players, player, [dead |-> FALSE, moving |-> FALSE])
    /\ UNCHANGED <<registry, peers, rooms, bullets, match, sessions, closing, counters, work>>

\* ProcessPeerTimeouts: the silent peers become recoverable and lose their
\* session; the peers whose grace period is over leave; old logins expire.
PeerTimeouts(silent, expired, stale) ==
    LET gonePlayers == {peers[e].player : e \in expired}
        silentPlayers == {peers[e].player : e \in silent}
    IN  /\ silent \subseteq DOMAIN peers
        /\ expired \subseteq DOMAIN peers
        /\ \A e \in silent : peers[e].conn = "Connected"
        /\ \A e \in expired : peers[e].conn = "Recoverable"
        /\ peers' = Drop(SetConnection(peers, silent, "Recoverable"), expired)
        /\ rooms' = RemoveMembers(rooms, expired)
        /\ players' = [p \in DOMAIN players \ gonePlayers |->
                         IF p \in silentPlayers
                         THEN [dead |-> players[p].dead, moving |-> FALSE]
                         ELSE players[p]]
        /\ bullets' = BulletsLeft({peers[e].room : e \in expired})
        /\ match' = LeavePlayers(match,
                        [r \in Room |->
                            {peers[e].account : e \in {x \in expired : peers[x].room = r}}])
        /\ registry' = Drop(registry, stale)
        /\ RemoveSessions(silent)
        /\ UNCHANGED <<counters, work>>

\* ExtractResendBatch gives up the oldest packets of a session.
GiveUpResends(endpoint, pending) ==
    /\ endpoint \in DOMAIN sessions
    /\ pending < sessions[endpoint].pending
    /\ KeepPending(endpoint, pending)
    /\ UNCHANGED <<registry, peers, rooms, players, bullets, match, counters, work>>

-----------------------------------------------------------------------------
\* The worker threads.

\* ProcessJoinRequest, by the case JoinAuthenticatedPeer finds.

\* A first join with the token of a login of the same endpoint.
JoinAuthenticated(endpoint) ==
    /\ endpoint \notin DOMAIN peers
    /\ endpoint \in DOMAIN registry
    /\ RecoverablePeersWith(peers, registry[endpoint].token) = {}
    /\ JoinPeer(endpoint, registry[endpoint].account, registry[endpoint].token)
    /\ UNCHANGED <<bullets, nextToken, work>>

\* A repeated request of a connected peer: it is answered again, or the peer
\* starts over if the world has lost its player.
JoinAgain(endpoint) ==
    /\ endpoint \in DOMAIN peers
    /\ peers[endpoint].conn = "Connected"
    /\ IF HasPlayer(endpoint)
       THEN UNCHANGED vars
       ELSE /\ JoinPeer(endpoint, peers[endpoint].account, peers[endpoint].token)
            /\ UNCHANGED <<bullets, nextToken, work>>

\* The request of a recoverable peer, from its old endpoint or a new one,
\* with its token.
JoinRecovers(previous, endpoint) ==
    /\ previous \in DOMAIN peers
    /\ peers[previous].conn = "Recoverable"
    /\ HasPlayer(previous)
    /\ previous # endpoint =>
          /\ endpoint \notin DOMAIN peers
          /\ previous \in rooms[peers[previous].room]
          /\ endpoint \notin rooms[peers[previous].room]
    /\ peers' = RebindPeer(peers, previous, endpoint)
    /\ rooms' = RebindMember(rooms, peers[previous].room, previous, endpoint)
    /\ OpenSession(endpoint, peers[previous].token)
    /\ UNCHANGED <<registry, players, bullets, match, counters, work>>

\* AuthenticateIncomingPacket accepts a packet of the session's client.
Authenticate(w, endpoint, kind) ==
    /\ work[w] = Idle
    /\ endpoint \in DOMAIN sessions
    /\ work' = [work EXCEPT ![w] =
                  [step     |-> IF IsReliable(kind) THEN "Process" ELSE "Handle",
                   endpoint |-> endpoint,
                   kind     |-> kind]]
    /\ UNCHANGED <<tables, counters>>

Done(w) == work' = [work EXCEPT ![w] = Idle]

\* DispatchReliablePacket: the header acknowledges some pending packets, and
\* the data, if it is new, goes on to its handler.
ProcessReliable(w, pending, isNewData) ==
    LET packet == work[w]
    IN  /\ packet.step = "Process"
        /\ IF packet.endpoint \notin DOMAIN sessions
           THEN Done(w) /\ UNCHANGED tables
           ELSE /\ pending <= sessions[packet.endpoint].pending
                /\ KeepPending(packet.endpoint, pending)
                /\ IF isNewData /\ packet.kind # "Ack"
                   THEN work' = [work EXCEPT ![w].step = "Handle"]
                   ELSE Done(w)
                /\ UNCHANGED <<registry, peers, rooms, players, bullets, match>>
        /\ UNCHANGED counters

Handles(w, kind) == work[w].step = "Handle" /\ work[w].kind = kind

\* The peer whose living player the handler of worker w may command.
Commands(w) ==
    LET endpoint == work[w].endpoint
    IN  /\ endpoint \in DOMAIN peers
        /\ HasPlayer(endpoint)
        /\ ~ players[peers[endpoint].player].dead

HandleLeave(w) ==
    LET endpoint == work[w].endpoint
    IN  /\ Handles(w, "Leave")
        /\ Done(w)
        /\ IF endpoint \in DOMAIN peers
           THEN LeavePeer(endpoint) /\ CloseSession(endpoint) /\ UNCHANGED registry
           ELSE UNCHANGED tables
        /\ UNCHANGED counters

\* ProcessJoinRoomRequest; the response takes a place in the send window.
HandleJoinRoom(w, room) ==
    LET endpoint == work[w].endpoint
        peer == peers[endpoint]
    IN  /\ Handles(w, "JoinRoom")
        /\ Done(w)
        /\ IF Commands(w) /\ peer.room # room
           THEN /\ peers' = MovePeer(peers, endpoint, room)
                /\ rooms' = MoveMember(rooms, endpoint, room)
                /\ players' = Put(players, peer.player, [dead |-> FALSE, moving |-> FALSE])
                /\ bullets' = BulletsLeft({peer.room})
                /\ match' = EnterPlayer(LeavePlayer(match, peer.room, peer.account),
                                        room, peer.account)
                /\ sessions' = IF CanSend(endpoint)
                               THEN SetPending(endpoint, sessions[endpoint].pending + 1)
                               ELSE sessions
                /\ UNCHANGED <<registry, closing>>
           ELSE UNCHANGED tables
        /\ UNCHANGED counters

\* ApplyInputCommand of a sequence newer than the last, or of an older one.
HandleInput(w, isNewer, moving) ==
    /\ Handles(w, "Input")
    /\ Done(w)
    /\ players' = IF Commands(w) /\ isNewer
                  THEN Put(players, peers[work[w].endpoint].player,
                           [dead |-> FALSE, moving |-> moving])
                  ELSE players
    /\ UNCHANGED <<registry, peers, rooms, bullets, match, sessions, closing, counters>>

\* FireBullet, unless the weapon is cooling down.
HandleFire(w, isCooledDown) ==
    LET peer == peers[work[w].endpoint]
        bullet == [player |-> peer.player, account |-> peer.account, room |-> peer.room]
    IN  /\ Handles(w, "Fire")
        /\ Done(w)
        /\ bullets' = IF Commands(w) /\ isCooledDown /\ Cardinality(bullets) < MaxBullets
                      THEN bullets \cup {bullet}
                      ELSE bullets
        /\ UNCHANGED <<registry, peers, rooms, players, match, sessions, closing, counters>>

-----------------------------------------------------------------------------
\* The main thread.

\* KickPlayer, from the administrator's console.
Kick(endpoint) ==
    /\ endpoint \in DOMAIN peers
    /\ LeavePeer(endpoint)
    /\ CloseSession(endpoint)
    /\ UNCHANGED <<registry, counters, work>>

\* Stop, after the tick thread and the workers are joined, and a later Start.
Stop ==
    /\ \A w \in Worker : work[w] = Idle
    /\ registry' = EmptyTable
    /\ peers' = EmptyTable
    /\ rooms' = NoRooms
    /\ players' = EmptyTable
    /\ bullets' = {}
    /\ match' = NoMatches
    /\ sessions' = EmptyTable
    /\ closing' = {}
    /\ nextPlayer' = 1
    /\ UNCHANGED <<nextToken, work>>

Tick ==
    \/ \E e \in Endpoint, a \in Account : LoginExistingSession(e, a) \/ LoginAuthenticated(e, a)
    \/ \E b \in bullets : BulletEnds(b)
    \/ \E b \in bullets, e \in DOMAIN peers : BulletKills(b, e)
    \/ \E p \in DOMAIN players : Respawn(p)
    \/ \E silent, expired \in SUBSET DOMAIN peers, stale \in SUBSET DOMAIN registry :
          PeerTimeouts(silent, expired, stale)
    \/ \E e \in DOMAIN sessions, n \in 0 .. MaxPending : GiveUpResends(e, n)

Handler(w) ==
    \/ \E e \in Endpoint, kind \in PacketKinds : Authenticate(w, e, kind)
    \/ \E n \in 0 .. MaxPending, isNewData \in BOOLEAN : ProcessReliable(w, n, isNewData)
    \/ HandleLeave(w)
    \/ \E room \in Room : HandleJoinRoom(w, room)
    \/ \E isNewer, moving \in BOOLEAN : HandleInput(w, isNewer, moving)
    \/ \E isCooledDown \in BOOLEAN : HandleFire(w, isCooledDown)

Join ==
    \/ \E e \in Endpoint : JoinAuthenticated(e) \/ JoinAgain(e)
    \/ \E e, previous \in Endpoint : JoinRecovers(previous, e)

Next ==
    \/ Tick
    \/ Join
    \/ \E w \in Worker : Handler(w)
    \/ \E e \in DOMAIN peers : Kick(e)
    \/ Stop

Spec == Init /\ [][Next]_vars

-----------------------------------------------------------------------------
\* An account is logged in at one place only: it waits at one endpoint or
\* plays at one endpoint, never both, whatever the order of logins, joins,
\* timeouts and recoveries (the AlreadyLoggedIn answers of Apply).
AccountsLogInOnce ==
    /\ TypeOK
    /\ \A e, f \in DOMAIN peers : peers[e].account = peers[f].account => e = f
    /\ \A e, f \in DOMAIN registry : registry[e].account = registry[f].account => e = f
    /\ \A e \in DOMAIN peers, f \in DOMAIN registry : peers[e].account # registry[f].account

\* The room index is the peer table grouped by room: no broadcast reaches a
\* peer that left, and no member is forgotten.
RoomsFollowPeers ==
    \A r \in Room : rooms[r] = {e \in DOMAIN peers : peers[e].room = r}

\* The world has exactly one player for every peer: no orphan keeps moving
\* after its peer is gone, and no peer plays another's player.
PlayersFollowPeers ==
    /\ DOMAIN players = {peers[e].player : e \in DOMAIN peers}
    /\ \A e, f \in DOMAIN peers : peers[e].player = peers[f].player => e = f
    /\ \A e \in DOMAIN peers : peers[e].player < nextPlayer

\* The active players of a room's match are the accounts of its members, so
\* that "Failed to enter/leave ... match history" is never logged, and a room
\* nobody is in has no match.
MatchesHaveTheirPlayers ==
    \A r \in Room :
        /\ match[r].active = {peers[e].account : e \in {x \in DOMAIN peers : peers[x].room = r}}
        /\ match[r].active \subseteq match[r].stats
        /\ match[r].active = {} => match[r].stats = {}

\* Any bullet that can kill a peer is of a player the room's match knows, even
\* when its owner has left the room since: "Some kill events could not be
\* recorded in match history" is never logged.
KillsAreRecordable ==
    \A b \in bullets, e \in DOMAIN peers :
        CanHit(b, e) => CanRecordKill(match, b.room, b.account, peers[e].account)

\* A connected peer has the session of its own token; a recoverable peer has
\* none; the only other sessions are those closing after the peer is gone,
\* and these still have a notice to deliver.
SessionsFollowPeers ==
    /\ DOMAIN sessions = {e \in DOMAIN peers : peers[e].conn = "Connected"} \cup closing
    /\ closing \cap DOMAIN peers = {}
    /\ \A e \in DOMAIN peers \cap DOMAIN sessions : sessions[e].token = peers[e].token
    /\ \A e \in closing : sessions[e].pending > 0

\* The tables that a join, a recovery and a leave must change together agree
\* after every critical section.
TablesFollowPeers == RoomsFollowPeers /\ PlayersFollowPeers /\ SessionsFollowPeers

\* The match history knows who is in a room, and who can be killed there by whom.
MatchesFollowPeers == MatchesHaveTheirPlayers /\ KillsAreRecordable

\* A token belongs to one player of one account from the join to the leave:
\* a recovery, from whatever endpoint, finds the same player again.
TokensKeepTheirPlayer ==
    [][\A e \in DOMAIN peers, f \in DOMAIN peers' :
          peers[e].token = peers'[f].token =>
             /\ peers[e].account = peers'[f].account
             /\ peers[e].player = peers'[f].player]_vars
=============================================================================
