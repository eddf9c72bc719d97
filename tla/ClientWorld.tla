---------------------------- MODULE ClientWorld ----------------------------
(***************************************************************************)
(* What a client shows of the room it is in: Client/Game/ClientWorld.cpp   *)
(* and the handlers of Client/Net/UdpClient.cpp, against the peers and the *)
(* broadcasts of Server/Net/UdpServer.cpp.                                 *)
(*                                                                         *)
(* A room change is answered by a reliable JoinRoomResponse.  Each of them *)
(* is handled once, in any order, or never, when it cannot be built or is  *)
(* given up.  PlayerJoined and PlayerLeft are unreliable: they stay on the *)
(* network until they are lost, so that they come late, repeatedly and in  *)
(* any order, when the room they are about has long changed.               *)
(* Snapshots are unreliable too, but carry the tick they were made in.     *)
(* Ticks are compared only, so the network keeps snapshots in their order: *)
(* one that is handled after a newer one is ignored, and so leaves the     *)
(* network with it.                                                        *)
(*                                                                         *)
(* The client has one receive thread, so that each handler is one step.    *)
(* On another socket a client hears nothing until the server has moved its *)
(* peer there, which ClientConnection models.  Positions are left out.     *)
(***************************************************************************)
EXTENDS Integers, FiniteSets, Sequences, SequencesExt

CONSTANTS
    Room,
    Other,          \* the other players
    Me,             \* localPlayerId_, the player of this client's peer
    MaxPlayers,     \* maxPlayersPerSnapshot
    MaxSnapshots,   \* bound: snapshots on the network
    MaxResponses,   \* the send window of the server's session
    MaxEvents       \* bound: a player moves only while fewer announcements are under way

NoRoom == "NoRoom"    \* 0

ASSUME WorldAssumption ==
    /\ Me \notin Other /\ NoRoom \notin Room
    /\ {MaxPlayers, MaxSnapshots, MaxEvents} \subseteq Nat \ {0}
    /\ MaxResponses \in Nat

Player == Other \cup {Me}

VARIABLES
    rooms,          \* the room of each player at the server
    reachable,      \* the server has this client's peer at its present socket
    unsent,         \* broadcasts of players moved, not made yet
    events,         \* PlayerJoined and PlayerLeft on the network
    responses,      \* JoinRoomResponses under way, in the order of the changes
    snapshots,      \* PlayerSnapshots on the network, newer than lastServerTick_
    isJoined,       \* isJoined_
    currentRoom,    \* currentRoomId_
    players,        \* playerTable_
    word            \* ghost: what became of the last word on the own room

serverSide == <<rooms, reachable, unsent>>
network == <<events, responses, snapshots>>
world == <<isJoined, currentRoom, players>>
worldVars == <<serverSide, network, world, word>>

\* A player that is in no room is not on the server.
Places == Room \cup {NoRoom}

\* PlayerJoinedPacket and PlayerLeftPacket.
Announcements == [type : {"Joined", "Left"}, room : Room, player : Player]

\* PlayerSnapshotPacket
Snapshots == [room : Room, players : SUBSET Player]

WorldTypeOK ==
    /\ rooms \in [Player -> Places]
    /\ reachable \in BOOLEAN
    /\ unsent \subseteq Announcements /\ events \subseteq Announcements
    /\ responses \in BoundedSeq(Room, MaxResponses)
    /\ snapshots \in BoundedSeq(Snapshots, MaxSnapshots)
    /\ isJoined \in BOOLEAN
    /\ currentRoom \in Places
    /\ players \subseteq Player
    /\ word \in {"Heard", "UnderWay", "Missed"}

\* The peer has joined a room; the client has not heard of it.
WorldInit ==
    /\ rooms \in {r \in [Player -> Places] : r[Me] # NoRoom /\ \A p \in Other : r[p] = NoRoom}
    /\ reachable = TRUE
    /\ unsent = {} /\ events = {} /\ responses = <<>> /\ snapshots = <<>>
    /\ isJoined = FALSE
    /\ currentRoom = NoRoom
    /\ players = {}
    /\ word = "Missed"

-----------------------------------------------------------------------------
(* The server *)

Members(room) == {p \in Player : rooms[p] = room}

\* FillPlayerSnapshotBase leaves out whom the packet has no place for.
Shown(room) ==
    {shown \in SUBSET Members(room) :
        Cardinality(shown) = IF Cardinality(Members(room)) > MaxPlayers
                             THEN MaxPlayers ELSE Cardinality(Members(room))}

\* A full network loses the oldest snapshot.
Remaining == IF Len(snapshots) < MaxSnapshots THEN snapshots ELSE Tail(snapshots)

\* UpdateGameTick ends with the snapshots of the new tick; a peer at an old socket
\* is sent them there.
Tick ==
    /\ reachable
    /\ \E shown \in Shown(rooms[Me]) :
          snapshots' = Append(Remaining, [room |-> rooms[Me], players |-> shown])
    /\ UNCHANGED <<serverSide, events, responses, world, word>>

\* What is broadcast when p goes from one room to another.
Announced(p, from, to) ==
    {[type |-> "Left", room |-> r, player |-> p] : r \in {from} \ {NoRoom}}
        \cup {[type |-> "Joined", room |-> r, player |-> p] : r \in {to} \ {NoRoom}}

CanAnnounce == Cardinality(unsent \cup events) < MaxEvents

\* Another player joins, changes its room, leaves or expires.
OtherMoves(p, to) ==
    /\ CanAnnounce
    /\ rooms[p] # to
    /\ rooms' = [rooms EXCEPT ![p] = to]
    /\ unsent' = unsent \cup Announced(p, rooms[p], to)
    /\ UNCHANGED <<reachable, network, world, word>>

\* BuildReliableJoinRoomResponse needs room in the window.
CanRespond == reachable /\ Len(responses) < MaxResponses

\* ProcessJoinRoomRequest: requests may come late, but on a new socket none comes
\* before the client has joined there.  Other packets may fill the window as well.
ChangeRoom(to) ==
    /\ CanAnnounce
    /\ reachable => isJoined
    /\ rooms[Me] # to
    /\ rooms' = [rooms EXCEPT ![Me] = to]
    /\ unsent' = unsent \cup Announced(Me, rooms[Me], to)
    /\ \/ CanRespond /\ responses' = Append(responses, to) /\ word' = "UnderWay"
       \/ word' = "Missed" /\ UNCHANGED responses
    /\ UNCHANGED <<reachable, events, snapshots, world>>

\* BroadcastPlayerJoined and BroadcastPlayerLeft: to who is in the room by then.
Broadcast(a) ==
    /\ a \in unsent
    /\ unsent' = unsent \ {a}
    /\ events' = IF reachable /\ rooms[Me] = a.room THEN events \cup {a} ELSE events
    /\ UNCHANGED <<rooms, reachable, responses, snapshots, world, word>>

\* RebindRecoverablePeer: the peer is moved to the present socket.
Rebind ==
    /\ ~ reachable
    /\ reachable' = TRUE
    /\ UNCHANGED <<rooms, unsent, network, world, word>>

-----------------------------------------------------------------------------
(* The client *)

\* HandleJoinResponse with TrySetJoinState; it is repeated until it arrives.
HandleJoinResponse ==
    /\ reachable /\ ~ isJoined
    /\ isJoined' = TRUE
    /\ currentRoom' = rooms[Me]
    /\ players' = players \cup {Me}
    /\ word' = "Heard"
    /\ UNCHANGED <<serverSide, network>>

\* BeginRecovery and RestartTransport: what was under way to the old socket is lost.
Recover ==
    /\ isJoined
    /\ isJoined' = FALSE
    /\ reachable' = FALSE
    /\ events' = {} /\ responses' = <<>> /\ snapshots' = <<>>
    /\ word' = "Missed"
    /\ UNCHANGED <<rooms, unsent, currentRoom, players>>

\* HandleJoinRoomResponse.  A response handled after a later one is out of date.
HandleJoinRoomResponse(i) ==
    /\ currentRoom' = responses[i]
    /\ players' = players \cup {Me}
    /\ responses' = RemoveAt(responses, i)
    /\ word' = CASE i = Len(responses) /\ word = "UnderWay" -> "Heard"
                 [] word = "Heard" -> "Missed"
                 [] OTHER -> word
    /\ UNCHANGED <<serverSide, events, snapshots, isJoined>>

\* The server gives a response up after its last resend.
GiveUpResponse(i) ==
    /\ responses' = RemoveAt(responses, i)
    /\ word' = IF i = Len(responses) /\ word = "UnderWay" THEN "Missed" ELSE word
    /\ UNCHANGED <<serverSide, events, snapshots, world>>

\* Mutant: what is of another room is taken as well.
IsOfAnyRoom(room) == room \in Room

IsOfThisRoom(room) == currentRoom \in {NoRoom, room}

\* HandlePlayerJoined and HandlePlayerLeft
HandleAnnouncement(a) ==
    /\ a \in events
    /\ IsOfThisRoom(a.room)
    /\ players' = IF a.type = "Joined" THEN players \cup {a.player} ELSE players \ {a.player}
    /\ UNCHANGED <<serverSide, network, isJoined, currentRoom, word>>

LoseAnnouncement(a) ==
    /\ a \in events
    /\ events' = events \ {a}
    /\ UNCHANGED <<serverSide, responses, snapshots, world, word>>

\* Mutant: who is not in the snapshot stays.
AddPlayers(s) == players \cup s.players

\* The table after a snapshot: players that are not in it are erased.
ReplacePlayers(s) == s.players

\* ApplyPlayerSnapshot, and so is every older one ignored (IsSequenceNewer).
HandlePlayerSnapshot(k) ==
    /\ IsOfThisRoom(snapshots[k].room)
    /\ currentRoom' = snapshots[k].room
    /\ players' = ReplacePlayers(snapshots[k])
    /\ snapshots' = SubSeq(snapshots, k + 1, Len(snapshots))
    /\ UNCHANGED <<serverSide, events, responses, isJoined, word>>

-----------------------------------------------------------------------------
WorldNext ==
    \/ Tick
    \/ \E p \in Other, to \in Places : OtherMoves(p, to)
    \/ \E to \in Room : ChangeRoom(to)
    \/ \E a \in unsent : Broadcast(a)
    \/ Rebind
    \/ HandleJoinResponse
    \/ Recover
    \/ \E i \in DOMAIN responses : HandleJoinRoomResponse(i) \/ GiveUpResponse(i)
    \/ \E a \in events : HandleAnnouncement(a) \/ LoseAnnouncement(a)
    \/ \E k \in DOMAIN snapshots : HandlePlayerSnapshot(k)

\* The server ticks and broadcasts.  Of the snapshots sent again and again some
\* arrive in time, and what is not sent again is eventually lost.
WorldFairness ==
    /\ WF_worldVars(Tick)
    /\ WF_worldVars(\E a \in unsent : Broadcast(a))
    /\ WF_worldVars(\E a \in events : LoseAnnouncement(a))
    /\ SF_worldVars(\E k \in DOMAIN snapshots : HandlePlayerSnapshot(k))

WorldSpec == WorldInit /\ [][WorldNext]_worldVars /\ WorldFairness

-----------------------------------------------------------------------------
\* After the last word on its room was handled, and until an older one is handled
\* late, the client is in the room in which the server has it, whatever snapshots
\* and announcements of other rooms arrive and however often it recovers.
RoomIsTheServers == word = "Heard" => currentRoom = rooms[Me]

\* Once nobody moves and the client has the last word on its room, it comes to
\* show exactly the members of its room, if a snapshot has a place for them all: an
\* announcement that comes when its player has moved on, or comes again, and a
\* snapshot of before do not leave a player missing or too much.
MembersAreShown ==
    LET members == Members(rooms[Me])
        IsTold == isJoined /\ word = "Heard" /\ Cardinality(members) <= MaxPlayers
    IN  <>[]IsTold /\ <>[][UNCHANGED rooms]_rooms => <>[](players = members)
=============================================================================
