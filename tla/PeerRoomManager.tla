--------------------------- MODULE PeerRoomManager --------------------------
(***************************************************************************)
(* The operations of Server/Service/PeerRoomManager.cpp on its two tables: *)
(* peers, from the endpoint of a joined peer to its PeerState, and rooms,  *)
(* from a room to the endpoints of its members.  roomTable_ erases a room  *)
(* with its last member; here that room has no members.                    *)
(***************************************************************************)
EXTENDS Identities, Tables, Integers

PeerStates == [account : Account, token : Nat, player : Nat, room : Room,
               conn : {"Connected", "Recoverable"}]

NoRooms == [room \in Room |-> {}]

\* Mutant: a recoverable peer does not count as joined.
ConnectedPeersOf(peers, account) ==
    {e \in DOMAIN peers : peers[e].account = account /\ peers[e].conn = "Connected"}

JoinedPeersOf(peers, account) == {e \in DOMAIN peers : peers[e].account = account}

RecoverablePeersWith(peers, token) ==
    {e \in DOMAIN peers : peers[e].conn = "Recoverable" /\ peers[e].token = token}

InsertMember(rooms, room, endpoint) ==
    [r \in Room |-> IF r = room THEN rooms[r] \cup {endpoint} ELSE rooms[r]]

RemoveMembers(rooms, endpoints) == [r \in Room |-> rooms[r] \ endpoints]

SetConnection(peers, endpoints, conn) ==
    [e \in DOMAIN peers |->
        IF e \in endpoints THEN [peers[e] EXCEPT !.conn = conn] ELSE peers[e]]

\* Mutant: the recovering peer comes back as another player.
RebindPeerAnew(peers, previous, next) ==
    Put(Drop(peers, {previous}), next,
        [peers[previous] EXCEPT !.conn = "Connected", !.player = @ + 1])

\* RebindRecoverablePeer: the peer keeps everything but its endpoint.
RebindPeer(peers, previous, next) ==
    Put(Drop(peers, {previous}), next, [peers[previous] EXCEPT !.conn = "Connected"])

RebindMember(rooms, room, previous, next) ==
    InsertMember(RemoveMembers(rooms, {previous}), room, next)

MovePeer(peers, endpoint, room) ==
    Put(peers, endpoint, [peers[endpoint] EXCEPT !.room = room])

MoveMember(rooms, endpoint, room) ==
    InsertMember(RemoveMembers(rooms, {endpoint}), room, endpoint)
=============================================================================
