-------------------------- MODULE UdpServer_proofs --------------------------
(***************************************************************************)
(* Proofs about the tables of the server, for any number of endpoints,     *)
(* accounts, rooms and workers.                                            *)
(***************************************************************************)
EXTENDS UdpServer, TLAPS

\* A token belongs to one login or to one peer, and every token there is was
\* generated before the next.
TokensApart ==
    /\ \A e, f \in DOMAIN peers : peers[e].token = peers[f].token => e = f
    /\ \A e, f \in DOMAIN registry : registry[e].token = registry[f].token => e = f
    /\ \A e \in DOMAIN peers, f \in DOMAIN registry : peers[e].token # registry[f].token
    /\ \A e \in DOMAIN peers : peers[e].token < nextToken
    /\ \A e \in DOMAIN registry : registry[e].token < nextToken

AccountsApart ==
    /\ \A e, f \in DOMAIN peers : peers[e].account = peers[f].account => e = f
    /\ \A e, f \in DOMAIN registry : registry[e].account = registry[f].account => e = f
    /\ \A e \in DOMAIN peers, f \in DOMAIN registry : peers[e].account # registry[f].account

\* A bullet flies in a room that has members, and whose match knows its owner.
BulletsHaveTheirMatch ==
    \A b \in bullets : rooms[b.room] # {} /\ b.account \in match[b.room].stats

\* The inductive invariant, by the tables that each part relates to the peers.
LoginsFit ==
    /\ DOMAIN registry \subseteq Endpoint
    /\ \A e \in DOMAIN registry : registry[e] \in [account : Account, token : Nat]
    /\ DOMAIN peers \subseteq Endpoint
    /\ \A e \in DOMAIN peers : peers[e] \in PeerStates
    /\ nextToken \in Nat
    /\ AccountsApart
    /\ TokensApart

RoomsFit ==
    /\ rooms \in [Room -> SUBSET Endpoint]
    /\ RoomsFollowPeers

PlayersFit ==
    /\ DOMAIN players \subseteq Nat
    /\ \A p \in DOMAIN players : players[p] \in [dead : BOOLEAN, moving : BOOLEAN]
    /\ nextPlayer \in Nat
    /\ PlayersFollowPeers

SessionsFit ==
    /\ DOMAIN sessions \subseteq Endpoint
    /\ \A e \in DOMAIN sessions : sessions[e] \in [token : Nat, pending : 0 .. MaxPending]
    /\ closing \in SUBSET Endpoint
    /\ SessionsFollowPeers

MatchesFit ==
    /\ bullets \in SUBSET [player : Nat, account : Account, room : Room]
    /\ match \in Matches
    /\ MatchesHaveTheirPlayers
    /\ BulletsHaveTheirMatch

WorkFits == work \in [Worker -> Packets \cup {Idle}]

TablesFit == LoginsFit /\ RoomsFit /\ PlayersFit /\ SessionsFit /\ MatchesFit

IInv == TablesFit /\ WorkFits

-----------------------------------------------------------------------------
\* Who is in a match and who has statistics in it, after some have left.
LEMMA LeaveFacts ==
  ASSUME NEW table \in Matches, NEW gone \in [Room -> SUBSET Account],
         \A r \in Room : table[r].active = {} => table[r].stats = {}
  PROVE  /\ LeavePlayers(table, gone) \in Matches
         /\ \A r \in Room : LeavePlayers(table, gone)[r].active = table[r].active \ gone[r]
         /\ \A r \in Room : LeavePlayers(table, gone)[r].stats
              = IF table[r].active \ gone[r] = {} THEN {} ELSE table[r].stats
  BY DEF LeavePlayers, NoMatch, Matches

LEMMA EnterFacts ==
  ASSUME NEW table \in Matches, NEW room \in Room, NEW account \in Account,
         account \notin table[room].active
  PROVE  /\ EnterPlayer(table, room, account) \in Matches
         /\ \A r \in Room : r # room => EnterPlayer(table, room, account)[r] = table[r]
         /\ EnterPlayer(table, room, account)[room].active = table[room].active \cup {account}
         /\ EnterPlayer(table, room, account)[room].stats = table[room].stats \cup {account}
  BY DEF EnterPlayer, Matches

\* The operators on the sessions.

LEMMA OpenSessionFacts ==
  ASSUME SessionsFit, NEW endpoint \in Endpoint, NEW token \in Nat,
         OpenSession(endpoint, token)
  PROVE  /\ DOMAIN sessions' = DOMAIN sessions \cup {endpoint}
         /\ \A e \in DOMAIN sessions' : sessions'[e] \in [token : Nat, pending : 0 .. MaxPending]
         /\ sessions'[endpoint].token = token
         /\ \A e \in DOMAIN sessions : e # endpoint => sessions'[e] = sessions[e]
         /\ closing' = closing \ {endpoint}
  <1>1. [token |-> token, pending |-> 0] \in [token : Nat, pending : 0 .. MaxPending]
    BY ServerAssumption
  <1>2. sessions' = Put(sessions, endpoint, [token |-> token, pending |-> 0])
    BY DEF OpenSession
  <1> QED
    BY <1>1, <1>2 DEF OpenSession, SessionsFit, Put

LEMMA RemoveSessionsFacts ==
  ASSUME SessionsFit, NEW endpoints, RemoveSessions(endpoints)
  PROVE  /\ DOMAIN sessions' = DOMAIN sessions \ endpoints
         /\ \A e \in DOMAIN sessions' : sessions'[e] = sessions[e]
         /\ closing' = closing \ endpoints
  BY DEF RemoveSessions, Drop, Restrict

LEMMA SetPendingFacts ==
  ASSUME SessionsFit, NEW endpoint \in DOMAIN sessions, NEW pending \in 0 .. MaxPending,
         sessions' = SetPending(endpoint, pending)
  PROVE  /\ DOMAIN sessions' = DOMAIN sessions
         /\ \A e \in DOMAIN sessions' : sessions'[e] \in [token : Nat, pending : 0 .. MaxPending]
         /\ \A e \in DOMAIN sessions' : sessions'[e].token = sessions[e].token
         /\ sessions'[endpoint].pending = pending
         /\ \A e \in DOMAIN sessions : e # endpoint => sessions'[e] = sessions[e]
  <1>1. [token |-> sessions[endpoint].token, pending |-> pending]
          \in [token : Nat, pending : 0 .. MaxPending]
    BY DEF SessionsFit
  <1>2. sessions' = Put(sessions, endpoint,
                        [token |-> sessions[endpoint].token, pending |-> pending])
    BY DEF SetPending
  <1> QED
    BY <1>1, <1>2 DEF SessionsFit, Put

\* The peer at the endpoint is gone: its session goes too, or closes.
LEMMA CloseSessionFits ==
  ASSUME SessionsFit, NEW endpoint \in DOMAIN peers, CloseSession(endpoint),
         DOMAIN peers' = DOMAIN peers \ {endpoint},
         \A e \in DOMAIN peers' : peers'[e] = peers[e], DOMAIN peers \subseteq Endpoint
  PROVE  SessionsFit'
  <1>1. CASE CanSend(endpoint)
    <2>1. /\ endpoint \in DOMAIN sessions
          /\ sessions[endpoint].pending + 1 \in 0 .. MaxPending
          /\ sessions[endpoint].pending + 1 > 0
      BY <1>1, ServerAssumption DEF CanSend, SessionsFit
    <2>2. /\ sessions' = SetPending(endpoint, sessions[endpoint].pending + 1)
          /\ closing' = closing \cup {endpoint}
      BY <1>1 DEF CloseSession
    <2>3. PICK n \in 0 .. MaxPending : n = sessions[endpoint].pending + 1
      BY <2>1
    <2>4. /\ DOMAIN sessions' = DOMAIN sessions
          /\ \A e \in DOMAIN sessions' : sessions'[e] \in [token : Nat, pending : 0 .. MaxPending]
          /\ \A e \in DOMAIN sessions' : sessions'[e].token = sessions[e].token
          /\ sessions'[endpoint].pending = n
          /\ \A e \in DOMAIN sessions : e # endpoint => sessions'[e] = sessions[e]
      BY <2>1, <2>2, <2>3, SetPendingFacts
    <2>5. \A e : e \in DOMAIN sessions'
                   <=> \/ e \in DOMAIN peers' /\ peers'[e].conn = "Connected"
                       \/ e \in closing'
      BY <2>1, <2>2, <2>4 DEF SessionsFit, SessionsFollowPeers
    <2>6. closing' \cap DOMAIN peers' = {}
      BY <2>2 DEF SessionsFit, SessionsFollowPeers
    <2>7. \A e \in DOMAIN peers' \cap DOMAIN sessions' : sessions'[e].token = peers'[e].token
      BY <2>4 DEF SessionsFit, SessionsFollowPeers
    <2>8. \A e \in closing' : sessions'[e].pending > 0
      BY <2>1, <2>2, <2>3, <2>4 DEF SessionsFit, SessionsFollowPeers
    <2>9. DOMAIN sessions' \subseteq Endpoint /\ closing' \in SUBSET Endpoint
      BY <2>2, <2>4 DEF SessionsFit
    <2> QED
      BY <2>4, <2>5, <2>6, <2>7, <2>8, <2>9 DEF SessionsFit, SessionsFollowPeers
  <1>2. CASE ~ CanSend(endpoint)
    <2>1. RemoveSessions({endpoint})
      BY <1>2 DEF CloseSession
    <2>2. /\ DOMAIN sessions' = DOMAIN sessions \ {endpoint}
          /\ \A e \in DOMAIN sessions' : sessions'[e] = sessions[e]
          /\ closing' = closing \ {endpoint}
      BY <2>1, RemoveSessionsFacts
    <2> QED
      BY <2>2 DEF SessionsFit, SessionsFollowPeers
  <1> QED
    BY <1>1, <1>2

\* Fewer packets are pending.
LEMMA KeepPendingFits ==
  ASSUME SessionsFit, NEW endpoint \in DOMAIN sessions, NEW pending \in 0 .. MaxPending,
         KeepPending(endpoint, pending), UNCHANGED peers
  PROVE  SessionsFit'
  <1>1. CASE pending = 0 /\ endpoint \in closing
    <2>1. RemoveSessions({endpoint})
      BY <1>1 DEF KeepPending
    <2>2. /\ DOMAIN sessions' = DOMAIN sessions \ {endpoint}
          /\ \A e \in DOMAIN sessions' : sessions'[e] = sessions[e]
          /\ closing' = closing \ {endpoint}
      BY <2>1, RemoveSessionsFacts
    <2> QED
      BY <1>1, <2>2 DEF SessionsFit, SessionsFollowPeers
  <1>2. CASE ~ (pending = 0 /\ endpoint \in closing)
    <2>1. sessions' = SetPending(endpoint, pending) /\ closing' = closing
      BY <1>2 DEF KeepPending
    <2>2. /\ DOMAIN sessions' = DOMAIN sessions
          /\ \A e \in DOMAIN sessions' : sessions'[e] \in [token : Nat, pending : 0 .. MaxPending]
          /\ \A e \in DOMAIN sessions' : sessions'[e].token = sessions[e].token
          /\ sessions'[endpoint].pending = pending
          /\ \A e \in DOMAIN sessions : e # endpoint => sessions'[e] = sessions[e]
      BY <2>1, SetPendingFacts
    <2> QED
      BY <1>2, <2>1, <2>2 DEF SessionsFit, SessionsFollowPeers
  <1> QED
    BY <1>1, <1>2

-----------------------------------------------------------------------------
\* Peers leave, one with LeavePeer or several at a time-out.

\* The peers at the endpoints of gone leave; the others keep what they are.
PeersLeave(gone) ==
    /\ DOMAIN peers' = DOMAIN peers \ gone
    /\ \A e \in DOMAIN peers' :
          /\ peers'[e] \in PeerStates
          /\ peers'[e].account = peers[e].account
          /\ peers'[e].token = peers[e].token
          /\ peers'[e].player = peers[e].player
          /\ peers'[e].room = peers[e].room

LoginsLeave ==
    /\ DOMAIN registry' \subseteq DOMAIN registry
    /\ \A e \in DOMAIN registry' : registry'[e] = registry[e]

\* A peer after the step was a peer before it, with the same account and the
\* same player, or has a token that no peer had.
PeersKept ==
    \A f \in DOMAIN peers' :
        \/ \E d \in DOMAIN peers : /\ peers'[f].token = peers[d].token
                                  /\ peers'[f].account = peers[d].account
                                  /\ peers'[f].player = peers[d].player
        \/ \A e \in DOMAIN peers : peers[e].token # peers'[f].token

LEMMA LeavingLogins ==
  ASSUME LoginsFit, NEW gone, PeersLeave(gone), LoginsLeave, UNCHANGED nextToken
  PROVE  LoginsFit'
  <1>1. AccountsApart'
    BY DEF LoginsFit, AccountsApart, PeersLeave, LoginsLeave
  <1>2. TokensApart'
    BY DEF LoginsFit, TokensApart, PeersLeave, LoginsLeave
  <1>3. /\ (DOMAIN registry \subseteq Endpoint)' /\ (nextToken \in Nat)'
        /\ (DOMAIN peers \subseteq Endpoint)'
    BY DEF LoginsFit, PeersLeave, LoginsLeave
  <1>4. \A e \in DOMAIN registry' : registry'[e] \in [account : Account, token : Nat]
    BY DEF LoginsFit, LoginsLeave
  <1>5. \A e \in DOMAIN peers' : peers'[e] \in PeerStates
    BY DEF PeersLeave
  <1> QED
    BY <1>1, <1>2, <1>3, <1>4, <1>5 DEF LoginsFit

LEMMA LeavingPeers ==
  ASSUME NEW gone, PeersLeave(gone)
  PROVE  PeersKept
  BY DEF PeersLeave, PeersKept

LEMMA LeavingRooms ==
  ASSUME RoomsFit, NEW gone, PeersLeave(gone), rooms' = RemoveMembers(rooms, gone)
  PROVE  RoomsFit'
  <1>1. rooms' \in [Room -> SUBSET Endpoint] /\ \A r \in Room : rooms'[r] = rooms[r] \ gone
    BY DEF RoomsFit, RemoveMembers
  <1>2. ASSUME NEW r \in Room
        PROVE  rooms'[r] = {e \in DOMAIN peers' : peers'[e].room = r}
    BY <1>1 DEF RoomsFit, RoomsFollowPeers, PeersLeave
  <1> QED
    BY <1>1, <1>2 DEF RoomsFit, RoomsFollowPeers

LEMMA LeavingPlayers ==
  ASSUME PlayersFit, NEW gone \in SUBSET DOMAIN peers, PeersLeave(gone), UNCHANGED nextPlayer,
         DOMAIN players' = DOMAIN players \ {peers[e].player : e \in gone},
         \A p \in DOMAIN players' : players'[p] \in [dead : BOOLEAN, moving : BOOLEAN]
  PROVE  PlayersFit'
  <1>1. DOMAIN players' = {peers'[e].player : e \in DOMAIN peers'}
    BY DEF PlayersFit, PlayersFollowPeers, PeersLeave
  <1>2. /\ \A e, f \in DOMAIN peers' : peers'[e].player = peers'[f].player => e = f
        /\ \A e \in DOMAIN peers' : peers'[e].player < nextPlayer'
    BY DEF PlayersFit, PlayersFollowPeers, PeersLeave
  <1> QED
    BY <1>1, <1>2 DEF PlayersFit, PlayersFollowPeers

\* The matches of the rooms that lose their last member are over, and the
\* bullets in these rooms are gone.
LEMMA LeavingMatches ==
  ASSUME LoginsFit, RoomsFit, MatchesFit, RoomsFit',
         NEW gone \in SUBSET DOMAIN peers, PeersLeave(gone),
         NEW left, left = {peers[e].room : e \in gone},
         NEW accounts \in [Room -> SUBSET Account],
         \A r \in Room : accounts[r] = {peers[e].account : e \in {x \in gone : peers[x].room = r}},
         bullets' = BulletsLeft(left),
         match' = LeavePlayers(match, accounts)
  PROVE  MatchesFit'
  <1>1. match \in Matches /\ \A r \in Room : match[r].active = {} => match[r].stats = {}
    BY DEF MatchesFit, MatchesHaveTheirPlayers
  <1>2. /\ match' \in Matches
        /\ \A r \in Room : match'[r].active = match[r].active \ accounts[r]
        /\ \A r \in Room : match'[r].stats
             = IF match[r].active \ accounts[r] = {} THEN {} ELSE match[r].stats
    BY <1>1, LeaveFacts
  <1>3. ASSUME NEW r \in Room
        PROVE  match'[r].active
                 = {peers'[e].account : e \in {x \in DOMAIN peers' : peers'[x].room = r}}
    <2>1. match[r].active = {peers[e].account : e \in {x \in DOMAIN peers : peers[x].room = r}}
      BY DEF MatchesFit, MatchesHaveTheirPlayers
    <2>2. ASSUME NEW a \in match'[r].active
          PROVE  \E e \in DOMAIN peers' : peers'[e].room = r /\ peers'[e].account = a
      <3>1. a \in match[r].active /\ a \notin accounts[r]
        BY <1>2
      <3>2. PICK e \in DOMAIN peers : peers[e].room = r /\ peers[e].account = a
        BY <2>1, <3>1
      <3>3. e \notin gone
        BY <3>1, <3>2
      <3> QED
        BY <3>2, <3>3 DEF PeersLeave
    <2>3. ASSUME NEW e \in DOMAIN peers', peers'[e].room = r
          PROVE  peers'[e].account \in match'[r].active
      <3>1. e \in DOMAIN peers /\ e \notin gone
        BY DEF PeersLeave
      <3>2. peers[e].room = r /\ peers'[e].account = peers[e].account
        BY <2>3 DEF PeersLeave
      <3>3. peers[e].account \in match[r].active
        BY <2>1, <3>1, <3>2
      <3>4. peers[e].account \notin accounts[r]
        BY <3>1 DEF LoginsFit, AccountsApart
      <3> QED
        BY <1>2, <3>2, <3>3, <3>4
    <2> QED
      BY <2>2, <2>3
  <1>4. \A r \in Room : match'[r].active \subseteq match'[r].stats
                     /\ (match'[r].active = {} => match'[r].stats = {})
    BY <1>2 DEF MatchesFit, MatchesHaveTheirPlayers
  <1>5. bullets' \in SUBSET [player : Nat, account : Account, room : Room]
    BY DEF MatchesFit, BulletsLeft
  <1>6. ASSUME NEW b \in bullets'
        PROVE  rooms'[b.room] # {} /\ b.account \in match'[b.room].stats
    <2>1. b \in bullets /\ b.room \in Room /\ (b.room \in left => rooms'[b.room] # {})
      BY DEF MatchesFit, BulletsLeft
    <2>2. rooms[b.room] # {} /\ b.account \in match[b.room].stats
      BY <2>1 DEF MatchesFit, BulletsHaveTheirMatch
    <2>3. rooms'[b.room] # {}
      <3>1. CASE b.room \in left
        BY <2>1, <3>1
      <3>2. CASE b.room \notin left
        <4>1. PICK e \in DOMAIN peers : peers[e].room = b.room
          BY <2>1, <2>2 DEF RoomsFit, RoomsFollowPeers
        <4>2. e \in DOMAIN peers' /\ peers'[e].room = b.room
          BY <3>2, <4>1 DEF PeersLeave
        <4> QED
          BY <2>1, <4>2 DEF RoomsFit, RoomsFollowPeers
      <3> QED
        BY <3>1, <3>2
    <2>4. match'[b.room].active # {}
      <3>1. PICK e \in DOMAIN peers' : peers'[e].room = b.room
        BY <2>1, <2>3 DEF RoomsFit, RoomsFollowPeers
      <3> QED
        BY <1>3, <2>1, <3>1
    <2> QED
      BY <1>2, <2>1, <2>2, <2>3, <2>4
  <1> QED
    BY <1>2, <1>3, <1>4, <1>5, <1>6
    DEF MatchesFit, MatchesHaveTheirPlayers, BulletsHaveTheirMatch

\* What a step leaves alone fits as before.
LEMMA LoginsFrame == LoginsFit /\ UNCHANGED <<registry, peers, nextToken>> => LoginsFit'
  BY DEF LoginsFit, AccountsApart, TokensApart

LEMMA RoomsFrame == RoomsFit /\ UNCHANGED <<peers, rooms>> => RoomsFit'
  BY DEF RoomsFit, RoomsFollowPeers

LEMMA PlayersFrame == PlayersFit /\ UNCHANGED <<peers, players, nextPlayer>> => PlayersFit'
  BY DEF PlayersFit, PlayersFollowPeers

LEMMA SessionsFrame == SessionsFit /\ UNCHANGED <<peers, sessions, closing>> => SessionsFit'
  BY DEF SessionsFit, SessionsFollowPeers

LEMMA MatchesFrame == MatchesFit /\ UNCHANGED <<peers, rooms, match, bullets>> => MatchesFit'
  BY DEF MatchesFit, MatchesHaveTheirPlayers, BulletsHaveTheirMatch

LEMMA TablesFrame == TablesFit /\ UNCHANGED <<tables, counters>> => TablesFit'
  BY LoginsFrame, RoomsFrame, PlayersFrame, SessionsFrame, MatchesFrame
  DEF TablesFit, tables, counters

LEMMA LeavePeerFits ==
  ASSUME TablesFit, NEW endpoint \in DOMAIN peers, LeavePeer(endpoint), CloseSession(endpoint),
         UNCHANGED registry, UNCHANGED counters
  PROVE  TablesFit' /\ PeersKept
  <1> USE DEF TablesFit
  <1>1. peers[endpoint] \in PeerStates /\ DOMAIN peers \subseteq Endpoint
    BY DEF LoginsFit
  <1>2. /\ DOMAIN peers' = DOMAIN peers \ {endpoint}
        /\ \A e \in DOMAIN peers' : peers'[e] = peers[e]
    BY DEF LeavePeer, Drop, Restrict
  <1>3. PeersLeave({endpoint})
    BY <1>2 DEF PeersLeave, LoginsFit
  <1>4. LoginsFit'
    BY <1>3, LeavingLogins DEF LoginsLeave, counters
  <1>5. rooms' = RemoveMembers(rooms, {endpoint})
    BY DEF LeavePeer
  <1>6. RoomsFit'
    BY <1>3, <1>5, LeavingRooms
  <1>7. PlayersFit'
    <2>1. {peers[e].player : e \in {endpoint}} = {peers[endpoint].player}
      OBVIOUS
    <2>2. DOMAIN players' = DOMAIN players \ {peers[endpoint].player}
      BY DEF LeavePeer, Drop, Restrict
    <2>3. \A p \in DOMAIN players' : players'[p] \in [dead : BOOLEAN, moving : BOOLEAN]
      BY DEF LeavePeer, Drop, Restrict, PlayersFit
    <2> QED
      BY <1>3, <2>1, <2>2, <2>3, LeavingPlayers DEF counters
  <1>8. SessionsFit'
    BY <1>1, <1>2, CloseSessionFits
  <1>9. MatchesFit'
    <2> DEFINE accounts == [r \in Room |-> IF r = peers[endpoint].room
                                           THEN {peers[endpoint].account} ELSE {}]
    <2>1. accounts \in [Room -> SUBSET Account]
      BY <1>1 DEF PeerStates
    <2>2. \A r \in Room : accounts[r]
            = {peers[e].account : e \in {x \in {endpoint} : peers[x].room = r}}
      OBVIOUS
    <2>3. {peers[endpoint].room} = {peers[e].room : e \in {endpoint}}
      OBVIOUS
    <2>4. bullets' = BulletsLeft({peers[endpoint].room}) /\ match' = LeavePlayers(match, accounts)
      BY DEF LeavePeer, LeavePlayer
    <2> HIDE DEF accounts
    <2>5. {endpoint} \in SUBSET DOMAIN peers
      OBVIOUS
    <2> QED
      BY <1>3, <1>6, <2>1, <2>2, <2>3, <2>4, <2>5, LeavingMatches
  <1> QED
    BY <1>3, <1>4, <1>6, <1>7, <1>8, <1>9, LeavingPeers

LEMMA PeerTimeoutsFits ==
  ASSUME TablesFit, NEW silent, NEW expired, NEW stale, PeerTimeouts(silent, expired, stale)
  PROVE  TablesFit' /\ PeersKept
  <1> USE DEF TablesFit
  <1>1. /\ silent \subseteq DOMAIN peers /\ expired \subseteq DOMAIN peers
        /\ \A e \in silent : peers[e].conn = "Connected"
        /\ \A e \in expired : peers[e].conn = "Recoverable"
    BY DEF PeerTimeouts
  <1>2. \A e \in DOMAIN peers : peers[e] \in PeerStates
    BY DEF LoginsFit
  <1>3. /\ DOMAIN peers' = DOMAIN peers \ expired
        /\ \A e \in DOMAIN peers' : peers'[e]
             = IF e \in silent THEN [peers[e] EXCEPT !.conn = "Recoverable"] ELSE peers[e]
    BY DEF PeerTimeouts, Drop, Restrict, SetConnection
  <1>4. ASSUME NEW e \in DOMAIN peers'
        PROVE  /\ peers'[e] \in PeerStates
               /\ peers'[e].account = peers[e].account
               /\ peers'[e].token = peers[e].token
               /\ peers'[e].player = peers[e].player
               /\ peers'[e].room = peers[e].room
               /\ peers'[e].conn = IF e \in silent THEN "Recoverable" ELSE peers[e].conn
    <2>1. PICK peer \in PeerStates : peer = peers[e]
      BY <1>2, <1>3
    <2>2. peers'[e] = IF e \in silent THEN [peer EXCEPT !.conn = "Recoverable"] ELSE peer
      BY <1>3, <2>1
    <2>3. CASE e \in silent
      BY <2>1, <2>2, <2>3 DEF PeerStates
    <2>4. CASE e \notin silent
      BY <2>1, <2>2, <2>4
    <2> QED
      BY <2>3, <2>4
  <1>5. PeersLeave(expired)
    BY <1>3, <1>4 DEF PeersLeave
  <1>6. LoginsFit'
    <2>1. LoginsLeave
      BY DEF PeerTimeouts, Drop, Restrict, LoginsLeave
    <2> QED
      BY <1>5, <2>1, LeavingLogins DEF PeerTimeouts, counters
  <1>7. RoomsFit'
    <2>1. rooms' = RemoveMembers(rooms, expired)
      BY DEF PeerTimeouts
    <2> QED
      BY <1>5, <2>1, LeavingRooms
  <1>8. PlayersFit'
    <2>1. DOMAIN players' = DOMAIN players \ {peers[e].player : e \in expired}
      BY DEF PeerTimeouts
    <2>2. \A p \in DOMAIN players' : players'[p] \in [dead : BOOLEAN, moving : BOOLEAN]
      BY DEF PeerTimeouts, PlayersFit
    <2> QED
      BY <1>1, <1>5, <2>1, <2>2, LeavingPlayers DEF PeerTimeouts, counters
  <1>9. SessionsFit'
    <2>1. RemoveSessions(silent)
      BY DEF PeerTimeouts
    <2>2. /\ DOMAIN sessions' = DOMAIN sessions \ silent
          /\ \A e \in DOMAIN sessions' : sessions'[e] = sessions[e]
          /\ closing' = closing \ silent
      BY <2>1, RemoveSessionsFacts
    <2>3. \A e : e \in DOMAIN sessions' <=> \/ e \in DOMAIN peers' /\ peers'[e].conn = "Connected"
                                            \/ e \in closing'
      BY <1>1, <1>3, <1>4, <2>2 DEF SessionsFit, SessionsFollowPeers
    <2>4. closing' \cap DOMAIN peers' = {}
      BY <1>3, <2>2 DEF SessionsFit, SessionsFollowPeers
    <2>5. \A e \in DOMAIN peers' \cap DOMAIN sessions' : sessions'[e].token = peers'[e].token
      BY <1>5, <2>2 DEF SessionsFit, SessionsFollowPeers, PeersLeave
    <2> QED
      BY <2>2, <2>3, <2>4, <2>5 DEF SessionsFit, SessionsFollowPeers
  <1>10. MatchesFit'
    <2> DEFINE accounts == [r \in Room |->
                              {peers[e].account : e \in {x \in expired : peers[x].room = r}}]
               left == {peers[e].room : e \in expired}
    <2>1. accounts \in [Room -> SUBSET Account]
      BY <1>1, <1>2 DEF PeerStates
    <2>2. \A r \in Room : accounts[r]
            = {peers[e].account : e \in {x \in expired : peers[x].room = r}}
      OBVIOUS
    <2>3. bullets' = BulletsLeft(left) /\ match' = LeavePlayers(match, accounts)
      BY DEF PeerTimeouts
    <2>4. left = {peers[e].room : e \in expired}
      OBVIOUS
    <2> HIDE DEF accounts, left
    <2> QED
      BY <1>1, <1>5, <1>7, <2>1, <2>2, <2>3, <2>4, LeavingMatches
  <1> QED
    BY <1>5, <1>6, <1>7, <1>8, <1>9, <1>10, LeavingPeers

-----------------------------------------------------------------------------
\* Peers join and come back.

\* The login that waits at the endpoint becomes a peer.
LEMMA JoinAuthenticatedFits ==
  ASSUME TablesFit, NEW endpoint \in Endpoint, JoinAuthenticated(endpoint)
  PROVE  TablesFit' /\ PeersKept
  <1> USE DEF TablesFit
  <1>1. PICK account \in Account, token \in Nat :
          account = registry[endpoint].account /\ token = registry[endpoint].token
    BY DEF LoginsFit, JoinAuthenticated
  <1>2. /\ endpoint \notin DOMAIN peers /\ endpoint \in DOMAIN registry
        /\ JoinPeer(endpoint, account, token)
        /\ UNCHANGED <<bullets, nextToken, work>>
    BY <1>1 DEF JoinAuthenticated
  <1>3. PICK peer : peer = [account |-> account, token |-> token, player |-> nextPlayer,
                            room |-> InitialRoom, conn |-> "Connected"]
    OBVIOUS
  <1>4. /\ peer \in PeerStates /\ peer.account = account /\ peer.token = token
        /\ peer.player = nextPlayer /\ peer.room = InitialRoom /\ peer.conn = "Connected"
    BY <1>3, ServerAssumption DEF PeerStates, PlayersFit
  <1>5. /\ DOMAIN peers' = DOMAIN peers \cup {endpoint}
        /\ peers'[endpoint] = peer
        /\ \A e \in DOMAIN peers : peers'[e] = peers[e]
    BY <1>2, <1>3 DEF JoinPeer, Put
  <1>6. /\ DOMAIN registry' = DOMAIN registry \ {endpoint}
        /\ \A e \in DOMAIN registry' : registry'[e] = registry[e]
    BY <1>2 DEF JoinPeer, Drop, Restrict
  <1>7. LoginsFit'
    <2>1. AccountsApart'
      BY <1>1, <1>2, <1>4, <1>5, <1>6 DEF LoginsFit, AccountsApart
    <2>2. TokensApart'
      BY <1>1, <1>2, <1>4, <1>5, <1>6 DEF LoginsFit, TokensApart
    <2>3. (\A e \in DOMAIN registry : registry[e] \in [account : Account, token : Nat])'
      BY <1>6 DEF LoginsFit
    <2>4. (\A e \in DOMAIN peers : peers[e] \in PeerStates)'
      BY <1>4, <1>5 DEF LoginsFit
    <2> QED
      BY <1>2, <1>5, <1>6, <2>1, <2>2, <2>3, <2>4 DEF LoginsFit
  <1>8. RoomsFit'
    <2>1. /\ rooms' \in [Room -> SUBSET Endpoint]
          /\ \A r \in Room : rooms'[r] = IF r = InitialRoom THEN rooms[r] \cup {endpoint}
                                         ELSE rooms[r] \ {endpoint}
      BY <1>2 DEF JoinPeer, InsertMember, RemoveMembers, RoomsFit
    <2>2. ASSUME NEW r \in Room
          PROVE  rooms'[r] = {e \in DOMAIN peers' : peers'[e].room = r}
      BY <1>2, <1>4, <1>5, <2>1 DEF RoomsFit, RoomsFollowPeers
    <2> QED
      BY <2>1, <2>2 DEF RoomsFit, RoomsFollowPeers
  <1>9. PlayersFit'
    <2>1. /\ DOMAIN players' = DOMAIN players \cup {nextPlayer}
          /\ \A p \in DOMAIN players' : players'[p] \in [dead : BOOLEAN, moving : BOOLEAN]
          /\ nextPlayer' = nextPlayer + 1
      BY <1>2 DEF JoinPeer, Put, PlayersFit
    <2>2. DOMAIN players' = {peers'[e].player : e \in DOMAIN peers'}
      BY <1>2, <1>4, <1>5, <2>1 DEF PlayersFit, PlayersFollowPeers
    <2>3. \A e, f \in DOMAIN peers' : peers'[e].player = peers'[f].player => e = f
      BY <1>4, <1>5 DEF PlayersFit, PlayersFollowPeers
    <2>4. \A e \in DOMAIN peers : peers[e].player \in Nat
      BY DEF LoginsFit, PeerStates
    <2>5. \A e \in DOMAIN peers' : peers'[e].player < nextPlayer'
      BY <1>4, <1>5, <2>1, <2>4 DEF PlayersFit, PlayersFollowPeers
    <2>6. nextPlayer' \in Nat /\ DOMAIN players' \subseteq Nat
      BY <2>1 DEF PlayersFit
    <2> QED
      BY <2>1, <2>2, <2>3, <2>5, <2>6 DEF PlayersFit, PlayersFollowPeers
  <1>10. SessionsFit'
    <2>1. OpenSession(endpoint, token)
      BY <1>2 DEF JoinPeer
    <2>2. /\ DOMAIN sessions' = DOMAIN sessions \cup {endpoint}
          /\ \A e \in DOMAIN sessions' : sessions'[e] \in [token : Nat, pending : 0 .. MaxPending]
          /\ sessions'[endpoint].token = token
          /\ \A e \in DOMAIN sessions : e # endpoint => sessions'[e] = sessions[e]
          /\ closing' = closing \ {endpoint}
      BY <2>1, OpenSessionFacts
    <2>3. \A e : e \in DOMAIN sessions' <=> \/ e \in DOMAIN peers' /\ peers'[e].conn = "Connected"
                                            \/ e \in closing'
      BY <1>2, <1>4, <1>5, <2>2 DEF SessionsFit, SessionsFollowPeers
    <2>4. closing' \cap DOMAIN peers' = {}
      BY <1>5, <2>2 DEF SessionsFit, SessionsFollowPeers
    <2>5. \A e \in DOMAIN peers' \cap DOMAIN sessions' : sessions'[e].token = peers'[e].token
      BY <1>4, <1>5, <2>2 DEF SessionsFit, SessionsFollowPeers
    <2>6. \A e \in closing' : sessions'[e].pending > 0
      BY <2>2 DEF SessionsFit, SessionsFollowPeers
    <2>7. DOMAIN sessions' \subseteq Endpoint /\ closing' \in SUBSET Endpoint
      BY <2>2 DEF SessionsFit
    <2> QED
      BY <2>2, <2>3, <2>4, <2>5, <2>6, <2>7 DEF SessionsFit, SessionsFollowPeers
  <1>11. MatchesFit'
    <2>1. match' = EnterPlayer(match, InitialRoom, account)
      BY <1>2 DEF JoinPeer
    <2>2. match \in Matches /\ InitialRoom \in Room
      BY ServerAssumption DEF MatchesFit
    <2>3. account \notin match[InitialRoom].active
      BY <1>1, <1>2, <2>2 DEF MatchesFit, MatchesHaveTheirPlayers, LoginsFit, AccountsApart
    <2>4. /\ match' \in Matches
          /\ \A r \in Room : r # InitialRoom => match'[r] = match[r]
          /\ match'[InitialRoom].active = match[InitialRoom].active \cup {account}
          /\ match'[InitialRoom].stats = match[InitialRoom].stats \cup {account}
      BY <2>1, <2>2, <2>3, EnterFacts
    <2>5. ASSUME NEW r \in Room
          PROVE  match'[r].active
                   = {peers'[e].account : e \in {x \in DOMAIN peers' : peers'[x].room = r}}
      <3>1. match[r].active = {peers[e].account : e \in {x \in DOMAIN peers : peers[x].room = r}}
        BY DEF MatchesFit, MatchesHaveTheirPlayers
      <3> QED
        BY <1>2, <1>4, <1>5, <2>4, <3>1
    <2>6. \A r \in Room : match'[r].active \subseteq match'[r].stats
                       /\ (match'[r].active = {} => match'[r].stats = {})
      BY <2>4 DEF MatchesFit, MatchesHaveTheirPlayers
    <2>7. \A r \in Room : rooms[r] # {} => rooms'[r] # {}
      BY <1>2, <1>5, <1>8 DEF RoomsFit, RoomsFollowPeers
    <2>8. \A b \in bullets : rooms'[b.room] # {} /\ b.account \in match'[b.room].stats
      BY <2>4, <2>7 DEF MatchesFit, BulletsHaveTheirMatch
    <2> QED
      BY <1>2, <2>4, <2>5, <2>6, <2>8
      DEF MatchesFit, MatchesHaveTheirPlayers, BulletsHaveTheirMatch
  <1>12. PeersKept
    BY <1>1, <1>2, <1>4, <1>5 DEF LoginsFit, TokensApart, PeersKept
  <1> QED
    BY <1>7, <1>8, <1>9, <1>10, <1>11, <1>12

\* The world has the player of every peer, so that nobody starts over.
LEMMA JoinAgainChangesNothing ==
  ASSUME PlayersFit, NEW endpoint, JoinAgain(endpoint)
  PROVE  UNCHANGED vars
  BY DEF JoinAgain, HasPlayer, PlayersFit, PlayersFollowPeers

LEMMA Reconnected ==
  ASSUME NEW old \in PeerStates
  PROVE  \E peer \in PeerStates :
           /\ peer = [old EXCEPT !.conn = "Connected"]
           /\ peer.account = old.account /\ peer.token = old.token /\ peer.player = old.player
           /\ peer.room = old.room /\ peer.conn = "Connected"
  <1> DEFINE peer == [old EXCEPT !.conn = "Connected"]
  <1>1. /\ peer \in PeerStates
        /\ peer.account = old.account /\ peer.token = old.token /\ peer.player = old.player
        /\ peer.room = old.room /\ peer.conn = "Connected"
    BY DEF PeerStates
  <1> HIDE DEF peer
  <1> QED
    BY <1>1 DEF peer

LEMMA Moved ==
  ASSUME NEW old \in PeerStates, NEW room \in Room
  PROVE  \E peer \in PeerStates :
           /\ peer = [old EXCEPT !.room = room]
           /\ peer.account = old.account /\ peer.token = old.token /\ peer.player = old.player
           /\ peer.room = room /\ peer.conn = old.conn
  <1> DEFINE peer == [old EXCEPT !.room = room]
  <1>1. /\ peer \in PeerStates
        /\ peer.account = old.account /\ peer.token = old.token /\ peer.player = old.player
        /\ peer.room = room /\ peer.conn = old.conn
    BY DEF PeerStates
  <1> HIDE DEF peer
  <1>2. \E p \in PeerStates : p = peer
    BY <1>1
  <1> QED
    BY <1>1, <1>2 DEF peer

\* A recoverable peer is connected again, at its old endpoint or another one.
LEMMA JoinRecoversFits ==
  ASSUME TablesFit, NEW previous \in Endpoint, NEW endpoint \in Endpoint,
         JoinRecovers(previous, endpoint)
  PROVE  TablesFit' /\ PeersKept
  <1> USE DEF TablesFit
  <1>1. /\ previous \in DOMAIN peers
        /\ peers[previous].conn = "Recoverable"
        /\ endpoint = previous \/ endpoint \notin DOMAIN peers
        /\ UNCHANGED <<registry, players, bullets, match, nextToken, nextPlayer>>
    BY DEF JoinRecovers, counters
  <1>2. PICK old \in PeerStates : old = peers[previous]
    BY <1>1 DEF LoginsFit
  <1>3. PICK peer \in PeerStates :
          /\ peer = [old EXCEPT !.conn = "Connected"]
          /\ peer.account = old.account /\ peer.token = old.token /\ peer.player = old.player
          /\ peer.room = old.room /\ peer.conn = "Connected"
    BY Reconnected
  <1>4. /\ DOMAIN peers' = (DOMAIN peers \ {previous}) \cup {endpoint}
        /\ peers'[endpoint] = peer
        /\ \A e \in DOMAIN peers \ {previous} : e # endpoint => peers'[e] = peers[e]
    BY <1>2, <1>3 DEF JoinRecovers, RebindPeer, Put, Drop, Restrict
  <1>4a. peer.account = old.account /\ peer.token = old.token /\ peer.player = old.player
    BY <1>3
  <1>4b. peer.room = old.room /\ peer.conn = "Connected" /\ peer \in PeerStates
    BY <1>3
  <1> DEFINE from(e) == IF e = endpoint THEN previous ELSE e
  <1>5. /\ \A e \in DOMAIN peers' : from(e) \in DOMAIN peers
        /\ \A e, f \in DOMAIN peers' : from(e) = from(f) => e = f
        /\ \A d \in DOMAIN peers : \E e \in DOMAIN peers' : from(e) = d
    BY <1>1, <1>4
  <1>5a. \A e \in DOMAIN peers' :
          /\ peers'[e] \in PeerStates
          /\ peers'[e].account = peers[from(e)].account
          /\ peers'[e].token = peers[from(e)].token
          /\ peers'[e].player = peers[from(e)].player
          /\ peers'[e].room = peers[from(e)].room
    BY <1>1, <1>2, <1>4, <1>4a, <1>4b DEF LoginsFit
  <1>6. LoginsFit'
    <2> HIDE DEF from
    <2>1. AccountsApart'
      BY <1>1, <1>5, <1>5a DEF LoginsFit, AccountsApart
    <2>2. TokensApart'
      BY <1>1, <1>5, <1>5a DEF LoginsFit, TokensApart
    <2> QED
      BY <1>1, <1>4, <1>5a, <2>1, <2>2 DEF LoginsFit
  <1>7. RoomsFit'
    <2>1. /\ rooms' \in [Room -> SUBSET Endpoint]
          /\ \A r \in Room : rooms'[r] = IF r = old.room
                                         THEN (rooms[r] \ {previous}) \cup {endpoint}
                                         ELSE rooms[r] \ {previous}
      BY <1>2 DEF JoinRecovers, RebindMember, InsertMember, RemoveMembers, RoomsFit
    <2>2. ASSUME NEW r \in Room
          PROVE  rooms'[r] = {e \in DOMAIN peers' : peers'[e].room = r}
      BY <1>1, <1>2, <1>4, <1>4b, <2>1 DEF RoomsFit, RoomsFollowPeers
    <2> QED
      BY <2>1, <2>2 DEF RoomsFit, RoomsFollowPeers
  <1>8. PlayersFit'
    <2> HIDE DEF from
    <2>1. \A p : p \in DOMAIN players' <=> \E e \in DOMAIN peers' : peers'[e].player = p
      BY <1>1, <1>5, <1>5a DEF PlayersFit, PlayersFollowPeers
    <2>2. /\ \A e, f \in DOMAIN peers' : peers'[e].player = peers'[f].player => e = f
          /\ \A e \in DOMAIN peers' : peers'[e].player < nextPlayer'
      BY <1>1, <1>5, <1>5a DEF PlayersFit, PlayersFollowPeers
    <2>3. DOMAIN players' = {peers'[e].player : e \in DOMAIN peers'}
      BY <2>1
    <2> QED
      BY <1>1, <2>2, <2>3 DEF PlayersFit, PlayersFollowPeers
  <1>9. SessionsFit'
    <2>1. PICK token \in Nat : token = old.token
      BY DEF PeerStates
    <2>2. OpenSession(endpoint, token)
      BY <1>2, <2>1 DEF JoinRecovers
    <2>3. /\ DOMAIN sessions' = DOMAIN sessions \cup {endpoint}
          /\ \A e \in DOMAIN sessions' : sessions'[e] \in [token : Nat, pending : 0 .. MaxPending]
          /\ sessions'[endpoint].token = token
          /\ \A e \in DOMAIN sessions : e # endpoint => sessions'[e] = sessions[e]
          /\ closing' = closing \ {endpoint}
      BY <2>2, OpenSessionFacts
    <2>4. \A e : e \in DOMAIN sessions' <=> \/ e \in DOMAIN peers' /\ peers'[e].conn = "Connected"
                                            \/ e \in closing'
      BY <1>1, <1>4, <1>4b, <2>3 DEF SessionsFit, SessionsFollowPeers
    <2>5. closing' \cap DOMAIN peers' = {}
      BY <1>4, <2>3 DEF SessionsFit, SessionsFollowPeers
    <2>6. \A e \in DOMAIN peers' \cap DOMAIN sessions' : sessions'[e].token = peers'[e].token
      BY <1>1, <1>4, <1>4a, <2>1, <2>3 DEF SessionsFit, SessionsFollowPeers
    <2>7. \A e \in closing' : sessions'[e].pending > 0
      BY <2>3 DEF SessionsFit, SessionsFollowPeers
    <2>8. DOMAIN sessions' \subseteq Endpoint /\ closing' \in SUBSET Endpoint
      BY <2>3 DEF SessionsFit
    <2> QED
      BY <2>3, <2>4, <2>5, <2>6, <2>7, <2>8 DEF SessionsFit, SessionsFollowPeers
  <1>10. MatchesFit'
    <2>1. UNCHANGED <<match, bullets>>
      BY DEF JoinRecovers
    <2>2. ASSUME NEW r \in Room
          PROVE  match[r].active
                   = {peers'[e].account : e \in {x \in DOMAIN peers' : peers'[x].room = r}}
      <3>1. match[r].active = {peers[e].account : e \in {x \in DOMAIN peers : peers[x].room = r}}
        BY DEF MatchesFit, MatchesHaveTheirPlayers
      <3> HIDE DEF from
      <3>2. \A a : a \in match[r].active <=> \E e \in DOMAIN peers' :
                       peers'[e].room = r /\ peers'[e].account = a
        BY <1>5, <1>5a, <3>1
      <3> QED
        BY <3>2
    <2>3. ASSUME NEW r \in Room, rooms[r] # {}
          PROVE  rooms'[r] # {}
      <3> HIDE DEF from
      <3>1. PICK d \in DOMAIN peers : peers[d].room = r
        BY <2>3 DEF RoomsFit, RoomsFollowPeers
      <3>2. PICK e \in DOMAIN peers' : peers'[e].room = r
        BY <1>5, <1>5a, <3>1
      <3> QED
        BY <1>7, <3>2 DEF RoomsFit, RoomsFollowPeers
    <2> QED
      BY <2>1, <2>2, <2>3 DEF MatchesFit, MatchesHaveTheirPlayers, BulletsHaveTheirMatch
  <1>11. PeersKept
    <2> HIDE DEF from
    <2> QED
      BY <1>5, <1>5a DEF PeersKept
  <1> QED
    BY <1>6, <1>7, <1>8, <1>9, <1>10, <1>11

-----------------------------------------------------------------------------
\* A player moves to another room.
LEMMA JoinRoomFits ==
  ASSUME TablesFit, WorkFits, NEW w \in Worker, NEW room \in Room, HandleJoinRoom(w, room)
  PROVE  TablesFit' /\ PeersKept
  <1> USE DEF TablesFit
  <1>1. CASE ~ (Commands(w) /\ peers[work[w].endpoint].room # room)
    BY <1>1, TablesFrame DEF HandleJoinRoom, tables, PeersKept
  <1>2. CASE Commands(w) /\ peers[work[w].endpoint].room # room
    <2>1. PICK endpoint \in DOMAIN peers : endpoint = work[w].endpoint
      BY <1>2 DEF Commands
    <2>2. PICK old \in PeerStates : old = peers[endpoint]
      BY DEF LoginsFit
    <2>3. PICK peer \in PeerStates :
            /\ peer = [old EXCEPT !.room = room]
            /\ peer.account = old.account /\ peer.token = old.token
            /\ peer.player = old.player /\ peer.conn = old.conn /\ peer.room = room
      BY Moved
    <2>4. /\ peers' = MovePeer(peers, endpoint, room)
          /\ rooms' = MoveMember(rooms, endpoint, room)
          /\ players' = Put(players, old.player, [dead |-> FALSE, moving |-> FALSE])
          /\ bullets' = BulletsLeft({old.room})
          /\ match' = EnterPlayer(LeavePlayer(match, old.room, old.account), room, old.account)
          /\ sessions' = IF CanSend(endpoint)
                         THEN SetPending(endpoint, sessions[endpoint].pending + 1)
                         ELSE sessions
          /\ UNCHANGED <<registry, closing, nextToken, nextPlayer>>
          /\ old.room # room
          /\ old.player \in DOMAIN players
      BY <1>2, <2>1, <2>2 DEF HandleJoinRoom, counters, Commands, HasPlayer
    <2>5. /\ DOMAIN peers' = DOMAIN peers
          /\ peers'[endpoint] = peer
          /\ \A e \in DOMAIN peers : e # endpoint => peers'[e] = peers[e]
      BY <2>2, <2>3, <2>4 DEF MovePeer, Put
    <2>5a. \A e \in DOMAIN peers :
            /\ peers'[e] \in PeerStates
            /\ peers'[e].account = peers[e].account
            /\ peers'[e].token = peers[e].token
            /\ peers'[e].player = peers[e].player
            /\ peers'[e].conn = peers[e].conn
            /\ peers'[e].room = IF e = endpoint THEN room ELSE peers[e].room
      <3>1. /\ peer \in PeerStates
            /\ peer.account = old.account /\ peer.token = old.token
            /\ peer.player = old.player /\ peer.conn = old.conn /\ peer.room = room
        BY <2>3
      <3> QED
        BY <2>2, <2>5, <3>1 DEF LoginsFit
    <2>6. LoginsFit'
      <3>1. AccountsApart'
        BY <2>4, <2>5, <2>5a DEF LoginsFit, AccountsApart
      <3>2. TokensApart'
        BY <2>4, <2>5, <2>5a DEF LoginsFit, TokensApart
      <3> QED
        BY <2>4, <2>5, <2>5a, <3>1, <3>2 DEF LoginsFit
    <2>7. RoomsFit'
      <3>1. /\ rooms' \in [Room -> SUBSET Endpoint]
            /\ \A r \in Room : rooms'[r] = IF r = room THEN rooms[r] \cup {endpoint}
                                           ELSE rooms[r] \ {endpoint}
        BY <2>4 DEF MoveMember, InsertMember, RemoveMembers, RoomsFit, LoginsFit
      <3>2. ASSUME NEW r \in Room
            PROVE  rooms'[r] = {e \in DOMAIN peers' : peers'[e].room = r}
        BY <2>5, <2>5a, <3>1 DEF RoomsFit, RoomsFollowPeers
      <3> QED
        BY <3>1, <3>2 DEF RoomsFit, RoomsFollowPeers
    <2>8. PlayersFit'
      <3>1. /\ DOMAIN players' = DOMAIN players
            /\ \A p \in DOMAIN players' : players'[p] \in [dead : BOOLEAN, moving : BOOLEAN]
        BY <2>4 DEF Put, PlayersFit
      <3>2. nextPlayer' = nextPlayer
        BY <2>4
      <3>3. DOMAIN players' = {peers'[e].player : e \in DOMAIN peers'}
        BY <2>5, <2>5a, <3>1 DEF PlayersFit, PlayersFollowPeers
      <3>4. /\ \A e, f \in DOMAIN peers' : peers'[e].player = peers'[f].player => e = f
            /\ \A e \in DOMAIN peers' : peers'[e].player < nextPlayer'
        BY <2>5, <2>5a, <3>2 DEF PlayersFit, PlayersFollowPeers
      <3> QED
        BY <3>1, <3>2, <3>3, <3>4 DEF PlayersFit, PlayersFollowPeers
    <2>9. SessionsFit'
      <3>1. \A e \in DOMAIN peers : peers'[e].token = peers[e].token
                                  /\ peers'[e].conn = peers[e].conn
        BY <2>5a
      <3>2. CASE ~ CanSend(endpoint)
        BY <2>4, <2>5, <3>1, <3>2 DEF SessionsFit, SessionsFollowPeers
      <3>3. CASE CanSend(endpoint)
        <4>1. PICK n \in 0 .. MaxPending : n = sessions[endpoint].pending + 1 /\ n > 0
          BY <3>3, ServerAssumption DEF CanSend, SessionsFit
        <4>2. sessions' = SetPending(endpoint, n) /\ endpoint \in DOMAIN sessions
          BY <2>4, <3>3, <4>1 DEF CanSend
        <4>3. /\ DOMAIN sessions' = DOMAIN sessions
              /\ \A e \in DOMAIN sessions' : sessions'[e] \in [token : Nat, pending : 0 .. MaxPending]
              /\ \A e \in DOMAIN sessions' : sessions'[e].token = sessions[e].token
              /\ sessions'[endpoint].pending = n
              /\ \A e \in DOMAIN sessions : e # endpoint => sessions'[e] = sessions[e]
          BY <4>2, SetPendingFacts
        <4> QED
          BY <2>4, <2>5, <3>1, <4>1, <4>3 DEF SessionsFit, SessionsFollowPeers
      <3> QED
        BY <3>2, <3>3
    <2>10. MatchesFit'
      <3> DEFINE accounts == [r \in Room |-> IF r = old.room THEN {old.account} ELSE {}]
      <3>1. accounts \in [Room -> SUBSET Account] /\ match \in Matches
            /\ \A r \in Room : match[r].active = {} => match[r].stats = {}
        BY <2>2 DEF PeerStates, MatchesFit, MatchesHaveTheirPlayers
      <3>2. \A r \in Room : accounts[r] = IF r = old.room THEN {old.account} ELSE {}
        OBVIOUS
      <3>3. PICK middle : middle = LeavePlayers(match, accounts)
        OBVIOUS
      <3>4. match' = EnterPlayer(middle, room, old.account)
        BY <2>4, <3>3 DEF LeavePlayer
      <3> HIDE DEF accounts
      <3>5. /\ middle \in Matches
            /\ \A r \in Room : middle[r].active = match[r].active \ accounts[r]
            /\ \A r \in Room : middle[r].stats
                 = IF match[r].active \ accounts[r] = {} THEN {} ELSE match[r].stats
        BY <3>1, <3>3, LeaveFacts
      <3>6. \A r \in Room : \A a : a \in match[r].active
               <=> \E e \in DOMAIN peers : peers[e].room = r /\ peers[e].account = a
        BY DEF MatchesFit, MatchesHaveTheirPlayers
      <3>7. old.account \in Account /\ old.account \notin middle[room].active
        BY <2>2, <2>4, <3>2, <3>5, <3>6 DEF LoginsFit, AccountsApart, PeerStates
      <3>8. /\ match' \in Matches
            /\ \A r \in Room : r # room => match'[r] = middle[r]
            /\ match'[room].active = middle[room].active \cup {old.account}
            /\ match'[room].stats = middle[room].stats \cup {old.account}
        BY <3>4, <3>5, <3>7, EnterFacts
      <3>9. ASSUME NEW r \in Room
            PROVE  match'[r].active
                     = {peers'[e].account : e \in {x \in DOMAIN peers' : peers'[x].room = r}}
        <4>1. \A a : a \in match'[r].active
                 <=> IF a = old.account THEN r = room ELSE a \in match[r].active
          BY <2>2, <2>4, <3>2, <3>5, <3>6, <3>8 DEF LoginsFit, AccountsApart
        <4>2. \A e \in DOMAIN peers : peers[e].account = old.account <=> e = endpoint
          BY <2>2 DEF LoginsFit, AccountsApart
        <4>3. \A a : a \in match'[r].active
                 <=> \E e \in DOMAIN peers' : peers'[e].room = r /\ peers'[e].account = a
          BY <2>5, <2>5a, <3>6, <4>1, <4>2
        <4> QED
          BY <4>3
      <3>10. \A r \in Room : match'[r].active \subseteq match'[r].stats
                          /\ (match'[r].active = {} => match'[r].stats = {})
        BY <3>5, <3>8 DEF MatchesFit, MatchesHaveTheirPlayers
      <3>11. bullets' \in SUBSET [player : Nat, account : Account, room : Room]
        BY <2>4 DEF MatchesFit, BulletsLeft
      <3>12. ASSUME NEW b \in bullets'
             PROVE  rooms'[b.room] # {} /\ b.account \in match'[b.room].stats
        <4>1. b \in bullets /\ b.room \in Room /\ (b.room = old.room => rooms'[b.room] # {})
          BY <2>4 DEF MatchesFit, BulletsLeft
        <4>2. rooms[b.room] # {} /\ b.account \in match[b.room].stats
          BY <4>1 DEF MatchesFit, BulletsHaveTheirMatch
        <4>3. PICK e \in DOMAIN peers' : peers'[e].room = b.room
          <5>1. CASE b.room = old.room
            BY <2>7, <4>1, <5>1 DEF RoomsFit, RoomsFollowPeers
          <5>2. CASE b.room # old.room
            BY <2>2, <2>5, <2>5a, <4>1, <4>2, <5>2 DEF RoomsFit, RoomsFollowPeers
          <5> QED
            BY <5>1, <5>2
        <4>4. rooms'[b.room] # {}
          BY <2>7, <4>1, <4>3 DEF RoomsFit, RoomsFollowPeers
        <4>5. match'[b.room].active # {}
          BY <3>9, <4>1, <4>3
        <4>6. CASE b.room = room
          <5>1. match[room].active \ accounts[room] = match[room].active /\ match[room].active # {}
            BY <2>4, <3>1, <3>2, <4>1, <4>2, <4>6
          <5> QED
            BY <3>5, <3>8, <4>2, <4>4, <4>6, <5>1
        <4>7. CASE b.room # room
          BY <3>5, <3>8, <4>1, <4>2, <4>4, <4>5, <4>7
        <4> QED
          BY <4>6, <4>7
      <3> QED
        BY <3>8, <3>9, <3>10, <3>11, <3>12
        DEF MatchesFit, MatchesHaveTheirPlayers, BulletsHaveTheirMatch
    <2>11. PeersKept
      BY <2>5, <2>5a DEF PeersKept
    <2> QED
      BY <2>6, <2>7, <2>8, <2>9, <2>10, <2>11
  <1> QED
    BY <1>1, <1>2

-----------------------------------------------------------------------------
\* The other steps change one table each.

LEMMA LoginFits ==
  ASSUME TablesFit, NEW endpoint \in Endpoint, NEW account \in Account,
         LoginExistingSession(endpoint, account) \/ LoginAuthenticated(endpoint, account)
  PROVE  TablesFit'
  <1> USE DEF TablesFit
  <1>1. UNCHANGED <<peers, rooms, players, bullets, match, sessions, closing, nextPlayer>>
    BY DEF LoginExistingSession, LoginAuthenticated, counters
  <1>2. CASE LoginExistingSession(endpoint, account)
    <2>1. /\ DOMAIN registry' = DOMAIN registry \ {endpoint}
          /\ \A e \in DOMAIN registry' : registry'[e] = registry[e]
          /\ UNCHANGED nextToken
      BY <1>2 DEF LoginExistingSession, Drop, Restrict, counters
    <2>2. PeersLeave({}) /\ LoginsLeave
      BY <1>1, <2>1 DEF PeersLeave, LoginsLeave, LoginsFit
    <2> QED
      BY <2>1, <2>2, LeavingLogins, <1>1, RoomsFrame, PlayersFrame, SessionsFrame, MatchesFrame
  <1>3. CASE LoginAuthenticated(endpoint, account)
    <2>1. /\ endpoint \notin DOMAIN peers
          /\ \A e \in DOMAIN peers : peers[e].account # account
          /\ \A e \in DOMAIN registry : e = endpoint <=> registry[e].account = account
      BY <1>3 DEF LoginAuthenticated, JoinedPeersOf
    <2>2. PICK login \in [account : Account, token : Nat] :
            login = [account |-> account, token |-> nextToken]
      BY DEF LoginsFit
    <2>3. /\ DOMAIN registry' = DOMAIN registry \cup {endpoint}
          /\ registry'[endpoint] = login
          /\ \A e \in DOMAIN registry : e # endpoint => registry'[e] = registry[e]
          /\ nextToken' = nextToken + 1
      BY <1>3, <2>2 DEF LoginAuthenticated, Put
    <2>4. login.account = account /\ login.token = nextToken
      BY <2>2
    <2>5. AccountsApart'
      BY <1>1, <2>1, <2>3, <2>4 DEF LoginsFit, AccountsApart
    <2>6. /\ \A e \in DOMAIN peers : peers[e].token \in Nat
          /\ \A e \in DOMAIN registry : registry[e].token \in Nat
      BY DEF LoginsFit, PeerStates
    <2>7. TokensApart'
      BY <1>1, <2>3, <2>4, <2>6 DEF LoginsFit, TokensApart
    <2>8. \A e \in DOMAIN registry' : registry'[e] \in [account : Account, token : Nat]
      BY <2>3 DEF LoginsFit
    <2>9. LoginsFit'
      BY <1>1, <2>3, <2>5, <2>7, <2>8 DEF LoginsFit
    <2> QED
      BY <2>9, <1>1, RoomsFrame, PlayersFrame, SessionsFrame, MatchesFrame
  <1> QED
    BY <1>2, <1>3

\* The world moves, kills or revives a player, or a bullet flies no longer.
LEMMA WorldFits ==
  ASSUME TablesFit,
         UNCHANGED <<registry, peers, rooms, match, sessions, closing, counters>>,
         DOMAIN players' = DOMAIN players,
         \A p \in DOMAIN players' : players'[p] \in [dead : BOOLEAN, moving : BOOLEAN],
         bullets' \subseteq bullets
  PROVE  TablesFit'
  <1> USE DEF TablesFit
  <1>1. LoginsFit' /\ RoomsFit' /\ SessionsFit'
    BY LoginsFrame, RoomsFrame, SessionsFrame DEF counters
  <1>2. PlayersFit'
    BY DEF PlayersFit, PlayersFollowPeers, counters
  <1>3. MatchesFit'
    BY DEF MatchesFit, MatchesHaveTheirPlayers, BulletsHaveTheirMatch
  <1> QED
    BY <1>1, <1>2, <1>3

LEMMA SetPlayer ==
  ASSUME PlayersFit, NEW player \in DOMAIN players, NEW dead \in BOOLEAN, NEW moving \in BOOLEAN,
         players' = Put(players, player, [dead |-> dead, moving |-> moving])
  PROVE  /\ DOMAIN players' = DOMAIN players
         /\ \A p \in DOMAIN players' : players'[p] \in [dead : BOOLEAN, moving : BOOLEAN]
  BY DEF Put, PlayersFit

LEMMA BulletFits ==
  ASSUME TablesFit, NEW bullet,
         \/ BulletEnds(bullet)
         \/ \E e \in DOMAIN peers : BulletKills(bullet, e)
  PROVE  TablesFit'
  <1>1. CASE BulletEnds(bullet)
    BY <1>1, WorldFits DEF BulletEnds, TablesFit, PlayersFit
  <1>2. ASSUME NEW e \in DOMAIN peers, BulletKills(bullet, e)
        PROVE  TablesFit'
    <2>1. PICK player \in DOMAIN players : player = peers[e].player
      BY <1>2 DEF BulletKills, CanHit, HasPlayer
    <2>2. players' = Put(players, player, [dead |-> TRUE, moving |-> FALSE])
      BY <1>2, <2>1 DEF BulletKills
    <2>3. /\ DOMAIN players' = DOMAIN players
          /\ \A p \in DOMAIN players' : players'[p] \in [dead : BOOLEAN, moving : BOOLEAN]
      BY <2>2, SetPlayer DEF TablesFit
    <2> QED
      BY <1>2, <2>3, WorldFits DEF BulletKills
  <1> QED
    BY <1>1, <1>2

LEMMA RespawnFits ==
  ASSUME TablesFit, NEW player, Respawn(player)
  PROVE  TablesFit'
  <1>1. /\ DOMAIN players' = DOMAIN players
        /\ \A p \in DOMAIN players' : players'[p] \in [dead : BOOLEAN, moving : BOOLEAN]
    BY SetPlayer DEF Respawn, TablesFit
  <1> QED
    BY <1>1, WorldFits DEF Respawn

LEMMA InputFits ==
  ASSUME TablesFit, NEW w \in Worker, NEW isNewer, NEW moving \in BOOLEAN,
         HandleInput(w, isNewer, moving)
  PROVE  TablesFit'
  <1>1. CASE Commands(w) /\ isNewer
    <2>1. PICK player \in DOMAIN players : player = peers[work[w].endpoint].player
      BY <1>1 DEF Commands, HasPlayer
    <2>2. players' = Put(players, player, [dead |-> FALSE, moving |-> moving])
      BY <1>1, <2>1 DEF HandleInput
    <2>3. /\ DOMAIN players' = DOMAIN players
          /\ \A p \in DOMAIN players' : players'[p] \in [dead : BOOLEAN, moving : BOOLEAN]
      BY <2>2, SetPlayer DEF TablesFit
    <2> QED
      BY <2>3, WorldFits DEF HandleInput
  <1>2. CASE ~ (Commands(w) /\ isNewer)
    <2>1. UNCHANGED players
      BY <1>2 DEF HandleInput
    <2> QED
      BY <2>1, WorldFits DEF HandleInput, TablesFit, PlayersFit
  <1> QED
    BY <1>1, <1>2

LEMMA FireFits ==
  ASSUME TablesFit, NEW w \in Worker, NEW isCooledDown, HandleFire(w, isCooledDown)
  PROVE  TablesFit'
  <1> USE DEF TablesFit
  <1>1. UNCHANGED <<registry, peers, rooms, players, match, sessions, closing,
                    nextToken, nextPlayer>>
    BY DEF HandleFire, counters
  <1>2. LoginsFit' /\ RoomsFit' /\ PlayersFit' /\ SessionsFit'
    BY <1>1, LoginsFrame, RoomsFrame, PlayersFrame, SessionsFrame
  <1>3. CASE bullets' = bullets
    BY <1>1, <1>2, <1>3, MatchesFrame
  <1>4. CASE bullets' # bullets
    <2>1. PICK endpoint \in DOMAIN peers : endpoint = work[w].endpoint
      BY <1>4 DEF HandleFire, Commands
    <2>2. PICK peer \in PeerStates : peer = peers[endpoint]
      BY DEF LoginsFit
    <2>3. PICK bullet \in [player : Nat, account : Account, room : Room] :
            bullet = [player |-> peer.player, account |-> peer.account, room |-> peer.room]
      BY DEF PeerStates
    <2>4. bullets' = bullets \cup {bullet}
      BY <1>4, <2>1, <2>2, <2>3 DEF HandleFire
    <2>5. bullet.room = peer.room /\ bullet.account = peer.account /\ peer.room \in Room
      BY <2>2, <2>3 DEF PeerStates
    <2>6. rooms[peer.room] # {}
      BY <2>2, <2>5 DEF RoomsFit, RoomsFollowPeers
    <2>7. peer.account \in match[peer.room].stats
      BY <2>2, <2>5 DEF MatchesFit, MatchesHaveTheirPlayers
    <2>8. \A b \in bullets' : rooms[b.room] # {} /\ b.account \in match[b.room].stats
      BY <2>4, <2>5, <2>6, <2>7 DEF MatchesFit, BulletsHaveTheirMatch
    <2>9. bullets' \in SUBSET [player : Nat, account : Account, room : Room]
      BY <2>4 DEF MatchesFit
    <2>10. MatchesFit'
      BY <1>1, <2>8, <2>9 DEF MatchesFit, MatchesHaveTheirPlayers, BulletsHaveTheirMatch
    <2> QED
      BY <1>2, <2>10
  <1> QED
    BY <1>3, <1>4

\* Packets were acknowledged or given up.
LEMMA PendingFits ==
  ASSUME TablesFit, NEW endpoint \in DOMAIN sessions, NEW pending \in 0 .. MaxPending,
         KeepPending(endpoint, pending),
         UNCHANGED <<registry, peers, rooms, players, bullets, match, counters>>
  PROVE  TablesFit'
  <1>1. SessionsFit'
    BY KeepPendingFits DEF TablesFit
  <1> QED
    BY <1>1, LoginsFrame, RoomsFrame, PlayersFrame, MatchesFrame DEF TablesFit, counters

LEMMA StopFits ==
  ASSUME TablesFit, Stop
  PROVE  TablesFit'
  <1>1. DOMAIN registry' = {} /\ DOMAIN peers' = {} /\ DOMAIN players' = {} /\ DOMAIN sessions' = {}
    BY DEF Stop, EmptyTable
  <1>2. /\ rooms' \in [Room -> SUBSET Endpoint] /\ \A r \in Room : rooms'[r] = {}
        /\ match' \in Matches
        /\ \A r \in Room : match'[r].active = {} /\ match'[r].stats = {}
        /\ bullets' = {} /\ closing' = {} /\ nextPlayer' = 1 /\ nextToken' = nextToken
    BY DEF Stop, NoRooms, NoMatches, NoMatch, Matches
  <1>3. LoginsFit'
    BY <1>1, <1>2 DEF TablesFit, LoginsFit, AccountsApart, TokensApart
  <1>4. RoomsFit' /\ PlayersFit' /\ SessionsFit'
    BY <1>1, <1>2 DEF RoomsFit, RoomsFollowPeers, PlayersFit, PlayersFollowPeers, SessionsFit,
       SessionsFollowPeers
  <1>5. MatchesFit'
    BY <1>1, <1>2 DEF MatchesFit, MatchesHaveTheirPlayers, BulletsHaveTheirMatch
  <1> QED
    BY <1>3, <1>4, <1>5 DEF TablesFit

LEMMA InitInv == Init => IInv
  <1> SUFFICES ASSUME Init PROVE IInv
    OBVIOUS
  <1>1. DOMAIN registry = {} /\ DOMAIN peers = {} /\ DOMAIN players = {} /\ DOMAIN sessions = {}
    BY DEF Init, EmptyTable
  <1>2. /\ rooms \in [Room -> SUBSET Endpoint] /\ \A r \in Room : rooms[r] = {}
        /\ match \in Matches
        /\ \A r \in Room : match[r].active = {} /\ match[r].stats = {}
        /\ bullets = {} /\ closing = {} /\ nextPlayer = 1 /\ nextToken = 1
    BY DEF Init, NoRooms, NoMatches, NoMatch, Matches
  <1>3. LoginsFit
    BY <1>1, <1>2 DEF LoginsFit, AccountsApart, TokensApart
  <1>4. RoomsFit /\ PlayersFit /\ SessionsFit
    BY <1>1, <1>2 DEF RoomsFit, RoomsFollowPeers, PlayersFit, PlayersFollowPeers, SessionsFit,
       SessionsFollowPeers
  <1>5. MatchesFit
    BY <1>1, <1>2 DEF MatchesFit, MatchesHaveTheirPlayers, BulletsHaveTheirMatch
  <1>6. WorkFits
    BY DEF Init, WorkFits
  <1> QED
    BY <1>3, <1>4, <1>5, <1>6 DEF IInv, TablesFit

LEMMA UnchangedPeersKept == UNCHANGED peers => PeersKept
  BY DEF PeersKept

\* What a worker has in its hands afterwards.
LEMMA WorkStep ==
  ASSUME WorkFits, NEW w \in Worker, Handler(w)
  PROVE  WorkFits'
  <1>1. \A e \in Endpoint, kind \in PacketKinds, step \in {"Process", "Handle"} :
          [step |-> step, endpoint |-> e, kind |-> kind] \in Packets
    BY DEF Packets
  <1>2. ASSUME NEW e \in Endpoint, NEW kind \in PacketKinds, Authenticate(w, e, kind)
        PROVE  WorkFits'
    <2>1. PICK step \in {"Process", "Handle"} :
            work' = [work EXCEPT ![w] = [step |-> step, endpoint |-> e, kind |-> kind]]
      BY <1>2 DEF Authenticate
    <2> QED
      BY <1>1, <2>1 DEF WorkFits
  <1>3. ASSUME NEW n, NEW isNewData, ProcessReliable(w, n, isNewData)
        PROVE  WorkFits'
    <2>1. work[w].step = "Process"
      BY <1>3 DEF ProcessReliable
    <2>2. work[w] \in Packets
      BY <2>1 DEF WorkFits, Idle
    <2>3. work' = [work EXCEPT ![w].step = "Handle"] \/ Done(w)
      BY <1>3 DEF ProcessReliable
    <2>4. [work[w] EXCEPT !.step = "Handle"] \in Packets
      BY <2>2 DEF Packets
    <2> QED
      BY <2>3, <2>4 DEF WorkFits, Done
  <1>4. Done(w) => WorkFits'
    BY DEF Done, WorkFits
  <1> QED
    BY <1>2, <1>3, <1>4 DEF Handler, HandleLeave, HandleJoinRoom, HandleInput, HandleFire

LEMMA HandlerFits ==
  ASSUME IInv, NEW w \in Worker, Handler(w)
  PROVE  TablesFit' /\ PeersKept
  <1> USE DEF IInv
  <1>1. ASSUME NEW e \in Endpoint, NEW kind \in PacketKinds, Authenticate(w, e, kind)
        PROVE  TablesFit' /\ PeersKept
    BY <1>1, TablesFrame, UnchangedPeersKept DEF Authenticate, tables
  <1>2. ASSUME NEW n \in 0 .. MaxPending, NEW isNewData, ProcessReliable(w, n, isNewData)
        PROVE  TablesFit' /\ PeersKept
    <2>1. CASE work[w].endpoint \notin DOMAIN sessions
      <3>1. UNCHANGED tables /\ UNCHANGED counters
        BY <1>2, <2>1 DEF ProcessReliable
      <3> QED
        BY <3>1, TablesFrame, UnchangedPeersKept DEF tables
    <2>2. CASE work[w].endpoint \in DOMAIN sessions
      <3>1. PICK endpoint \in DOMAIN sessions : endpoint = work[w].endpoint
        BY <2>2
      <3>2. /\ KeepPending(endpoint, n)
            /\ UNCHANGED <<registry, peers, rooms, players, bullets, match, counters>>
        BY <1>2, <2>2, <3>1 DEF ProcessReliable
      <3> QED
        BY <3>2, PendingFits, UnchangedPeersKept
    <2> QED
      BY <2>1, <2>2
  <1>3. CASE HandleLeave(w)
    <2>1. CASE work[w].endpoint \in DOMAIN peers
      <3>1. PICK endpoint \in DOMAIN peers : endpoint = work[w].endpoint
        BY <2>1
      <3>2. LeavePeer(endpoint) /\ CloseSession(endpoint) /\ UNCHANGED registry /\ UNCHANGED counters
        BY <1>3, <2>1, <3>1 DEF HandleLeave
      <3> QED
        BY <3>2, LeavePeerFits
    <2>2. CASE work[w].endpoint \notin DOMAIN peers
      <3>1. UNCHANGED tables /\ UNCHANGED counters
        BY <1>3, <2>2 DEF HandleLeave
      <3> QED
        BY <3>1, TablesFrame, UnchangedPeersKept DEF tables
    <2> QED
      BY <2>1, <2>2
  <1>4. ASSUME NEW room \in Room, HandleJoinRoom(w, room)
        PROVE  TablesFit' /\ PeersKept
    BY <1>4, JoinRoomFits
  <1>5. ASSUME NEW isNewer \in BOOLEAN, NEW moving \in BOOLEAN, HandleInput(w, isNewer, moving)
        PROVE  TablesFit' /\ PeersKept
    BY <1>5, InputFits, UnchangedPeersKept DEF HandleInput
  <1>6. ASSUME NEW isCooledDown \in BOOLEAN, HandleFire(w, isCooledDown)
        PROVE  TablesFit' /\ PeersKept
    BY <1>6, FireFits, UnchangedPeersKept DEF HandleFire
  <1> QED
    BY <1>1, <1>2, <1>3, <1>4, <1>5, <1>6 DEF Handler

LEMMA TickFits ==
  ASSUME IInv, Tick
  PROVE  TablesFit' /\ PeersKept /\ UNCHANGED work
  <1> USE DEF IInv
  <1>1. ASSUME NEW e \in Endpoint, NEW a \in Account,
               LoginExistingSession(e, a) \/ LoginAuthenticated(e, a)
        PROVE  TablesFit' /\ PeersKept /\ UNCHANGED work
    BY <1>1, LoginFits, UnchangedPeersKept DEF LoginExistingSession, LoginAuthenticated
  <1>2. ASSUME NEW b \in bullets, \/ BulletEnds(b)
                                  \/ \E e \in DOMAIN peers : BulletKills(b, e)
        PROVE  TablesFit' /\ PeersKept /\ UNCHANGED work
    BY <1>2, BulletFits, UnchangedPeersKept DEF BulletEnds, BulletKills
  <1>3. ASSUME NEW p \in DOMAIN players, Respawn(p)
        PROVE  TablesFit' /\ PeersKept /\ UNCHANGED work
    BY <1>3, RespawnFits, UnchangedPeersKept DEF Respawn
  <1>4. ASSUME NEW silent, NEW expired, NEW stale, PeerTimeouts(silent, expired, stale)
        PROVE  TablesFit' /\ PeersKept /\ UNCHANGED work
    BY <1>4, PeerTimeoutsFits DEF PeerTimeouts
  <1>5. ASSUME NEW e \in DOMAIN sessions, NEW n \in 0 .. MaxPending, GiveUpResends(e, n)
        PROVE  TablesFit' /\ PeersKept /\ UNCHANGED work
    BY <1>5, PendingFits, UnchangedPeersKept DEF GiveUpResends
  <1> QED
    BY <1>1, <1>2, <1>3, <1>4, <1>5 DEF Tick

LEMMA JoinFits ==
  ASSUME IInv, Join
  PROVE  TablesFit' /\ PeersKept /\ UNCHANGED work
  <1> USE DEF IInv
  <1>1. ASSUME NEW e \in Endpoint, JoinAuthenticated(e)
        PROVE  TablesFit' /\ PeersKept /\ UNCHANGED work
    BY <1>1, JoinAuthenticatedFits DEF JoinAuthenticated
  <1>2. ASSUME NEW e \in Endpoint, JoinAgain(e)
        PROVE  TablesFit' /\ PeersKept /\ UNCHANGED work
    <2>1. UNCHANGED vars
      BY <1>2, JoinAgainChangesNothing DEF TablesFit
    <2> QED
      BY <2>1, TablesFrame, UnchangedPeersKept DEF vars, tables
  <1>3. ASSUME NEW e \in Endpoint, NEW previous \in Endpoint, JoinRecovers(previous, e)
        PROVE  TablesFit' /\ PeersKept /\ UNCHANGED work
    BY <1>3, JoinRecoversFits DEF JoinRecovers
  <1> QED
    BY <1>1, <1>2, <1>3 DEF Join

LEMMA NextInv == IInv /\ [Next]_vars => IInv' /\ PeersKept
  <1> SUFFICES ASSUME IInv, [Next]_vars PROVE IInv' /\ PeersKept
    OBVIOUS
  <1>1. CASE Tick
    BY <1>1, TickFits DEF IInv, WorkFits
  <1>2. CASE Join
    BY <1>2, JoinFits DEF IInv, WorkFits
  <1>3. ASSUME NEW w \in Worker, Handler(w)
        PROVE  IInv' /\ PeersKept
    BY <1>3, HandlerFits, WorkStep DEF IInv
  <1>4. ASSUME NEW e \in DOMAIN peers, Kick(e)
        PROVE  IInv' /\ PeersKept
    BY <1>4, LeavePeerFits DEF Kick, IInv, WorkFits
  <1>5. CASE Stop
    <2>1. PeersKept
      BY <1>5 DEF Stop, EmptyTable, PeersKept
    <2> QED
      BY <1>5, <2>1, StopFits DEF Stop, IInv, WorkFits
  <1>6. CASE UNCHANGED vars
    BY <1>6, TablesFrame, UnchangedPeersKept DEF vars, tables, IInv, WorkFits
  <1> QED
    BY <1>1, <1>2, <1>3, <1>4, <1>5, <1>6 DEF Next

-----------------------------------------------------------------------------
LEMMA InvariantHolds == Spec => []IInv
  <1>1. IInv /\ [Next]_vars => IInv'
    BY NextInv
  <1> QED
    BY InitInv, <1>1, PTL DEF Spec

LEMMA Consequences == IInv => AccountsLogInOnce /\ TablesFollowPeers /\ MatchesFollowPeers
  <1> SUFFICES ASSUME IInv
               PROVE  AccountsLogInOnce /\ TablesFollowPeers /\ MatchesFollowPeers
    OBVIOUS
  <1>1. TypeOK
    BY DEF IInv, TablesFit, LoginsFit, RoomsFit, PlayersFit, SessionsFit, MatchesFit, WorkFits, TypeOK
  <1>2. AccountsLogInOnce
    BY <1>1 DEF IInv, TablesFit, LoginsFit, AccountsApart, AccountsLogInOnce
  <1>3. TablesFollowPeers
    BY DEF IInv, TablesFit, RoomsFit, PlayersFit, SessionsFit, TablesFollowPeers
  <1>4. ASSUME NEW b \in bullets, NEW e \in DOMAIN peers, CanHit(b, e)
        PROVE  CanRecordKill(match, b.room, b.account, peers[e].account)
    <2>1. peers[e].room = b.room /\ b.room \in Room
      BY <1>4 DEF CanHit, IInv, TablesFit, MatchesFit
    <2>2. b.account \in match[b.room].stats
      BY DEF IInv, TablesFit, MatchesFit, BulletsHaveTheirMatch
    <2>3. peers[e].account \in match[b.room].active
      BY <2>1 DEF IInv, TablesFit, MatchesFit, MatchesHaveTheirPlayers
    <2>4. match[b.room].active \subseteq match[b.room].stats
      BY <2>1 DEF IInv, TablesFit, MatchesFit, MatchesHaveTheirPlayers
    <2> QED
      BY <2>2, <2>3, <2>4 DEF CanRecordKill
  <1>5. MatchesFollowPeers
    BY <1>4 DEF IInv, TablesFit, MatchesFit, MatchesFollowPeers, KillsAreRecordable
  <1> QED
    BY <1>2, <1>3, <1>5

\* AuthenticatedAccountRegistry and the peer table never hold an account twice:
\* what the AlreadyLoggedIn answers of AccountLoginAdmissionService are for.
THEOREM OneLoginPerAccount == Spec => []AccountsLogInOnce
  BY InvariantHolds, Consequences, PTL

\* The rooms, the players of the world and the sessions are those of the peers
\* after every critical section of UdpServer.
THEOREM TablesAgreeWithPeers == Spec => []TablesFollowPeers
  BY InvariantHolds, Consequences, PTL

\* The match history has the players of each room and can record every kill.
THEOREM MatchesAgreeWithPeers == Spec => []MatchesFollowPeers
  BY InvariantHolds, Consequences, PTL

\* Whoever presents a session token to recover gets the player of its join.
THEOREM RecoveryFindsThePlayer == Spec => TokensKeepTheirPlayer
  <1> DEFINE Kept == \A e \in DOMAIN peers, f \in DOMAIN peers' :
                        peers[e].token = peers'[f].token =>
                           /\ peers[e].account = peers'[f].account
                           /\ peers[e].player = peers'[f].player
  <1>1. IInv /\ [Next]_vars => Kept
    <2>1. IInv /\ PeersKept => Kept
      BY DEF IInv, TablesFit, LoginsFit, TokensApart, PeersKept
    <2> QED
      BY <2>1, NextInv
  <1>2. IInv /\ [Next]_vars => [Kept]_vars
    BY <1>1
  <1> HIDE DEF Kept
  <1>3. Spec => [][Kept]_vars
    BY <1>2, InvariantHolds, PTL DEF Spec
  <1> QED
    BY <1>3 DEF TokensKeepTheirPlayer, Kept
=============================================================================
