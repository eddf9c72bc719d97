--------------------------- MODULE Client_proofs ---------------------------
(***************************************************************************)
(* Three state machines of the client, which share nothing here.           *)
(*                                                                         *)
(* ClientConnection, for any set of ports: what the client believes of its *)
(* session agrees with what the server did.  The argument has two halves   *)
(* that do not need each other.  Belief: an answer is on its way to the    *)
(* present socket only if the server let the client in there.  Farewell: a *)
(* login is used once, so that nothing is left to join with when a leave   *)
(* is answered.                                                            *)
(*                                                                         *)
(* ClientWorld, for any rooms, players and bounds: the state of a client   *)
(* stays well typed, and after the last word on its room was handled it is *)
(* in the room in which the server has it.  The invariant behind it is     *)
(* that the last word, while it is under way, is the last of the responses.*)
(*                                                                         *)
(* SnapshotChunkAssembler, for any number of ticks and of chunks: the      *)
(* assembler implements SnapshotStream.  What is under way is always a     *)
(* part of one tick, its count is the number of the chunks that it has,    *)
(* and so a full count leaves no place of the tick empty.                  *)
(***************************************************************************)
EXTENDS ClientConnection, ClientWorld, SnapshotChunkAssembler, FiniteSetTheorems, TLAPS

-----------------------------------------------------------------------------
(* ClientConnection *)

\* The update thread attempts a join on an open socket only.
ChecksOpenSocket == update = "Checked" => port # NoPort

\* What a JoinResponse on its way to the client says is so.
AnswerWasAccepted == <<"Joined", port>> \in answers => accepted

\* So is what the peer's own endpoint says, on which repeated requests rely.
PeerWasAccepted == server.state # "None" /\ server.at = port => accepted

\* A client joined at the moment of its restart was crossed by an answer.
RestartIsUnjoined == update = "Restart" /\ joined => crossed

\* A login waits at one endpoint, and only until it is used.
LoginIsUsedOnce ==
    /\ registry # {} => login = "Succeeded" /\ \E p \in Port : registry = {p}
    /\ server.state # "None" => login = "Succeeded" /\ registry = {}

\* After a leave nothing is left to join with.
LeftForGood ==
    left \/ <<"Left", port>> \in answers =>
        /\ server.state = "None"
        /\ registry = {}
        /\ login = "Succeeded"

TypeInv == TypeOK /\ ChecksOpenSocket
Belief == AnswerWasAccepted /\ PeerWasAccepted /\ RestartIsUnjoined /\ JoinedWasAccepted
Farewell == LoginIsUsedOnce /\ LeftForGood

IInv == TypeInv /\ Belief /\ Farewell

-----------------------------------------------------------------------------
\* Every step keeps the types and the open socket.
LEMMA TypePreserved ==
    ASSUME TypeInv, [Next]_vars
    PROVE  TypeInv'
<1> USE PortAssumption DEF TypeInv, TypeOK, Messages, ChecksOpenSocket, net, peer, received,
        threads
<1>1. ASSUME NEW result \in {"Succeeded", "Failed"}, LoginAnswered(result) PROVE TypeInv'
  BY <1>1 DEF LoginAnswered, Listens, RecordServerPacketReceiveTime
<1>2. CASE Hear
  BY <1>2 DEF Hear, Listens, ConnectedAt, RecordServerPacketReceiveTime
<1>3. CASE ReceiveJoined
  BY <1>3 DEF ReceiveJoined, Listens, TrySetJoinState, RecordServerPacketReceiveTime
<1>4. CASE ReceiveLeft
  BY <1>4 DEF ReceiveLeft, Listens, RecordServerPacketReceiveTime
<1>5. CASE ReceiveDisconnect
  BY <1>5 DEF ReceiveDisconnect, Listens, RecordServerPacketReceiveTime
<1>6. CASE CheckDisconnect
  BY <1>6 DEF CheckDisconnect
<1>7. CASE BeginRecovery
  BY <1>7, ZenonT(40) DEF BeginRecovery
<1>8. ASSUME NEW p \in Port \cup {NoPort}, Restart(p) PROVE TypeInv'
  BY <1>8, ZenonT(40) DEF Restart, Fresh, ResetTransportSessionState
<1>9. CASE AwaitLogin
  BY <1>9 DEF AwaitLogin
<1>10. CASE FailLogin
  BY <1>10, ZenonT(40) DEF FailLogin
<1>11. CASE AttemptJoin
  BY <1>11 DEF AttemptJoin, SendJoinRequest
<1>12. CASE Play
  BY <1>12 DEF Play
<1>13. CASE CloseWindow
  <2>1. running' \in BOOLEAN
    BY <1>13, Zenon DEF CloseWindow
  <2> QED
    BY <1>13, <2>1 DEF CloseWindow
<1>14. CASE BeginLeave
  <2>1. left' \in BOOLEAN
    BY <1>14, Zenon DEF BeginLeave
  <2> QED
    BY <1>14, <2>1 DEF BeginLeave, SendLeaveRequest
<1>15. CASE RepeatLeave
  BY <1>15 DEF RepeatLeave, SendLeaveRequest
<1>16. CASE Stop
  BY <1>16 DEF Stop, ResetTransportSessionState
<1>17. ASSUME NEW p \in Port, JoinAuthenticated(p) PROVE TypeInv'
  BY <1>17 DEF JoinAuthenticated, LetIn, Answer
<1>18. ASSUME NEW p \in Port, JoinAgain(p) PROVE TypeInv'
  BY <1>18 DEF JoinAgain, ConnectedAt, Answer
<1>19. ASSUME NEW p \in Port, JoinRecovers(p) PROVE TypeInv'
  BY <1>19 DEF JoinRecovers, LetIn, Answer
<1>20. ASSUME NEW p \in Port, HandleLeave(p) PROVE TypeInv'
  BY <1>20 DEF HandleLeave, ConnectedAt, Answer
<1>21. CASE TimeOut
  BY <1>21 DEF TimeOut
<1>22. CASE Expire
  BY <1>22 DEF Expire
<1>23. CASE Kick
  BY <1>23 DEF Kick, Answer
<1>24. CASE RestartServer
  BY <1>24 DEF RestartServer
<1>25. ASSUME NEW m \in requests, LoseRequest(m) PROVE TypeInv'
  BY <1>25 DEF LoseRequest
<1>26. ASSUME NEW m \in answers, LoseAnswer(m) PROVE TypeInv'
  BY <1>26 DEF LoseAnswer
<1>27. CASE UNCHANGED vars
  BY <1>27 DEF vars
<1> QED
  BY <1>1, <1>2, <1>3, <1>4, <1>5, <1>6, <1>7, <1>8, <1>9, <1>10, <1>11, <1>12, <1>13,
     <1>14, <1>15, <1>16, <1>17, <1>18, <1>19, <1>20, <1>21, <1>22, <1>23, <1>24, <1>25,
     <1>26, <1>27 DEF Next, Receive, Update, MainThread, Server

\* Every step keeps what the client believes true of the server.
LEMMA BeliefPreserved ==
    ASSUME TypeInv, Belief, [Next]_vars
    PROVE  Belief'
<1> USE PortAssumption DEF TypeInv, TypeOK, Messages, ChecksOpenSocket, Belief,
        AnswerWasAccepted, PeerWasAccepted, RestartIsUnjoined, JoinedWasAccepted, net, peer,
        received, threads
<1>1. ASSUME NEW result \in {"Succeeded", "Failed"}, LoginAnswered(result) PROVE Belief'
  BY <1>1 DEF LoginAnswered, Listens, RecordServerPacketReceiveTime
<1>2. CASE Hear
  BY <1>2 DEF Hear, Listens, ConnectedAt, RecordServerPacketReceiveTime
<1>3. CASE ReceiveJoined
  BY <1>3 DEF ReceiveJoined, Listens, TrySetJoinState, RecordServerPacketReceiveTime
<1>4. CASE ReceiveLeft
  BY <1>4 DEF ReceiveLeft, Listens, RecordServerPacketReceiveTime
<1>5. CASE ReceiveDisconnect
  BY <1>5 DEF ReceiveDisconnect, Listens, RecordServerPacketReceiveTime
<1>6. CASE CheckDisconnect
  BY <1>6 DEF CheckDisconnect
<1>7. CASE BeginRecovery
  BY <1>7 DEF BeginRecovery
<1>8. ASSUME NEW p \in Port \cup {NoPort}, Restart(p) PROVE Belief'
  BY <1>8 DEF Restart, Fresh, ResetTransportSessionState
<1>9. CASE AwaitLogin
  BY <1>9 DEF AwaitLogin
<1>10. CASE FailLogin
  BY <1>10 DEF FailLogin
<1>11. CASE AttemptJoin
  BY <1>11 DEF AttemptJoin, SendJoinRequest
<1>12. CASE Play
  BY <1>12 DEF Play
<1>13. CASE CloseWindow
  BY <1>13 DEF CloseWindow
<1>14. CASE BeginLeave
  BY <1>14 DEF BeginLeave, SendLeaveRequest
<1>15. CASE RepeatLeave
  BY <1>15 DEF RepeatLeave, SendLeaveRequest
<1>16. CASE Stop
  BY <1>16 DEF Stop, ResetTransportSessionState
<1>17. ASSUME NEW p \in Port, JoinAuthenticated(p) PROVE Belief'
  BY <1>17 DEF JoinAuthenticated, LetIn, Answer
<1>18. ASSUME NEW p \in Port, JoinAgain(p) PROVE Belief'
  BY <1>18 DEF JoinAgain, ConnectedAt, Answer
<1>19. ASSUME NEW p \in Port, JoinRecovers(p) PROVE Belief'
  BY <1>19 DEF JoinRecovers, LetIn, Answer
<1>20. ASSUME NEW p \in Port, HandleLeave(p) PROVE Belief'
  BY <1>20 DEF HandleLeave, ConnectedAt, Answer
<1>21. CASE TimeOut
  BY <1>21 DEF TimeOut
<1>22. CASE Expire
  BY <1>22 DEF Expire
<1>23. CASE Kick
  BY <1>23 DEF Kick, Answer
<1>24. CASE RestartServer
  BY <1>24 DEF RestartServer
<1>25. ASSUME NEW m \in requests, LoseRequest(m) PROVE Belief'
  BY <1>25 DEF LoseRequest
<1>26. ASSUME NEW m \in answers, LoseAnswer(m) PROVE Belief'
  BY <1>26 DEF LoseAnswer
<1>27. CASE UNCHANGED vars
  BY <1>27 DEF vars
<1> QED
  BY <1>1, <1>2, <1>3, <1>4, <1>5, <1>6, <1>7, <1>8, <1>9, <1>10, <1>11, <1>12, <1>13,
     <1>14, <1>15, <1>16, <1>17, <1>18, <1>19, <1>20, <1>21, <1>22, <1>23, <1>24, <1>25,
     <1>26, <1>27 DEF Next, Receive, Update, MainThread, Server

\* Every step keeps a login single and a leave final.
LEMMA FarewellPreserved ==
    ASSUME TypeInv, Farewell, [Next]_vars
    PROVE  Farewell'
<1> USE PortAssumption DEF TypeInv, TypeOK, Messages, Farewell, LoginIsUsedOnce,
        LeftForGood, net, peer, received, threads
<1>1. ASSUME NEW result \in {"Succeeded", "Failed"}, LoginAnswered(result) PROVE Farewell'
  BY <1>1 DEF LoginAnswered, Listens, RecordServerPacketReceiveTime
<1>2. CASE Hear
  BY <1>2 DEF Hear, Listens, ConnectedAt, RecordServerPacketReceiveTime
<1>3. CASE ReceiveJoined
  BY <1>3 DEF ReceiveJoined, Listens, TrySetJoinState, RecordServerPacketReceiveTime
<1>4. CASE ReceiveLeft
  BY <1>4 DEF ReceiveLeft, Listens, RecordServerPacketReceiveTime
<1>5. CASE ReceiveDisconnect
  BY <1>5 DEF ReceiveDisconnect, Listens, RecordServerPacketReceiveTime
<1>6. CASE CheckDisconnect
  BY <1>6 DEF CheckDisconnect
<1>7. CASE BeginRecovery
  BY <1>7 DEF BeginRecovery
<1>8. ASSUME NEW p \in Port \cup {NoPort}, Restart(p) PROVE Farewell'
  BY <1>8 DEF Restart, Fresh, ResetTransportSessionState
<1>9. CASE AwaitLogin
  BY <1>9 DEF AwaitLogin
<1>10. CASE FailLogin
  BY <1>10 DEF FailLogin
<1>11. CASE AttemptJoin
  BY <1>11 DEF AttemptJoin, SendJoinRequest
<1>12. CASE Play
  BY <1>12 DEF Play
<1>13. CASE CloseWindow
  BY <1>13 DEF CloseWindow
<1>14. CASE BeginLeave
  BY <1>14 DEF BeginLeave, SendLeaveRequest
<1>15. CASE RepeatLeave
  BY <1>15 DEF RepeatLeave, SendLeaveRequest
<1>16. CASE Stop
  BY <1>16 DEF Stop, ResetTransportSessionState
<1>17. ASSUME NEW p \in Port, JoinAuthenticated(p) PROVE Farewell'
  BY <1>17 DEF JoinAuthenticated, LetIn, Answer
<1>18. ASSUME NEW p \in Port, JoinAgain(p) PROVE Farewell'
  BY <1>18 DEF JoinAgain, ConnectedAt, Answer
<1>19. ASSUME NEW p \in Port, JoinRecovers(p) PROVE Farewell'
  BY <1>19 DEF JoinRecovers, LetIn, Answer
<1>20. ASSUME NEW p \in Port, HandleLeave(p) PROVE Farewell'
  BY <1>20 DEF HandleLeave, ConnectedAt, Answer
<1>21. CASE TimeOut
  BY <1>21 DEF TimeOut
<1>22. CASE Expire
  BY <1>22 DEF Expire
<1>23. CASE Kick
  BY <1>23 DEF Kick, Answer
<1>24. CASE RestartServer
  BY <1>24 DEF RestartServer
<1>25. ASSUME NEW m \in requests, LoseRequest(m) PROVE Farewell'
  BY <1>25 DEF LoseRequest
<1>26. ASSUME NEW m \in answers, LoseAnswer(m) PROVE Farewell'
  BY <1>26 DEF LoseAnswer
<1>27. CASE UNCHANGED vars
  BY <1>27 DEF vars
<1> QED
  BY <1>1, <1>2, <1>3, <1>4, <1>5, <1>6, <1>7, <1>8, <1>9, <1>10, <1>11, <1>12, <1>13,
     <1>14, <1>15, <1>16, <1>17, <1>18, <1>19, <1>20, <1>21, <1>22, <1>23, <1>24, <1>25,
     <1>26, <1>27 DEF Next, Receive, Update, MainThread, Server

-----------------------------------------------------------------------------
\* The client as it starts: no server knows it.
LEMMA InitInvariant == Init => IInv
<1> SUFFICES ASSUME Init PROVE IInv
  OBVIOUS
<1>1. Belief
  BY DEF Init, Belief, AnswerWasAccepted, PeerWasAccepted, RestartIsUnjoined, JoinedWasAccepted
<1>2. Farewell
  BY DEF Init, Farewell, LoginIsUsedOnce, LeftForGood
<1>3. /\ joined \in BOOLEAN /\ heard \in BOOLEAN /\ kicked \in BOOLEAN /\ left \in BOOLEAN
      /\ running \in BOOLEAN /\ accepted \in BOOLEAN /\ crossed \in BOOLEAN
  BY Zenon DEF Init
<1>4. TypeInv
  BY <1>3, PortAssumption DEF Init, TypeInv, TypeOK, Messages, ChecksOpenSocket
<1> QED
  BY <1>1, <1>2, <1>4 DEF IInv

\* The inductive invariant holds in every reachable state.
THEOREM InvariantHolds == Spec => []IInv
<1>1. IInv /\ [Next]_vars => IInv'
  BY TypePreserved, BeliefPreserved, FarewellPreserved DEF IInv
<1> QED
  BY InitInvariant, <1>1, PTL DEF Spec

\* The variables keep their types, and without a socket the runtime has ended.
THEOREM TypeCorrect == Spec => []TypeOK
<1>1. IInv => TypeOK
  BY DEF IInv, TypeInv
<1> QED
  BY InvariantHolds, <1>1, PTL

\* A client believes that it is joined only on a socket on which the server let
\* it in, whatever is lost, late or repeated, and however many sockets it uses.
THEOREM JoinedIsAccepted == Spec => []JoinedWasAccepted
<1>1. IInv => JoinedWasAccepted
  BY DEF IInv, Belief
<1> QED
  BY InvariantHolds, <1>1, PTL

\* A leave that was answered is final.
THEOREM LeaveIsFinal == Spec => []LeftIsGone
<1>1. IInv => LeftIsGone
  BY DEF IInv, Farewell, LeftForGood, LeftIsGone
<1> QED
  BY InvariantHolds, <1>1, PTL

-----------------------------------------------------------------------------
(* ClientWorld *)

LastResponse == responses[Len(responses)]

LastWordIsLastResponse ==
    word = "UnderWay" => Len(responses) > 0 /\ LastResponse = rooms[Me]

IsInARoom == rooms[Me] \in Room

WorldInv == WorldTypeOK /\ IsInARoom /\ LastWordIsLastResponse /\ RoomIsTheServers

-----------------------------------------------------------------------------
(* Sequences of responses *)

LEMMA BoundedSequences ==
    ASSUME NEW S, NEW n \in Nat, NEW s
    PROVE  s \in BoundedSeq(S, n) <=> s \in Seq(S) /\ Len(s) <= n
<1>1. ASSUME s \in BoundedSeq(S, n) PROVE s \in Seq(S) /\ Len(s) <= n
    <2>1. PICK m \in 0 .. n : s \in [1 .. m -> S]
        BY <1>1 DEF BoundedSeq, SeqOf
    <2>2. m \in Nat /\ m <= n
        OBVIOUS
    <2>3. s \in Seq(S) /\ Len(s) = m
        BY <2>1, <2>2, SMTT(30)
    <2> QED BY <2>2, <2>3
<1>2. ASSUME s \in Seq(S), Len(s) <= n PROVE s \in BoundedSeq(S, n)
    <2>1. Len(s) \in 0 .. n /\ s \in [1 .. Len(s) -> S]
        BY <1>2
    <2> QED BY <2>1 DEF BoundedSeq, SeqOf
<1> QED BY <1>1, <1>2

\* What remains after one response was handled or given up.
LEMMA RemovedResponses ==
    ASSUME NEW S, NEW s \in Seq(S), NEW i \in 1 .. Len(s)
    PROVE  /\ RemoveAt(s, i) \in Seq(S)
           /\ Len(RemoveAt(s, i)) = Len(s) - 1
           /\ i # Len(s) => RemoveAt(s, i)[Len(s) - 1] = s[Len(s)]
<1> DEFINE before == SubSeq(s, 1, i - 1)
           after  == SubSeq(s, i + 1, Len(s))
<1>1. before \in Seq(S) /\ Len(before) = i - 1
    OBVIOUS
<1>2. after \in Seq(S) /\ Len(after) = Len(s) - i
    OBVIOUS
<1>3. i # Len(s) => after[Len(s) - i] = s[Len(s)]
    OBVIOUS
<1>4. RemoveAt(s, i) = before \o after
    BY DEF RemoveAt
<1> HIDE DEF before, after
<1>5. before \o after \in Seq(S) /\ Len(before \o after) = Len(s) - 1
    BY <1>1, <1>2
<1>6. i # Len(s) => (before \o after)[Len(s) - 1] = after[Len(s) - i]
    BY <1>1, <1>2
<1> QED BY <1>3, <1>4, <1>5, <1>6

-----------------------------------------------------------------------------
(* Type correctness, one action at a time *)

LEMMA ConstantsTyped ==
    /\ Me \in Player /\ Other \subseteq Player /\ Me \notin Other
    /\ NoRoom \notin Room
    /\ MaxSnapshots \in Nat \ {0} /\ MaxResponses \in Nat
BY WorldAssumption DEF Player

LEMMA AnnouncedTyped ==
    ASSUME NEW p \in Player, NEW from \in Places, NEW to \in Places
    PROVE  Announced(p, from, to) \subseteq Announcements
BY DEF Announced, Announcements, Places

LEMMA ShownTyped ==
    ASSUME NEW room, NEW visible \in Shown(room) PROVE visible \subseteq Player
BY DEF Shown, Members

LEMMA ResponsesTyped ==
    ASSUME WorldTypeOK PROVE responses \in Seq(Room) /\ Len(responses) <= MaxResponses
BY BoundedSequences, ConstantsTyped DEF WorldTypeOK

LEMMA RemovalTyped ==
    ASSUME WorldTypeOK, NEW i \in DOMAIN responses
    PROVE  RemoveAt(responses, i) \in BoundedSeq(Room, MaxResponses)
<1>1. responses \in Seq(Room) /\ Len(responses) <= MaxResponses
    BY ResponsesTyped
<1>2. i \in 1 .. Len(responses)
    BY <1>1
<1>3. RemoveAt(responses, i) \in Seq(Room)
      /\ Len(RemoveAt(responses, i)) = Len(responses) - 1
    BY <1>1, <1>2, RemovedResponses
<1>4. Len(RemoveAt(responses, i)) <= MaxResponses
    BY <1>1, <1>3, ConstantsTyped
<1> QED BY <1>3, <1>4, BoundedSequences, ConstantsTyped

\* A network that holds nothing.
LEMMA EmptyTyped ==
    <<>> \in BoundedSeq(Room, MaxResponses) /\ <<>> \in BoundedSeq(Snapshots, MaxSnapshots)
<1>1. <<>> \in Seq(Room) /\ Len(<<>>) <= MaxResponses
    BY ConstantsTyped
<1>2. <<>> \in Seq(Snapshots) /\ Len(<<>>) <= MaxSnapshots
    BY ConstantsTyped
<1> QED BY <1>1, <1>2, BoundedSequences, ConstantsTyped

LEMMA WorldInitTyped == ASSUME WorldInit PROVE WorldTypeOK
<1>1. reachable \in BOOLEAN /\ isJoined \in BOOLEAN
    BY Zenon DEF WorldInit
<1> QED BY <1>1, EmptyTyped DEF WorldInit, WorldTypeOK, Places

LEMMA SnapshotsTyped ==
    ASSUME WorldTypeOK PROVE snapshots \in Seq(Snapshots) /\ Len(snapshots) <= MaxSnapshots
BY BoundedSequences, ConstantsTyped DEF WorldTypeOK

\* The snapshot of a new tick goes behind those that remain.
LEMMA TickTyped ==
    ASSUME WorldTypeOK, NEW s \in Snapshots
    PROVE  Append(Remaining, s) \in BoundedSeq(Snapshots, MaxSnapshots)
<1>1. Remaining \in Seq(Snapshots) /\ Len(Remaining) < MaxSnapshots
    BY SnapshotsTyped, ConstantsTyped DEF Remaining
<1>2. Append(Remaining, s) \in Seq(Snapshots) /\ Len(Append(Remaining, s)) <= MaxSnapshots
    BY <1>1, ConstantsTyped
<1> QED BY <1>2, BoundedSequences, ConstantsTyped

\* What is newer than the snapshot handled.
LEMMA NewerTyped ==
    ASSUME WorldTypeOK, NEW k \in DOMAIN snapshots
    PROVE  SubSeq(snapshots, k + 1, Len(snapshots)) \in BoundedSeq(Snapshots, MaxSnapshots)
<1>1. k \in 1 .. Len(snapshots) /\ snapshots \in Seq(Snapshots) /\ Len(snapshots) <= MaxSnapshots
    BY SnapshotsTyped
<1>2. /\ SubSeq(snapshots, k + 1, Len(snapshots)) \in Seq(Snapshots)
      /\ Len(SubSeq(snapshots, k + 1, Len(snapshots))) = Len(snapshots) - k
    BY <1>1
<1>3. Len(snapshots) - k <= MaxSnapshots
    BY <1>1, ConstantsTyped
<1> QED BY <1>2, <1>3, BoundedSequences, ConstantsTyped

LEMMA WorldNextTyped == ASSUME WorldTypeOK, IsInARoom, [WorldNext]_worldVars PROVE WorldTypeOK'
<1> USE ConstantsTyped
<1>1. ASSUME Tick PROVE WorldTypeOK'
    <2>1. \A visible \in Shown(rooms[Me]) : [room |-> rooms[Me], players |-> visible] \in Snapshots
        BY ShownTyped DEF Snapshots, IsInARoom
    <2>2. snapshots' \in BoundedSeq(Snapshots, MaxSnapshots)
        BY <1>1, <2>1, TickTyped DEF Tick
    <2> QED BY <1>1, <2>2 DEF Tick, WorldTypeOK, serverSide, world
<1>2. ASSUME NEW p \in Other, NEW to \in Places, OtherMoves(p, to) PROVE WorldTypeOK'
    BY <1>2, AnnouncedTyped DEF OtherMoves, WorldTypeOK, network, world
<1>3. ASSUME NEW to \in Room, ChangeRoom(to) PROVE WorldTypeOK'
    <2>1. rooms' \in [Player -> Places] /\ rooms[Me] \in Places /\ to \in Places
        BY <1>3 DEF ChangeRoom, WorldTypeOK, Places
    <2>2. unsent' \subseteq Announcements
        BY <1>3, <2>1, AnnouncedTyped DEF ChangeRoom, WorldTypeOK
    <2>3. responses' \in BoundedSeq(Room, MaxResponses)
        <3>1. CASE CanRespond /\ responses' = Append(responses, to)
            <4>1. Append(responses, to) \in Seq(Room)
                  /\ Len(Append(responses, to)) <= MaxResponses
                BY <3>1, ResponsesTyped DEF CanRespond
            <4> QED BY <3>1, <4>1, BoundedSequences
        <3>2. CASE UNCHANGED responses
            BY <3>2 DEF WorldTypeOK
        <3> QED BY <1>3, <3>1, <3>2, Zenon DEF ChangeRoom
    <2>4. word' \in {"Heard", "UnderWay", "Missed"}
        BY <1>3 DEF ChangeRoom
    <2> QED BY <1>3, <2>1, <2>2, <2>3, <2>4, Zenon DEF ChangeRoom, WorldTypeOK, world
<1>4. ASSUME NEW a \in unsent, Broadcast(a) PROVE WorldTypeOK'
    BY <1>4 DEF Broadcast, WorldTypeOK, world
<1>5. ASSUME Rebind PROVE WorldTypeOK'
    BY <1>5 DEF Rebind, WorldTypeOK, network, world
<1>6. ASSUME HandleJoinResponse PROVE WorldTypeOK'
    BY <1>6 DEF HandleJoinResponse, WorldTypeOK, serverSide, network
<1>7. ASSUME Recover PROVE WorldTypeOK'
    <2>1. isJoined' \in BOOLEAN /\ reachable' \in BOOLEAN
        BY <1>7, Zenon DEF Recover
    <2> QED BY <1>7, <2>1, EmptyTyped DEF Recover, WorldTypeOK
<1>8. ASSUME NEW i \in DOMAIN responses, HandleJoinRoomResponse(i) PROVE WorldTypeOK'
    <2>1. responses[i] \in Places
        BY <1>8, ResponsesTyped DEF Places
    <2>2. responses' \in BoundedSeq(Room, MaxResponses)
        BY <1>8, RemovalTyped DEF HandleJoinRoomResponse
    <2>3. word' \in {"Heard", "UnderWay", "Missed"}
        BY <1>8 DEF HandleJoinRoomResponse, WorldTypeOK
    <2> QED BY <1>8, <2>1, <2>2, <2>3 DEF HandleJoinRoomResponse, WorldTypeOK, serverSide
<1>9. ASSUME NEW i \in DOMAIN responses, GiveUpResponse(i) PROVE WorldTypeOK'
    BY <1>9, RemovalTyped DEF GiveUpResponse, WorldTypeOK, serverSide, world
<1>10. ASSUME NEW a \in events, HandleAnnouncement(a) PROVE WorldTypeOK'
    <2>1. a.player \in Player
        BY <1>10 DEF WorldTypeOK, Announcements
    <2>2. players' \subseteq Player
        BY <1>10, <2>1 DEF HandleAnnouncement, WorldTypeOK
    <2> QED BY <1>10, <2>2 DEF HandleAnnouncement, WorldTypeOK, serverSide, network
<1>11. ASSUME NEW a \in events, LoseAnnouncement(a) PROVE WorldTypeOK'
    BY <1>11 DEF LoseAnnouncement, WorldTypeOK, serverSide, world
<1>12. ASSUME NEW k \in DOMAIN snapshots, HandlePlayerSnapshot(k) PROVE WorldTypeOK'
    <2>1. snapshots[k].room \in Room /\ snapshots[k].players \subseteq Player
        <3>1. snapshots[k] \in Snapshots
            BY <1>12, SnapshotsTyped
        <3> QED BY <3>1 DEF Snapshots
    <2>2. snapshots' \in BoundedSeq(Snapshots, MaxSnapshots)
        BY <1>12, NewerTyped DEF HandlePlayerSnapshot
    <2>3. currentRoom' \in Places /\ players' \subseteq Player
        BY <1>12, <2>1 DEF HandlePlayerSnapshot, ReplacePlayers, Places
    <2> QED BY <1>12, <2>2, <2>3 DEF HandlePlayerSnapshot, WorldTypeOK, serverSide
<1>13. ASSUME UNCHANGED worldVars PROVE WorldTypeOK'
    BY <1>13 DEF worldVars, serverSide, network, world, WorldTypeOK
<1> QED
    BY <1>1, <1>2, <1>3, <1>4, <1>5, <1>6, <1>7, <1>8, <1>9, <1>10, <1>11, <1>12,
       <1>13 DEF WorldNext

-----------------------------------------------------------------------------
(* The last word on the own room *)

WordIsKept == IsInARoom' /\ LastWordIsLastResponse' /\ RoomIsTheServers'

LEMMA UntouchedWord ==
    ASSUME WorldInv, UNCHANGED <<rooms, responses, currentRoom, word>> PROVE WordIsKept
BY DEF WorldInv, WordIsKept, IsInARoom, LastWordIsLastResponse, LastResponse, RoomIsTheServers

\* A response is taken out: the last one remains, unless it is that one.
LEMMA RemovalKeepsLastResponse ==
    ASSUME WorldInv, NEW i \in DOMAIN responses, UNCHANGED rooms,
           responses' = RemoveAt(responses, i),
           word' = "UnderWay" => word = "UnderWay" /\ i # Len(responses)
    PROVE  LastWordIsLastResponse'
<1>1. responses \in Seq(Room) /\ i \in 1 .. Len(responses)
    BY ResponsesTyped DEF WorldInv
<1>2. /\ Len(responses') = Len(responses) - 1
      /\ i # Len(responses) => responses'[Len(responses) - 1] = responses[Len(responses)]
    BY <1>1, RemovedResponses
<1>3. Len(responses) \in Nat
    BY <1>1
<1>4. ASSUME word' = "UnderWay"
      PROVE  Len(responses') > 0 /\ LastResponse' = rooms'[Me]
    <2>1. i # Len(responses) /\ LastResponse = rooms[Me]
        BY <1>4 DEF WorldInv, LastWordIsLastResponse
    <2>2. Len(responses) - 1 > 0
        BY <1>1, <1>3, <2>1
    <2>3. LastResponse' = LastResponse
        BY <1>2, <2>1 DEF LastResponse
    <2> QED BY <1>2, <2>1, <2>2, <2>3
<1> QED BY <1>4 DEF LastWordIsLastResponse

LEMMA NextKeepsWord == ASSUME WorldInv, [WorldNext]_worldVars PROVE WordIsKept
<1> USE DEF WordIsKept
<1>1. ASSUME Tick PROVE WordIsKept
    BY <1>1, UntouchedWord DEF Tick, serverSide, world
<1>2. ASSUME NEW p \in Other, NEW to \in Places, OtherMoves(p, to) PROVE WordIsKept
    <2>1. rooms'[Me] = rooms[Me]
        BY <1>2, ConstantsTyped DEF OtherMoves, WorldInv, WorldTypeOK
    <2> QED BY <1>2, <2>1
        DEF OtherMoves, network, world, WorldInv, IsInARoom, LastWordIsLastResponse,
            LastResponse, RoomIsTheServers
<1>3. ASSUME NEW to \in Room, ChangeRoom(to) PROVE WordIsKept
    <2>1. rooms'[Me] = to
        BY <1>3, ConstantsTyped DEF ChangeRoom, WorldInv, WorldTypeOK
    <2>2. responses \in Seq(Room)
        BY ResponsesTyped DEF WorldInv
    <2>3. LastWordIsLastResponse'
        <3>1. CASE responses' = Append(responses, to)
            BY <2>1, <2>2, <3>1 DEF LastWordIsLastResponse, LastResponse
        <3>2. CASE word' = "Missed"
            BY <3>2 DEF LastWordIsLastResponse
        <3> QED BY <1>3, <3>1, <3>2 DEF ChangeRoom
    <2>4. word' # "Heard"
        BY <1>3 DEF ChangeRoom
    <2> QED BY <2>1, <2>3, <2>4 DEF IsInARoom, RoomIsTheServers
<1>4. ASSUME NEW a \in unsent, Broadcast(a) PROVE WordIsKept
    BY <1>4, UntouchedWord DEF Broadcast, world
<1>5. ASSUME Rebind PROVE WordIsKept
    BY <1>5, UntouchedWord DEF Rebind, network, world
<1>6. ASSUME HandleJoinResponse PROVE WordIsKept
    BY <1>6 DEF HandleJoinResponse, serverSide, WorldInv, IsInARoom, LastWordIsLastResponse,
                RoomIsTheServers
<1>7. ASSUME Recover PROVE WordIsKept
    BY <1>7 DEF Recover, WorldInv, IsInARoom, LastWordIsLastResponse, RoomIsTheServers
<1>8. ASSUME NEW i \in DOMAIN responses, HandleJoinRoomResponse(i) PROVE WordIsKept
    <2>1. IsInARoom'
        BY <1>8 DEF HandleJoinRoomResponse, serverSide, WorldInv, IsInARoom
    <2>2. word' = "UnderWay" => word = "UnderWay" /\ i # Len(responses)
        BY <1>8 DEF HandleJoinRoomResponse
    <2>3. LastWordIsLastResponse'
        BY <1>8, <2>2, RemovalKeepsLastResponse DEF HandleJoinRoomResponse, serverSide
    <2>4. word' = "Heard" => i = Len(responses) /\ word = "UnderWay"
        BY <1>8 DEF HandleJoinRoomResponse
    <2>5. RoomIsTheServers'
        BY <1>8, <2>4 DEF HandleJoinRoomResponse, serverSide, WorldInv, LastWordIsLastResponse,
                          LastResponse, RoomIsTheServers
    <2> QED BY <2>1, <2>3, <2>5
<1>9. ASSUME NEW i \in DOMAIN responses, GiveUpResponse(i) PROVE WordIsKept
    <2>1. IsInARoom' /\ RoomIsTheServers'
        BY <1>9 DEF GiveUpResponse, serverSide, world, WorldInv, IsInARoom, RoomIsTheServers
    <2>2. word' = "UnderWay" => word = "UnderWay" /\ i # Len(responses)
        BY <1>9 DEF GiveUpResponse
    <2>3. LastWordIsLastResponse'
        BY <1>9, <2>2, RemovalKeepsLastResponse DEF GiveUpResponse, serverSide
    <2> QED BY <2>1, <2>3
<1>10. ASSUME NEW a \in events, HandleAnnouncement(a) PROVE WordIsKept
    BY <1>10, UntouchedWord DEF HandleAnnouncement, serverSide, network
<1>11. ASSUME NEW a \in events, LoseAnnouncement(a) PROVE WordIsKept
    BY <1>11, UntouchedWord DEF LoseAnnouncement, serverSide, world
<1>12. ASSUME NEW k \in DOMAIN snapshots, HandlePlayerSnapshot(k) PROVE WordIsKept
    <2>1. IsInARoom' /\ LastWordIsLastResponse'
        BY <1>12 DEF HandlePlayerSnapshot, serverSide, WorldInv, IsInARoom,
                     LastWordIsLastResponse, LastResponse
    <2>2. ASSUME word = "Heard" PROVE currentRoom' = currentRoom
        BY <1>12, <2>2, ConstantsTyped
        DEF HandlePlayerSnapshot, IsOfThisRoom, WorldInv, IsInARoom, RoomIsTheServers
    <2> QED BY <1>12, <2>1, <2>2 DEF HandlePlayerSnapshot, serverSide, WorldInv,
        RoomIsTheServers
<1>13. ASSUME UNCHANGED worldVars PROVE WordIsKept
    BY <1>13, UntouchedWord DEF worldVars, serverSide, network, world
<1> HIDE DEF WordIsKept
<1> QED
    BY <1>1, <1>2, <1>3, <1>4, <1>5, <1>6, <1>7, <1>8, <1>9, <1>10, <1>11, <1>12,
       <1>13 DEF WorldNext

-----------------------------------------------------------------------------
LEMMA WorldInitInvariant == ASSUME WorldInit PROVE WorldInv
<1>1. IsInARoom
    BY ConstantsTyped DEF WorldInit, Places, IsInARoom
<1> QED BY <1>1, WorldInitTyped DEF WorldInit, WorldInv, LastWordIsLastResponse,
    RoomIsTheServers

LEMMA WorldNextInvariant == ASSUME WorldInv, [WorldNext]_worldVars PROVE WorldInv'
BY WorldNextTyped, NextKeepsWord DEF WorldInv, WordIsKept

LEMMA WorldInvariant == WorldSpec => []WorldInv
BY WorldInitInvariant, WorldNextInvariant, PTL DEF WorldSpec

\* The state of a client and of what it hears stays well typed for any number of
\* rooms and players (ClientWorld.cpp, UdpClient.cpp).
THEOREM WorldTypeCorrect == WorldSpec => []WorldTypeOK
<1>1. WorldInv => WorldTypeOK
    BY DEF WorldInv
<1> QED BY <1>1, WorldInvariant, PTL

\* However room changes, recoveries, late snapshots and responses interleave, a
\* client that handled the last word on its room is in the room in which the
\* server has it (UdpClient::HandleJoinRoomResponse, ClientWorld::TrySetJoinState,
\* ClientWorld::ApplyPlayerSnapshot).
THEOREM RoomIsRight == WorldSpec => []RoomIsTheServers
<1>1. WorldInv => RoomIsTheServers
    BY DEF WorldInv
<1> QED BY <1>1, WorldInvariant, PTL

-----------------------------------------------------------------------------
(* SnapshotChunkAssembler *)

Received(a) == {i \in Index : IsReceived(a, i)}

\* Part of one tick, which is not older than the last one shown.
IsPartOfATick(a) ==
    /\ a.serverTick \in ServerTick
    /\ applied <= a.serverTick
    /\ a.chunkCount = sent[a.serverTick]
    /\ a.receivedChunkCount = Cardinality(Received(a))
    /\ \A i \in Index : IsReceived(a, i) =>
          i < a.chunkCount /\ a.chunkDataList[i] = a.serverTick

AssemblyIsPartOfATick ==
    \/ assembly = NoAssembly
    \/ HasAssembly(assembly) /\ IsPartOfATick(assembly)

ChunkInv == ChunkTypeOK /\ AssemblyIsPartOfATick /\ AppliedAgainByOtherCount

Assemblies ==
    [serverTick : ServerTick \cup {NoTick},
     chunkCount : 0 .. MaxChunkCount,
     receivedChunkCount : 0 .. MaxChunkCount - 1,
     chunkDataList : [Index -> ServerTick \cup {NoTick}]]

\* An assembly that a step may leave behind.
IsSound(a) ==
    /\ a \in Assemblies
    /\ a = NoAssembly \/ (HasAssembly(a) /\ IsPartOfATick(a))
    /\ HasAssembly(a) /\ applied # NoTick /\ a.serverTick <= applied =>
          \E newer \in ServerTick : newer > applied /\ sent[newer] # a.chunkCount

LEMMA ChunkConstantsTyped ==
    /\ MaxTick \in Nat
    /\ MaxChunkCount \in Nat
    /\ MaxChunkCount > 0
    /\ ServerTick \subseteq Nat \ {0}
    /\ Index \subseteq Nat
    /\ NoTick \notin ServerTick
BY ChunkAssumption DEF ServerTick, Index, NoTick

LEMMA TicksAreNumbers == \A t \in ServerTick \cup {NoTick} : t \in Nat
BY ChunkAssumption DEF ServerTick, NoTick

\* The empty assembly is sound, whatever was shown.
LEMMA NoAssemblyIsSound == IsSound(NoAssembly)
BY ChunkConstantsTyped DEF IsSound, Assemblies, NoAssembly, Nothing, HasAssembly, NoTick

\* What a new assembly has received is nothing.
LEMMA StartIsEmpty ==
    ASSUME NEW a, NEW tick PROVE Received(Start(a, tick)) = {}
BY DEF Received, IsReceived, Start, Nothing

\* The first places of a snapshot are as many as its chunks.
LEMMA PlacesOfATick ==
    ASSUME NEW n \in 1 .. MaxChunkCount
    PROVE  /\ IsFiniteSet({i \in Index : i < n})
           /\ Cardinality({i \in Index : i < n}) = n
<1>1. {i \in Index : i < n} = 0 .. n - 1
  BY ChunkConstantsTyped DEF Index
<1>2. n - 1 \in Int /\ 0 <= n - 1 /\ n - 1 - 0 + 1 = n
  BY ChunkConstantsTyped
<1>3. IsFiniteSet(0 .. n - 1) /\ Cardinality(0 .. n - 1) = n
  BY <1>2, FS_Interval
<1>4. QED BY <1>1, <1>3

\* The assembly to which an accepted chunk is added is part of the chunk's tick.
LEMMA CurrentIsPart ==
    ASSUME ChunkTypeOK, NEW a, IsSound(a), NEW tick \in ServerTick,
           ~ IsStale(a, tick), ~ IsOlderThanAssembly(a, tick)
    PROVE  /\ IsSound(Current(a, tick))
           /\ HasAssembly(Current(a, tick))
           /\ IsPartOfATick(Current(a, tick))
           /\ Current(a, tick).serverTick = tick
<1>1. applied <= tick
  BY ChunkConstantsTyped DEF IsStale, ChunkTypeOK, NoTick
<1>2. sent[tick] \in 1 .. MaxChunkCount
  BY DEF ChunkTypeOK
<1>3. CASE ~ NeedsReset(a, tick)
  <2>1. HasAssembly(a) /\ ~ (tick > a.serverTick) /\ ~ (tick < a.serverTick)
    BY <1>3 DEF NeedsReset, IsOlderThanAssembly
  <2>2. a.serverTick \in Nat /\ tick \in Nat
    <3>1. a.serverTick \in ServerTick \cup {NoTick}
      BY DEF IsSound, Assemblies
    <3>2. QED BY <3>1, TicksAreNumbers
  <2>3. tick = a.serverTick
    BY <2>1, <2>2
  <2>4. IsPartOfATick(a)
    BY <2>1 DEF IsSound, NoAssembly, HasAssembly
  <2>5. QED
    BY <1>3, <2>1, <2>3, <2>4 DEF Current
<1>4. CASE NeedsReset(a, tick)
  <2> DEFINE new == Start(a, tick)
  <2>1. Current(a, tick) = new
    BY <1>4 DEF Current
  <2>2. new.serverTick = tick /\ new.chunkCount = sent[tick] /\ new.receivedChunkCount = 0
    BY DEF Start
  <2>3. new \in Assemblies
    BY <1>2, ChunkConstantsTyped DEF Start, Assemblies, Nothing
  <2>4. HasAssembly(new)
    BY <1>2, <2>2 DEF HasAssembly
  <2>5. IsPartOfATick(new)
    <3>1. Cardinality(Received(new)) = 0
      BY StartIsEmpty, FS_EmptySet
    <3>2. \A i \in Index : ~ IsReceived(new, i)
      BY StartIsEmpty DEF Received
    <3>3. QED BY <1>1, <2>2, <3>1, <3>2 DEF IsPartOfATick
  <2>6. ASSUME applied # NoTick, new.serverTick <= applied
        PROVE  \E newer \in ServerTick : newer > applied /\ sent[newer] # new.chunkCount
    <3>1. tick = applied
      BY <1>1, <2>2, <2>6, ChunkConstantsTyped DEF ChunkTypeOK, NoTick
    <3>2. HasAssembly(a)
      BY <2>6, <3>1 DEF IsStale
    <3>3. IsPartOfATick(a)
      BY <3>2 DEF IsSound, NoAssembly, HasAssembly
    <3>4. CASE a.serverTick > applied
      <4>1. a.serverTick \in ServerTick /\ a.chunkCount = sent[a.serverTick]
        BY <3>3 DEF IsPartOfATick
      <4>2. ~ (tick > a.serverTick)
        <5>1. a.serverTick \in Nat /\ tick \in Nat
          BY <4>1, TicksAreNumbers
        <5>2. QED BY <3>1, <3>4, <5>1
      <4>3. sent[tick] # a.chunkCount
        BY <1>4, <3>2, <4>2 DEF NeedsReset
      <4>4. QED BY <2>2, <3>4, <4>1, <4>3
    <3>5. CASE a.serverTick = applied
      BY <1>4, <2>2, <2>6, <3>1, <3>2, <3>3, <3>5, ChunkConstantsTyped
         DEF NeedsReset, IsPartOfATick, IsSound
    <3>6. a.serverTick \in Nat /\ applied \in Nat /\ applied <= a.serverTick
      <4>1. a.serverTick \in ServerTick /\ applied <= a.serverTick
            /\ applied \in ServerTick \cup {NoTick}
        BY <3>3 DEF IsPartOfATick, ChunkTypeOK
      <4>2. QED BY <4>1, TicksAreNumbers
    <3>7. QED
      BY <3>4, <3>5, <3>6
  <2> HIDE DEF new
  <2>7. IsSound(new)
    BY <2>3, <2>4, <2>5, <2>6 DEF IsSound
  <2>8. QED BY <2>1, <2>2, <2>4, <2>5, <2>7
<1>5. QED BY <1>3, <1>4

\* One more chunk: the count follows, and the rest stays as it was.
LEMMA WithChunkIsPart ==
    ASSUME ChunkTypeOK, NEW a, IsSound(a), HasAssembly(a), IsPartOfATick(a),
           NEW i \in Index, i < sent[a.serverTick], ~ IsReceived(a, i)
    PROVE  /\ IsPartOfATick(WithChunk(a, a.serverTick, i))
           /\ HasAssembly(WithChunk(a, a.serverTick, i))
           /\ WithChunk(a, a.serverTick, i).chunkDataList
                 \in [Index -> ServerTick \cup {NoTick}]
<1> DEFINE next == WithChunk(a, a.serverTick, i)
<1>1. /\ next.serverTick = a.serverTick
      /\ next.chunkCount = a.chunkCount
      /\ next.receivedChunkCount = a.receivedChunkCount + 1
      /\ next.chunkDataList = [a.chunkDataList EXCEPT ![i] = a.serverTick]
  BY DEF WithChunk
<1>2. a.chunkDataList \in [Index -> ServerTick \cup {NoTick}] /\ a.serverTick \in ServerTick
  BY DEF IsSound, Assemblies, IsPartOfATick
<1>3. \A j \in Index :
          next.chunkDataList[j] = IF j = i THEN a.serverTick ELSE a.chunkDataList[j]
  BY <1>1, <1>2
<1>4. Received(next) = Received(a) \cup {i}
  BY <1>2, <1>3, ChunkConstantsTyped DEF Received, IsReceived
<1>5. IsFiniteSet(Received(a)) /\ i \notin Received(a)
  <2>1. IsFiniteSet(Index)
    BY FS_Interval, ChunkConstantsTyped DEF Index
  <2>2. QED BY <2>1, FS_Subset DEF Received
<1>6. Cardinality(Received(next)) = Cardinality(Received(a)) + 1
  BY <1>4, <1>5, FS_AddElement
<1>7. \A j \in Index : IsReceived(next, j) =>
          j < next.chunkCount /\ next.chunkDataList[j] = next.serverTick
  BY <1>1, <1>3 DEF IsReceived, IsPartOfATick
<1>8. next.chunkDataList \in [Index -> ServerTick \cup {NoTick}]
  BY <1>1, <1>2
<1> HIDE DEF next
<1>9. IsPartOfATick(next)
  BY <1>1, <1>6, <1>7 DEF IsPartOfATick
<1>10. HasAssembly(next)
  BY <1>1 DEF HasAssembly
<1>11. QED BY <1>8, <1>9, <1>10 DEF next

\* All chunks counted: every place of the tick is filled, and with its own data.
LEMMA CompleteIsWhole ==
    ASSUME ChunkTypeOK, NEW a, IsPartOfATick(a), IsComplete(a),
           a.chunkDataList \in [Index -> ServerTick \cup {NoTick}]
    PROVE  [serverTick |-> a.serverTick, chunkDataList |-> a.chunkDataList]
               = Stream!Whole(a.serverTick)
<1> DEFINE places == {i \in Index : i < a.chunkCount}
<1>1. a.chunkCount \in 1 .. MaxChunkCount
  BY DEF IsPartOfATick, ChunkTypeOK
<1>2. IsFiniteSet(places) /\ Cardinality(places) = a.chunkCount
  BY <1>1, PlacesOfATick
<1>3. Received(a) \subseteq places
  BY DEF Received, IsPartOfATick
<1>4. Cardinality(Received(a)) >= a.chunkCount
  BY DEF IsPartOfATick, IsComplete
<1>5. /\ Cardinality(Received(a)) <= a.chunkCount
      /\ Cardinality(Received(a)) = a.chunkCount => Received(a) = places
      /\ Cardinality(Received(a)) \in Nat
  BY <1>2, <1>3, FS_Subset, FS_CardinalityType
<1>6. Received(a) = places
  BY <1>1, <1>4, <1>5
<1>7. \A i \in Index :
          a.chunkDataList[i] = IF i < sent[a.serverTick] THEN a.serverTick ELSE NoTick
  BY <1>6 DEF Received, IsReceived, IsPartOfATick
<1>8. a.chunkDataList =
          [i \in Index |-> IF i < sent[a.serverTick] THEN a.serverTick ELSE NoTick]
  BY <1>7
<1>9. QED BY <1>8 DEF Stream!Whole, Stream!Index, Stream!NoTick, Index, NoTick

\* Short of the last chunk, the assembly can be kept.
LEMMA IncompleteIsSound ==
    ASSUME ChunkTypeOK, NEW a, IsSound(a), HasAssembly(a), IsPartOfATick(a),
           NEW i \in Index, i < sent[a.serverTick], ~ IsReceived(a, i),
           ~ IsComplete(WithChunk(a, a.serverTick, i))
    PROVE  IsSound(WithChunk(a, a.serverTick, i))
<1> DEFINE next == WithChunk(a, a.serverTick, i)
<1>1. /\ next = [serverTick |-> a.serverTick, chunkCount |-> a.chunkCount,
                 receivedChunkCount |-> a.receivedChunkCount + 1,
                 chunkDataList |-> next.chunkDataList]
      /\ next.serverTick = a.serverTick
      /\ next.chunkCount = a.chunkCount
      /\ next.receivedChunkCount = a.receivedChunkCount + 1
  BY DEF WithChunk
<1>2. /\ IsPartOfATick(next) /\ HasAssembly(next)
      /\ next.chunkDataList \in [Index -> ServerTick \cup {NoTick}]
  BY WithChunkIsPart
<1>3. a.chunkCount \in 0 .. MaxChunkCount /\ a.receivedChunkCount \in 0 .. MaxChunkCount - 1
  BY DEF IsSound, Assemblies
<1>4. ~ (next.receivedChunkCount >= next.chunkCount)
  BY DEF IsComplete
<1>5. next.receivedChunkCount \in 0 .. MaxChunkCount - 1
  BY <1>1, <1>3, <1>4, ChunkConstantsTyped
<1>6. a.serverTick \in ServerTick
  BY DEF IsPartOfATick
<1> HIDE DEF next
<1>7. next \in Assemblies
  BY <1>1, <1>2, <1>3, <1>5, <1>6 DEF Assemblies
<1>8. HasAssembly(next) /\ applied # NoTick /\ next.serverTick <= applied =>
          \E newer \in ServerTick : newer > applied /\ sent[newer] # next.chunkCount
  BY <1>1 DEF IsSound
<1>9. IsSound(next)
  BY <1>2, <1>7, <1>8 DEF IsSound
<1>10. QED BY <1>9 DEF next

LEMMA ChunkInitHolds == ChunkInit => ChunkInv
<1> SUFFICES ASSUME ChunkInit PROVE ChunkInv
  OBVIOUS
<1>1. ChunkTypeOK
  BY ChunkConstantsTyped DEF ChunkInit, ChunkTypeOK, NoAssembly, NothingShown, Nothing
<1>2. AssemblyIsPartOfATick /\ AppliedAgainByOtherCount
  BY DEF ChunkInit, AssemblyIsPartOfATick, AppliedAgainByOtherCount, HasAssembly, NoAssembly
<1>3. QED BY <1>1, <1>2 DEF ChunkInv

\* A sound assembly can be left to wait.
LEMMA WaitKeeps ==
    ASSUME ChunkInv, NEW a, IsSound(a), Wait(a), UNCHANGED sent
    PROVE  ChunkInv'
<1>1. ChunkTypeOK'
  BY DEF ChunkInv, ChunkTypeOK, IsSound, Assemblies, Wait
<1>2. AssemblyIsPartOfATick'
  BY DEF AssemblyIsPartOfATick, IsSound, IsPartOfATick, Received, IsReceived, HasAssembly, Wait
<1>3. AppliedAgainByOtherCount'
  BY DEF AppliedAgainByOtherCount, IsSound, HasAssembly, Wait
<1>4. QED BY <1>1, <1>2, <1>3 DEF ChunkInv

\* What a completed assembly leaves behind, and what it shows.
LEMMA CompleteShows ==
    ASSUME ChunkInv, NEW a, IsPartOfATick(a), IsComplete(a), Complete(a), UNCHANGED sent,
           a.chunkDataList \in [Index -> ServerTick \cup {NoTick}]
    PROVE  ChunkInv' /\ Stream!Show(a.serverTick)
<1>1. a.serverTick \in ServerTick /\ applied <= a.serverTick
  BY DEF IsPartOfATick
<1>2. ChunkTypeOK'
  <2>1. NoAssembly \in Assemblies
    BY NoAssemblyIsSound DEF IsSound
  <2>2. QED BY <1>1, <2>1 DEF ChunkInv, ChunkTypeOK, Assemblies, Complete
<1>3. AssemblyIsPartOfATick' /\ AppliedAgainByOtherCount'
  BY DEF AssemblyIsPartOfATick, AppliedAgainByOtherCount, HasAssembly, NoAssembly, Complete
<1>4. Stream!Show(a.serverTick)
  <2>1. shown' = Stream!Whole(a.serverTick)
    BY CompleteIsWhole DEF Complete, ChunkInv
  <2>2. a.serverTick >= applied
    BY <1>1, TicksAreNumbers DEF ChunkInv, ChunkTypeOK
  <2>3. QED BY <2>1, <2>2 DEF Stream!Show, Complete
<1>5. QED BY <1>2, <1>3, <1>4 DEF ChunkInv

\* A chunk keeps the invariant; it shows a whole snapshot or nothing.
LEMMA ChunkPushed ==
    ASSUME ChunkInv, NEW tick \in ServerTick, NEW i \in Index, Push(tick, i)
    PROVE  ChunkInv' /\ (Stream!Show(tick) \/ UNCHANGED <<sent, applied, shown>>)
<1>1. PICK a \in {assembly, NoAssembly} : PushChunk(a, tick, i)
  BY DEF Push, AfterCleanup
<1>2. i < sent[tick] /\ UNCHANGED sent
  BY DEF Push
<1>3. IsSound(a)
  <2>1. IsSound(assembly)
    BY DEF ChunkInv, ChunkTypeOK, AssemblyIsPartOfATick, AppliedAgainByOtherCount, IsSound,
           Assemblies
  <2>2. QED BY <2>1, NoAssemblyIsSound
<1>4. CASE IsStale(a, tick) \/ IsOlderThanAssembly(a, tick)
  <2>1. Wait(a)
    BY <1>1, <1>4 DEF PushChunk
  <2>2. QED BY <1>2, <1>3, <2>1, WaitKeeps DEF Wait
<1>5. CASE ~ IsStale(a, tick) /\ ~ IsOlderThanAssembly(a, tick)
  <2> DEFINE current == Current(a, tick)
             next == WithChunk(current, tick, i)
  <2>1. /\ IsSound(current) /\ HasAssembly(current) /\ IsPartOfATick(current)
        /\ current.serverTick = tick
    BY <1>3, <1>5, CurrentIsPart DEF ChunkInv
  <2>2. IF IsReceived(current, i) THEN Wait(current)
        ELSE IF IsComplete(next) THEN Complete(next)
        ELSE Wait(next)
    BY <1>1, <1>5 DEF PushChunk
  <2>3. next.serverTick = tick
    BY <2>1 DEF WithChunk
  <2> HIDE DEF current
  <2>4. CASE IsReceived(current, i)
    BY <1>2, <2>1, <2>2, <2>4, WaitKeeps DEF Wait
  <2>5. CASE ~ IsReceived(current, i) /\ ~ IsComplete(next)
    <3>1. IsSound(next)
      BY <1>2, <2>1, <2>5, IncompleteIsSound DEF ChunkInv
    <3>2. Wait(next)
      BY <2>2, <2>5
    <3> HIDE DEF next
    <3>3. QED BY <1>2, <3>1, <3>2, WaitKeeps DEF Wait
  <2>6. CASE ~ IsReceived(current, i) /\ IsComplete(next)
    <3>1. IsPartOfATick(next) /\ next.chunkDataList \in [Index -> ServerTick \cup {NoTick}]
      BY <1>2, <2>1, <2>6, WithChunkIsPart DEF ChunkInv
    <3>2. Complete(next)
      BY <2>2, <2>6
    <3> HIDE DEF next
    <3>3. QED BY <1>2, <2>3, <2>6, <3>1, <3>2, CompleteShows
  <2>7. QED BY <2>4, <2>5, <2>6
<1>6. QED BY <1>4, <1>5

LEMMA ChunkNextHolds == ChunkInv /\ [ChunkNext]_chunkVars => ChunkInv'
<1> SUFFICES ASSUME ChunkInv, [ChunkNext]_chunkVars PROVE ChunkInv'
  OBVIOUS
<1>1. CASE ResetRoom
  <2>1. NoAssembly \in Assemblies
    BY NoAssemblyIsSound DEF IsSound
  <2>2. ChunkTypeOK'
    BY <1>1, <2>1 DEF ResetRoom, ChunkInv, ChunkTypeOK, Assemblies
  <2>3. QED
    BY <1>1, <2>2 DEF ResetRoom, ChunkInv, AssemblyIsPartOfATick, AppliedAgainByOtherCount,
                      HasAssembly, NoAssembly
<1>2. ASSUME NEW tick \in ServerTick, NEW i \in Index, Push(tick, i) PROVE ChunkInv'
  BY <1>2, ChunkPushed
<1>3. CASE UNCHANGED chunkVars
  BY <1>3 DEF chunkVars, ChunkInv, ChunkTypeOK, AssemblyIsPartOfATick,
              AppliedAgainByOtherCount,
              IsPartOfATick, Received, IsReceived, HasAssembly
<1>4. QED BY <1>1, <1>2, <1>3 DEF ChunkNext

LEMMA ChunkInvariantHolds == ChunkSpec => []ChunkInv
BY ChunkInitHolds, ChunkNextHolds, PTL DEF ChunkSpec

\* Every part of an assembly stays within its bounds, in particular the count of
\* received chunks stays below the number of chunks while the assembly waits.
THEOREM ChunkTypeCorrect == ChunkSpec => []ChunkTypeOK
<1>1. ChunkInv => ChunkTypeOK
  BY DEF ChunkInv
<1>2. QED BY <1>1, ChunkInvariantHolds, PTL

\* A tick already shown is assembled again only when a chunk of another count has
\* displaced the newer snapshot that was under way.
THEOREM AppliedAgainIsDisplacement == ChunkSpec => []AppliedAgainByOtherCount
<1>1. ChunkInv => AppliedAgainByOtherCount
  BY DEF ChunkInv
<1>2. QED BY <1>1, ChunkInvariantHolds, PTL

\* The assembler is an implementation of the stream: in whatever order the chunks
\* of whichever ticks arrive, only whole snapshots are shown, and none goes back.
THEOREM AssemblerImplementsStream == ChunkSpec => ImplementsStream
<1>1. ChunkInit => Stream!Init
  BY DEF ChunkInit, NothingShown, Nothing, ServerTick, Index, NoTick,
         Stream!Init, Stream!Tick, Stream!Index, Stream!NoTick
<1>2. ChunkInv /\ [ChunkNext]_chunkVars => [Stream!Next]_<<sent, applied, shown>>
  <2> SUFFICES ASSUME ChunkInv, [ChunkNext]_chunkVars
               PROVE  Stream!Next \/ UNCHANGED <<sent, applied, shown>>
    OBVIOUS
  <2>1. CASE ResetRoom
    BY <2>1 DEF ResetRoom, Stream!Next, Stream!Reset, NoTick, Stream!NoTick
  <2>2. ASSUME NEW tick \in ServerTick, NEW i \in Index, Push(tick, i)
        PROVE  Stream!Next \/ UNCHANGED <<sent, applied, shown>>
    BY <2>2, ChunkPushed DEF Stream!Next, Stream!Tick, ServerTick
  <2>3. CASE UNCHANGED chunkVars
    BY <2>3 DEF chunkVars
  <2>4. QED BY <2>1, <2>2, <2>3 DEF ChunkNext
<1>3. QED BY <1>1, <1>2, ChunkInvariantHolds, PTL DEF ChunkSpec, ImplementsStream, Stream!Spec
=============================================================================
