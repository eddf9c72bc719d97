-------------------------- MODULE ClientConnection --------------------------
(***************************************************************************)
(* The connection of one client: the update thread of                      *)
(* Client/Runtime/ClientRuntime.cpp, which joins, notices that the server  *)
(* is silent, and recovers on a new socket; the receive threads of         *)
(* Client/Net/UdpClient.cpp; the main thread of                            *)
(* Client/App/GameClientApp.cpp, which ends it all; and the peer of this   *)
(* client at the server, by its session token.                             *)
(*                                                                         *)
(* A socket stands for its port.  What was sent stays on the network until *)
(* it is lost, so that it may arrive late, repeatedly and in any order; a  *)
(* reliable notice is dispatched once.  Time is a choice.  An Update in    *)
(* which nothing is due is left out.                                       *)
(***************************************************************************)
EXTENDS Naturals

CONSTANTS Port, NoPort

ASSUME PortAssumption == NoPort \notin Port

VARIABLES
    login,       \* accountLoginState_.state_
    registry,    \* the port this client's login waits at: AuthenticatedAccountRegistry
    server,      \* the state of the peer with this client's token, and its port
    requests,    \* JoinRequest and LeaveRequest on the network, with their port
    answers,     \* JoinResponse, LeaveResponse and ServerDisconnect
    port,        \* the socket of the client's transport
    joined,      \* world_.isJoined_
    heard,       \* lastServerPacketReceiveTimeCount_ # 0
    kicked,      \* serverDisconnectReason_ # None
    left,        \* leaveResponseReceived_
    handshake,   \* joinHandshakeState_.state_
    update,      \* where the update thread is in Update
    running,     \* isRunning_ of the runtime
    main,        \* where the main thread is
    accepted,    \* ghost: the server has let the client in on its present port
    crossed      \* ghost: a JoinResponse came between BeginRecovery and StopTransport

net == <<requests, answers>>
peer == <<registry, server>>
received == <<joined, heard, kicked, left>>
threads == <<handshake, update, running, main>>
vars == <<login, peer, net, port, received, threads, accepted, crossed>>

Messages(kinds) == kinds \X Port

TypeOK ==
    /\ login \in {"WaitingResponse", "Succeeded", "Failed"}
    /\ registry \in SUBSET Port
    /\ server \in [state : {"None", "Connected", "Recoverable"}, at : Port]
    /\ requests \in SUBSET Messages({"Join", "Leave"})
    /\ answers \in SUBSET Messages({"Joined", "Left", "Disconnected"})
    /\ port \in Port \cup {NoPort}
    /\ port = NoPort => ~ running
    /\ joined \in BOOLEAN /\ heard \in BOOLEAN /\ kicked \in BOOLEAN /\ left \in BOOLEAN
    /\ handshake \in {"Idle", "WaitingResponse", "Completed"}
    /\ update \in {"Top", "Checked", "Restart", "Gone"}
    /\ running \in BOOLEAN
    /\ main \in {"Loop", "Joining", "Leaving", "Stopped"}
    /\ accepted \in BOOLEAN /\ crossed \in BOOLEAN

Init ==
    /\ login = "WaitingResponse"
    /\ registry = {}
    /\ port \in Port
    /\ server = [state |-> "None", at |-> port]
    /\ requests = {} /\ answers = {}
    /\ joined = FALSE /\ heard = FALSE /\ kicked = FALSE /\ left = FALSE
    /\ handshake = "Idle"
    /\ update = "Top"
    /\ running = TRUE
    /\ main = "Loop"
    /\ accepted = FALSE /\ crossed = FALSE

ConnectedAt(p) == server.state = "Connected" /\ server.at = p

-----------------------------------------------------------------------------
\* The receive threads. Whatever they handle counts as a sign of life.

Listens == main # "Stopped" /\ port # NoPort

\* Mutant: the time of a packet is not recorded.
RecordNoReceiveTime == UNCHANGED heard

RecordServerPacketReceiveTime == heard' = TRUE

\* HandleAccountLoginResponse; a login that succeeded waits at the server.
LoginAnswered(result) ==
    /\ Listens
    /\ login = "WaitingResponse"
    /\ login' = result
    /\ registry' = IF result = "Succeeded" THEN {port} ELSE {}
    /\ RecordServerPacketReceiveTime
    /\ UNCHANGED <<server, net, port, joined, kicked, left, threads, accepted, crossed>>

\* A packet of the running session: snapshots, acknowledgements, events.
Hear ==
    /\ Listens
    /\ ConnectedAt(port)
    /\ RecordServerPacketReceiveTime
    /\ UNCHANGED <<login, peer, net, port, joined, kicked, left, threads, accepted, crossed>>

\* It refuses a player that is joined already, and another one than before;
\* the peer with this client's token keeps its player.
TrySetJoinState ==
    /\ joined' = TRUE
    /\ crossed' = (crossed \/ (~ joined /\ update = "Restart"))

ReceiveJoined ==
    /\ Listens
    /\ <<"Joined", port>> \in answers
    /\ TrySetJoinState
    /\ RecordServerPacketReceiveTime
    /\ UNCHANGED <<login, peer, net, port, kicked, left, threads, accepted>>

ReceiveLeft ==
    /\ Listens
    /\ <<"Left", port>> \in answers
    /\ answers' = answers \ {<<"Left", port>>}
    /\ left' = TRUE
    /\ RecordServerPacketReceiveTime
    /\ UNCHANGED <<login, peer, requests, port, joined, kicked, threads, accepted, crossed>>

ReceiveDisconnect ==
    /\ Listens
    /\ <<"Disconnected", port>> \in answers
    /\ answers' = answers \ {<<"Disconnected", port>>}
    /\ kicked' = TRUE
    /\ RecordServerPacketReceiveTime
    /\ UNCHANGED <<login, peer, requests, port, joined, left, threads, accepted, crossed>>

-----------------------------------------------------------------------------
\* The update thread. UpdateLoop and the first check of Update.

CheckDisconnect ==
    /\ update = "Top"
    /\ update' = IF ~ running THEN "Gone" ELSE IF kicked THEN "Top" ELSE "Checked"
    /\ running' = (running /\ ~ kicked)
    /\ UNCHANGED <<login, peer, net, port, received, handshake, main, accepted, crossed>>

\* Mutant: the world still counts as joined.
BeginRecoveryJoined ==
    /\ update = "Checked"
    /\ joined /\ heard
    /\ handshake' = "WaitingResponse"
    /\ update' = "Restart"
    /\ UNCHANGED <<login, peer, net, port, received, running, main, accepted, crossed>>

\* Mutant: the handshake of the first join is still the completed one.
BeginRecoveryOnly ==
    /\ update = "Checked"
    /\ joined /\ heard
    /\ joined' = FALSE
    /\ update' = "Restart"
    /\ UNCHANGED <<login, peer, net, port, heard, kicked, left, handshake, running, main,
                   accepted, crossed>>

\* TryBeginRecovery, up to the restart: something was heard on this socket,
\* and nothing for three keep-alive intervals.
BeginRecovery ==
    /\ update = "Checked"
    /\ joined /\ heard
    /\ joined' = FALSE
    /\ handshake' = "WaitingResponse"
    /\ update' = "Restart"
    /\ UNCHANGED <<login, peer, net, port, heard, kicked, left, running, main,
                   accepted, crossed>>

\* The system takes a port again only when nothing refers to it any more.
Fresh(p) ==
    /\ p # port
    /\ server.state # "None" => p # server.at
    /\ requests \cap ({"Join", "Leave"} \X {p}) = {}

ResetTransportSessionState == heard' = FALSE /\ kicked' = FALSE /\ left' = FALSE

\* RestartTransport: StopTransport joins the receive threads and closes the
\* socket, so that what is under way to it is lost; StartTransport binds another
\* port or fails, which closes the client.
Restart(p) ==
    /\ update = "Restart"
    /\ p = NoPort \/ Fresh(p)
    /\ port' = p
    /\ answers' = {}
    /\ ResetTransportSessionState
    /\ update' = "Top"
    /\ running' = (running /\ p # NoPort)
    /\ accepted' = FALSE
    /\ UNCHANGED <<login, peer, requests, joined, handshake, main, crossed>>

\* ProcessAccountLogin before its answer came.
AwaitLogin ==
    /\ update = "Checked"
    /\ handshake = "Idle" /\ login = "WaitingResponse"
    /\ update' = "Top"
    /\ UNCHANGED <<login, peer, net, port, received, handshake, running, main,
                   accepted, crossed>>

FailLogin ==
    /\ update = "Checked"
    /\ handshake = "Idle" /\ login = "Failed"
    /\ running' = FALSE
    /\ update' = "Top"
    /\ UNCHANGED <<login, peer, net, port, received, handshake, main, accepted, crossed>>

SendJoinRequest == requests' = requests \cup {<<"Join", port>>}

\* TryStartAttempt of the handshake that waits, begun by the login or by the
\* recovery; the first attempt is due at once.
AttemptJoin ==
    /\ update = "Checked"
    /\ ~ joined
    /\ handshake = "Idle" => login = "Succeeded"
    /\ handshake' = IF handshake = "Idle" THEN "WaitingResponse" ELSE handshake
    /\ IF handshake' = "WaitingResponse" THEN SendJoinRequest ELSE UNCHANGED requests
    /\ update' = "Top"
    /\ UNCHANGED <<login, peer, answers, port, received, running, main, accepted, crossed>>

\* The rest of the Update of a joined client; its packets are not followed.
Play ==
    /\ update = "Checked"
    /\ joined
    /\ handshake # "Idle"
    /\ handshake' = "Completed"
    /\ update' = "Top"
    /\ UNCHANGED <<login, peer, net, port, received, running, main, accepted, crossed>>

-----------------------------------------------------------------------------
\* The main thread.

\* The message loop ends, by the user or by RequestClose; Stop asks the update
\* thread to end.
CloseWindow ==
    /\ main = "Loop"
    /\ main' = "Joining"
    /\ running' = FALSE
    /\ UNCHANGED <<login, peer, net, port, received, handshake, update, accepted, crossed>>

\* Without a socket nothing is sent.
SendLeaveRequest ==
    requests' = IF port = NoPort THEN requests ELSE requests \cup {<<"Leave", port>>}

\* ShutdownJoinedSession, once the update thread is joined; a request that
\* found the send window full is sent by RepeatLeave.
BeginLeave ==
    /\ main = "Joining"
    /\ update = "Gone"
    /\ joined /\ ~ kicked
    /\ main' = "Leaving"
    /\ left' = FALSE
    /\ UNCHANGED requests \/ SendLeaveRequest
    /\ UNCHANGED <<login, peer, answers, port, joined, heard, kicked, handshake, update,
                   running, accepted, crossed>>

RepeatLeave ==
    /\ main = "Leaving"
    /\ SendLeaveRequest
    /\ UNCHANGED <<login, peer, answers, port, received, threads, accepted, crossed>>

\* Mutant: the answer to the leave is awaited without a deadline.
StopWhenAnswered ==
    /\ \/ main = "Joining" /\ update = "Gone" /\ (~ joined \/ kicked)
       \/ main = "Leaving" /\ left
    /\ main' = "Stopped"
    /\ joined' = FALSE
    /\ ResetTransportSessionState
    /\ handshake' = "Idle"
    /\ UNCHANGED <<login, peer, net, port, update, running, accepted, crossed>>

\* The rest of Run: at once, or when the leave is answered or has timed out.
Stop ==
    /\ \/ main = "Joining" /\ update = "Gone" /\ (~ joined \/ kicked)
       \/ main = "Leaving"
    /\ main' = "Stopped"
    /\ joined' = FALSE
    /\ ResetTransportSessionState
    /\ handshake' = "Idle"
    /\ UNCHANGED <<login, peer, net, port, update, running, accepted, crossed>>

-----------------------------------------------------------------------------
\* The server, by what it does to the peer of this client.

\* An answer to a socket that is closed reaches nobody.
Answer(kind, p) ==
    answers' = IF p = port THEN answers \cup {<<kind, p>>} ELSE answers

LetIn(p) ==
    /\ server' = [state |-> "Connected", at |-> p]
    /\ Answer("Joined", p)
    /\ accepted' = (accepted \/ p = port)

\* Mutant: the login can be used again.
JoinAuthenticatedAgain(p) ==
    /\ <<"Join", p>> \in requests
    /\ server.state = "None"
    /\ p \in registry
    /\ LetIn(p)
    /\ UNCHANGED <<login, registry, requests, port, received, threads, crossed>>

\* A first join with the token of a login at the same endpoint.
JoinAuthenticated(p) ==
    /\ <<"Join", p>> \in requests
    /\ server.state = "None"
    /\ p \in registry
    /\ registry' = registry \ {p}
    /\ LetIn(p)
    /\ UNCHANGED <<login, requests, port, received, threads, crossed>>

\* A repeated request of a connected peer is answered again; one from another
\* port finds neither a recoverable peer nor a login and is ignored.
JoinAgain(p) ==
    /\ <<"Join", p>> \in requests
    /\ ConnectedAt(p)
    /\ Answer("Joined", p)
    /\ UNCHANGED <<login, peer, requests, port, received, threads, accepted, crossed>>

JoinRecovers(p) ==
    /\ <<"Join", p>> \in requests
    /\ server.state = "Recoverable"
    /\ LetIn(p)
    /\ UNCHANGED <<login, registry, requests, port, received, threads, crossed>>

\* The session authenticates the request of the peer's own socket only.
HandleLeave(p) ==
    /\ <<"Leave", p>> \in requests
    /\ ConnectedAt(p)
    /\ server' = [server EXCEPT !.state = "None"]
    /\ Answer("Left", p)
    /\ UNCHANGED <<login, registry, requests, port, received, threads, accepted, crossed>>

\* ProcessPeerTimeouts: a silent peer, a grace period that is over, an old login.
TimeOut ==
    /\ server.state = "Connected"
    /\ server' = [server EXCEPT !.state = "Recoverable"]
    /\ UNCHANGED <<login, registry, net, port, received, threads, accepted, crossed>>

Expire ==
    /\ \/ server.state = "Recoverable" /\ server' = [server EXCEPT !.state = "None"]
          /\ UNCHANGED registry
       \/ registry # {} /\ registry' = {} /\ UNCHANGED server
    /\ UNCHANGED <<login, net, port, received, threads, accepted, crossed>>

\* KickPlayer; the notice needs the session of a connected peer.
Kick ==
    /\ server.state # "None"
    /\ server' = [server EXCEPT !.state = "None"]
    /\ \/ server.state = "Connected" /\ Answer("Disconnected", server.at)
       \/ UNCHANGED answers
    /\ UNCHANGED <<login, registry, requests, port, received, threads, accepted, crossed>>

\* UdpServer::Stop and a later Start.
RestartServer ==
    /\ server' = [server EXCEPT !.state = "None"]
    /\ registry' = {}
    /\ UNCHANGED <<login, net, port, received, threads, accepted, crossed>>

LoseRequest(m) ==
    /\ m \in requests
    /\ requests' = requests \ {m}
    /\ UNCHANGED <<login, peer, answers, port, received, threads, accepted, crossed>>

LoseAnswer(m) ==
    /\ m \in answers
    /\ answers' = answers \ {m}
    /\ UNCHANGED <<login, peer, requests, port, received, threads, accepted, crossed>>

-----------------------------------------------------------------------------
Receive ==
    \/ \E result \in {"Succeeded", "Failed"} : LoginAnswered(result)
    \/ Hear
    \/ ReceiveJoined
    \/ ReceiveLeft
    \/ ReceiveDisconnect

Update ==
    \/ CheckDisconnect
    \/ BeginRecovery
    \/ \E p \in Port \cup {NoPort} : Restart(p)
    \/ AwaitLogin
    \/ FailLogin
    \/ AttemptJoin
    \/ Play

MainThread == CloseWindow \/ BeginLeave \/ RepeatLeave \/ Stop

Server ==
    \/ \E p \in Port : JoinAuthenticated(p) \/ JoinAgain(p) \/ JoinRecovers(p) \/ HandleLeave(p)
    \/ TimeOut
    \/ Expire
    \/ Kick
    \/ RestartServer

Next ==
    \/ Receive
    \/ Update
    \/ MainThread
    \/ Server
    \/ \E m \in requests : LoseRequest(m)
    \/ \E m \in answers : LoseAnswer(m)

LoseStale == \E m \in requests : m[2] # port /\ LoseRequest(m)

NoticeSilence == BeginRecovery /\ ~ ConnectedAt(port)

\* Threads are scheduled. What is sent again and again arrives, and what is no
\* longer sent is lost. A client that hears nothing on its socket notices it,
\* as the server does of a peer whose client is elsewhere, and the retries of a
\* join are much shorter than the grace period of a recoverable peer.
Fairness ==
    /\ WF_vars(Update)
    /\ SF_vars(NoticeSilence)
    /\ WF_vars(CloseWindow /\ ~ running)
    /\ WF_vars(BeginLeave \/ Stop)
    /\ WF_vars(TimeOut /\ server.at # port)
    /\ SF_vars(JoinAuthenticated(port)) /\ SF_vars(JoinAgain(port)) /\ SF_vars(JoinRecovers(port))
    /\ SF_vars(ReceiveJoined)
    /\ WF_vars(LoseStale)

Spec == Init /\ [][Next]_vars /\ Fairness

-----------------------------------------------------------------------------
\* A client believes that it is joined only on a socket on which the server has
\* let it in: whatever is late or repeated, no answer to an older socket and no
\* older state is taken for it; unless a JoinResponse comes in between
\* BeginRecovery and StopTransport.
JoinedWasAccepted == joined /\ ~ crossed => accepted

\* A client that has read the answer to its leave is gone from the server for
\* good: no join request that is still under way brings its player back.
LeftIsGone == left => server.state = "None"

Stranded == joined /\ running /\ ~ ConnectedAt(port)

\* A joined client whom the server no longer has at its port does not stay so:
\* silence is noticed, whoever was restarted, timed out or kicked.
StrandedClientNotices == Stranded /\ ~ crossed ~> ~ Stranded \/ crossed

Forgotten == server.state = "None" /\ registry = {}

\* The client is on a socket on which it has still to be let in.
AwaitsAdmission == handshake # "Idle" /\ ~ accepted /\ running

\* A recovery, like a first join, ends: the client is let in on its socket, or
\* the server has forgotten it, or the client is closed.
JoinEnds ==
    AwaitsAdmission /\ ~ crossed ~> (joined /\ accepted) \/ Forgotten \/ ~ running \/ crossed

\* The client ends when its window is closed, even if nobody answers.
CloseEnds == ~ running ~> main = "Stopped"
=============================================================================
