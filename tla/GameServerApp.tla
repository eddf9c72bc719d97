---------------------------- MODULE GameServerApp ---------------------------
(***************************************************************************)
(* The process of the server: GameServerApp::Run from its configuration to *)
(* its last stop, the two task processors with their pools of one worker,  *)
(* the completed matches on their way to the database, and the database    *)
(* they share with the logins.                                             *)
(*                                                                         *)
(* The main thread is the sequence "todo" of the calls it has still to     *)
(* make; a call that fails replaces it by the calls that undo what was     *)
(* started.  Threads of the UDP server submit logins, take their results   *)
(* and begin and complete matches while the server runs (UdpServer has the *)
(* details); a match is known by the players with statistics in it.        *)
(* Destructors find nothing left to stop and are left out.                 *)
(***************************************************************************)
EXTENDS ServerConfig, Persistence, SequencesExt

CONSTANTS
    Files,          \* what Server.ini may hold: sequences of lines
    Ports,          \* the port of the command line, 0 for none
    EntryLists      \* what dbo.server_configs may hold

ASSUME AppAssumption ==
    /\ Files \subseteq Seq(Lines)
    /\ Ports \subseteq 0 .. ShortMax         \* Run takes an unsigned short
    /\ EntryLists \subseteq Seq(Entries)

VARIABLES
    todo,           \* the calls the main thread has still to make
    sources,        \* the file and the port of this start
    config,         \* loadResult.config; left out once the server runs
    runtime,        \* enabled_ of PersistenceRuntime, and how it ended
    db,             \* the database and the connection
    logger,         \* AsyncLogWriter: isStarted_
    server,         \* "Down", "Receiving" before the tick thread is started, "Up"
    handler,        \* the server has the login packet handler
    accounts,       \* the pool of AccountLoginTaskProcessor
    login,          \* the login of each player, from its task to its admission
    matches,        \* the pool of MatchHistoryTaskProcessor
    queue,          \* the tasks of that pool
    saving,         \* what its worker has taken and, once known, the result
    completions,    \* completionQueue_ of the processor
    playersOf,      \* the players of every match that has begun
    playing,        \* the matches of MatchHistoryTracker that are active
    completed,      \* its completedMatchList_
    extracted,      \* completedMatchList of ProcessCompletedMatches
    reports         \* what was logged about matches

appVars == <<sources, config, logger, server, handler>>
loginVars == <<accounts, login>>
poolVars == <<matches, queue, saving, completions>>
matchVars == <<playersOf, playing, completed, extracted, reports>>
vars == <<todo, appVars, runtime, db, loginVars, poolVars, matchVars>>

None == <<>>
PoolStates == {"Stopped", "Running", "Draining"}
LoginStates == {"None", "Queued", "Verified", "Found", "Refused", "Admitted"}
Verdicts == {"saved", "failed", "refused"}

Startup == <<"StartDatabase", "LoadEntries", "Validate", "StartLogger", "StartAccounts",
             "StartMatches", "StartTransport", "StartTicks">>
Loop == <<"Extract", "Enqueue", "Report", "Poll">>
Shutdown == <<"StopServer", "Extract", "Enqueue", "DrainMatches", "JoinMatches", "Report",
              "Detach", "DrainAccounts", "JoinAccounts", "Clear", "StopDatabase", "StopLogger">>

TypeOK ==
    /\ \A i \in 1 .. Len(todo) :
           todo[i] \in Range(Startup) \cup Range(Loop) \cup Range(Shutdown)
                        \cup {"Configure", "StopMatches", "StopAccounts"}
    /\ runtime \in {"Off", "On", "Stopped"}
    /\ db \in Databases
    /\ logger \in BOOLEAN /\ handler \in BOOLEAN
    /\ server \in {"Down", "Receiving", "Up"}
    /\ accounts \in PoolStates /\ matches \in PoolStates
    /\ login \in [Player -> LoginStates]
    /\ {queue, completed, extracted} \subseteq Seq(Match)
    /\ saving \in {None} \cup (Match \X {"taken", "saved", "failed"})
    /\ completions \in Seq(Match \X {"saved", "failed"})
    /\ playersOf \in [Match -> SUBSET Player]
    /\ playing \subseteq Match
    /\ reports \in Seq(Match \X Verdicts)

Init ==
    /\ todo = <<"Configure">>
    /\ sources = [file |-> <<>>, port |-> 0]
    /\ config = Default
    /\ runtime = "Off" /\ db = ClosedDatabase
    /\ logger = FALSE /\ server = "Down" /\ handler = FALSE
    /\ accounts = "Stopped" /\ login = [p \in Player |-> "None"]
    /\ matches = "Stopped" /\ queue = <<>> /\ saving = None /\ completions = <<>>
    /\ playersOf = [m \in Match |-> {}]
    /\ playing = {} /\ completed = <<>> /\ extracted = <<>>
    /\ reports = <<>>

\* The next call of the main thread; it returns and the thread goes on.
Calls(name) == todo # <<>> /\ Head(todo) = name
Goes == todo' = Tail(todo)
Fails(undo) == todo' = undo

-----------------------------------------------------------------------------
\* Run, until the server is up

\* BuildServerConfig
Configure ==
    /\ Calls("Configure")
    /\ \E file \in Files, port \in Ports :
           /\ sources' = [file |-> file, port |-> port]
           /\ config' = [Load(file) EXCEPT !.network.port = IF port # 0 THEN port ELSE @]
    /\ todo' = Startup \o Loop
    /\ UNCHANGED <<runtime, db, logger, server, handler, loginVars, poolVars, matchVars>>

\* PersistenceRuntime::Start: the connection, its health check, the schema.
StartDatabase ==
    /\ Calls("StartDatabase")
    /\ IF config.database.enabled = 0
       THEN Goes /\ UNCHANGED <<runtime, db>>
       ELSE \/ /\ Fails(<<>>)
               /\ UNCHANGED <<runtime, db>>
            \/ /\ config.database.connectionString # Word("")
               /\ \E o \in Open(db) : o.ok /\ db' = o.db
               /\ runtime' = "On"
               /\ Goes
    /\ UNCHANGED <<appVars, loginVars, poolVars, matchVars>>

LoadEntries ==
    /\ Calls("LoadEntries")
    /\ IF ~ db.open
       THEN Goes /\ UNCHANGED config
       ELSE \/ Fails(<<"StopDatabase">>) /\ UNCHANGED config
            \/ /\ \E entries \in EntryLists : config' = ApplyEntries(config, entries)
               /\ Goes
    /\ UNCHANGED <<sources, logger, server, handler, runtime, db, loginVars, poolVars, matchVars>>

Validate ==
    /\ Calls("Validate")
    /\ config' = Validated(config)
    /\ Goes
    /\ UNCHANGED <<sources, logger, server, handler, runtime, db, loginVars, poolVars, matchVars>>

StartLogger ==
    /\ Calls("StartLogger")
    /\ \/ Fails(<<"StopDatabase">>) /\ UNCHANGED logger
       \/ Goes /\ logger' = TRUE
    /\ UNCHANGED <<sources, config, server, handler, runtime, db, loginVars, poolVars, matchVars>>

StartAccounts ==
    /\ Calls("StartAccounts")
    /\ \/ Fails(<<"StopDatabase", "StopLogger">>) /\ UNCHANGED accounts
       \/ Goes /\ accounts' = "Running"
    /\ UNCHANGED <<appVars, runtime, db, login, poolVars, matchVars>>

StartMatches ==
    /\ Calls("StartMatches")
    /\ \/ /\ Fails(<<"StopAccounts", "Clear", "StopDatabase", "StopLogger">>)
          /\ UNCHANGED <<matches, handler>>
       \/ Goes /\ matches' = "Running" /\ handler' = TRUE
    /\ completions' = <<>>
    /\ UNCHANGED <<sources, config, logger, server, runtime, db, loginVars, queue, saving,
                   matchVars>>

\* Mutant: the pools are stopped after the database they use.
UndoServerDatabaseFirst ==
    <<"Detach", "StopDatabase", "StopMatches", "StopAccounts", "Clear", "StopLogger">>

UndoServer == <<"Detach", "StopMatches", "StopAccounts", "Clear", "StopDatabase", "StopLogger">>

\* UdpServer::Start, which validates its copy again: first its transport,
StartTransport ==
    /\ Calls("StartTransport")
    /\ config' = Validated(config)
    /\ \/ Fails(UndoServer) /\ UNCHANGED server
       \/ Goes /\ server' = "Receiving"
    /\ UNCHANGED <<sources, logger, handler, runtime, db, loginVars, poolVars, matchVars>>

\* then its tick thread; without it, it stops again.
StartTicks ==
    /\ Calls("StartTicks")
    /\ \/ Fails(UndoServer) /\ server' = "Down"
       \/ Goes /\ server' = "Up"
    /\ config' = Default /\ sources' = [file |-> <<>>, port |-> 0]
    /\ UNCHANGED <<logger, handler, runtime, db, loginVars, poolVars, matchVars>>

-----------------------------------------------------------------------------
\* Run, from MainLoop to the end

\* ProcessCompletedMatches: the list is taken under stateMutex_ and dropped
\* when there is no database, and
Extract ==
    /\ Calls("Extract")
    /\ completed' = <<>>
    /\ extracted' = IF runtime = "On" THEN completed ELSE <<>>
    /\ Goes
    /\ UNCHANGED <<appVars, runtime, db, loginVars, poolVars, playersOf, playing, reports>>

\* each of its matches is given to the pool.
Enqueue ==
    /\ Calls("Enqueue")
    /\ IF extracted = <<>>
       THEN Goes /\ UNCHANGED <<queue, extracted, reports>>
       ELSE LET m == Head(extracted)
            IN  /\ extracted' = Tail(extracted)
                /\ IF matches = "Running"
                   THEN queue' = Append(queue, m) /\ UNCHANGED reports
                   ELSE reports' = Append(reports, <<m, "refused">>) /\ UNCHANGED queue
                /\ UNCHANGED todo
    /\ UNCHANGED <<appVars, runtime, db, loginVars, matches, saving, completions, playersOf,
                   playing, completed>>

\* ProcessMatchHistorySaveCompletions
Report ==
    /\ Calls("Report")
    /\ reports' = reports \o completions
    /\ completions' = <<>>
    /\ Goes
    /\ UNCHANGED <<appVars, runtime, db, loginVars, matches, queue, saving, playersOf, playing,
                   completed, extracted>>

\* ESC or the command stop ends the loop; other commands change nothing here.
Poll ==
    /\ Calls("Poll")
    /\ todo' \in {Loop, Shutdown}
    /\ UNCHANGED <<appVars, runtime, db, loginVars, poolVars, matchVars>>

\* Mutant: the matches under way are cleared with the rest.
StopServerClearing ==
    /\ Calls("StopServer")
    /\ server' = "Down"
    /\ playing' = {} /\ UNCHANGED completed
    /\ Goes
    /\ UNCHANGED <<sources, config, logger, handler, runtime, db, loginVars, poolVars, playersOf,
                   extracted, reports>>

\* UdpServer::Stop joins its threads; then CompleteAll ends every match.
StopServer ==
    /\ Calls("StopServer")
    /\ server' = "Down"
    /\ playing' = {}
    /\ completed' \in {completed \o some : some \in SetToSeqs(playing)}
    /\ Goes
    /\ UNCHANGED <<sources, config, logger, handler, runtime, db, loginVars, poolVars, playersOf,
                   extracted, reports>>

Detach ==
    /\ Calls("Detach")
    /\ handler' = FALSE
    /\ Goes
    /\ UNCHANGED <<sources, config, logger, server, runtime, db, loginVars, poolVars, matchVars>>

\* StopAfterDrain accepts no more tasks and returns when all of them are done.
DrainMatches ==
    /\ Calls("DrainMatches")
    /\ matches' = "Draining"
    /\ Goes
    /\ UNCHANGED <<appVars, runtime, db, loginVars, queue, saving, completions, matchVars>>

JoinMatches ==
    /\ Calls("JoinMatches")
    /\ queue = <<>> /\ saving = None
    /\ matches' = "Stopped"
    /\ Goes
    /\ UNCHANGED <<appVars, runtime, db, loginVars, queue, saving, completions, matchVars>>

DrainAccounts ==
    /\ Calls("DrainAccounts")
    /\ accounts' = "Draining"
    /\ Goes
    /\ UNCHANGED <<appVars, runtime, db, login, poolVars, matchVars>>

LoginsUnderWay(states) == {p \in Player : login[p] \in states}

JoinAccounts ==
    /\ Calls("JoinAccounts")
    /\ LoginsUnderWay({"Queued", "Verified"}) = {}
    /\ accounts' = "Stopped"
    /\ Goes
    /\ UNCHANGED <<appVars, runtime, db, login, poolVars, matchVars>>

\* Stop joins the worker, and drops the tasks and the results that are left.
StopMatches ==
    /\ Calls("StopMatches")
    /\ saving = None
    /\ matches' = "Stopped" /\ queue' = <<>> /\ completions' = <<>>
    /\ Goes
    /\ UNCHANGED <<appVars, runtime, db, loginVars, saving, matchVars>>

StopAccounts ==
    /\ Calls("StopAccounts")
    /\ LoginsUnderWay({"Verified"}) = {}
    /\ accounts' = "Stopped"
    /\ login' = [p \in Player |-> IF login[p] = "Admitted" THEN "Admitted" ELSE "None"]
    /\ Goes
    /\ UNCHANGED <<appVars, runtime, db, poolVars, matchVars>>

\* The tables of the packet handler are in AccountLogin.
ClearHandler ==
    /\ Calls("Clear")
    /\ Goes
    /\ UNCHANGED <<appVars, runtime, db, loginVars, poolVars, matchVars>>

StopDatabase ==
    /\ Calls("StopDatabase")
    /\ db' = Close(db)
    /\ runtime' = "Stopped"
    /\ Goes
    /\ UNCHANGED <<appVars, loginVars, poolVars, matchVars>>

\* The guard of the logger, on the way out.
StopLogger ==
    /\ Calls("StopLogger")
    /\ logger' = FALSE
    /\ Goes
    /\ UNCHANGED <<sources, config, server, handler, runtime, db, loginVars, poolVars, matchVars>>

-----------------------------------------------------------------------------
\* The threads of the server

SubmitLogin(p) ==
    /\ server # "Down" /\ handler
    /\ login[p] = "None"
    /\ accounts = "Running"
    /\ login' = [login EXCEPT ![p] = "Queued"]
    /\ UNCHANGED <<todo, appVars, runtime, db, accounts, poolVars, matchVars>>

\* The tick thread hands out the results.
AdmitLogin(p) ==
    /\ server = "Up" /\ handler
    /\ login[p] \in {"Found", "Refused"}
    /\ login' = [login EXCEPT ![p] = IF @ = "Found" THEN "Admitted" ELSE "None"]
    /\ UNCHANGED <<todo, appVars, runtime, db, accounts, poolVars, matchVars>>

BeginMatch(m) ==
    /\ server = "Up"
    /\ playersOf[m] = {}
    /\ \E players \in (SUBSET LoginsUnderWay({"Admitted"})) \ {{}} :
           playersOf' = [playersOf EXCEPT ![m] = players]
    /\ playing' = playing \cup {m}
    /\ UNCHANGED <<todo, appVars, runtime, db, loginVars, poolVars, completed, extracted, reports>>

CompleteMatch(m) ==
    /\ server = "Up"
    /\ m \in playing
    /\ playing' = playing \ {m}
    /\ completed' = Append(completed, m)
    /\ UNCHANGED <<todo, appVars, runtime, db, loginVars, poolVars, playersOf, extracted, reports>>

-----------------------------------------------------------------------------
\* The worker of AccountLoginTaskProcessor: LoginAccount takes databaseMutex_
\* once for the account and once for the player.

FindAccount(p) ==
    /\ login[p] = "Queued"
    /\ LoginsUnderWay({"Verified"}) = {}
    /\ \E o \in IF runtime = "On" THEN FindAccountByLoginName(db) ELSE {Outcome(db, FALSE)},
          verified \in BOOLEAN :
           login' = [login EXCEPT ![p] = IF o.ok /\ verified THEN "Verified" ELSE "Refused"]
    /\ UNCHANGED <<todo, appVars, runtime, db, accounts, poolVars, matchVars>>

FindPlayer(p) ==
    /\ login[p] = "Verified"
    /\ \E o \in IF runtime = "On" THEN FindOrCreatePlayerByAccountId(db, p)
                ELSE {Outcome(db, FALSE)} :
           /\ db' = o.db
           /\ login' = [login EXCEPT ![p] = IF o.ok THEN "Found" ELSE "Refused"]
    /\ UNCHANGED <<todo, appVars, runtime, accounts, poolVars, matchVars>>

-----------------------------------------------------------------------------
\* The worker of MatchHistoryTaskProcessor

TakeMatch ==
    /\ matches # "Stopped" /\ queue # <<>> /\ saving = None
    /\ saving' = <<Head(queue), "taken">>
    /\ queue' = Tail(queue)
    /\ UNCHANGED <<todo, appVars, runtime, db, loginVars, matches, completions, matchVars>>

SaveTaken ==
    /\ saving # None /\ saving[2] = "taken"
    /\ \E o \in IF runtime = "On" THEN SaveMatch(db, saving[1], playersOf[saving[1]])
                ELSE {Outcome(db, FALSE)} :
           /\ db' = o.db
           /\ saving' = <<saving[1], IF o.ok THEN "saved" ELSE "failed">>
    /\ UNCHANGED <<todo, appVars, runtime, loginVars, matches, queue, completions, matchVars>>

\* Mutant: only a match that was saved has a completion.
PushCompletionIfSaved ==
    /\ saving # None /\ saving[2] # "taken"
    /\ completions' = IF saving[2] = "saved" THEN Append(completions, saving) ELSE completions
    /\ saving' = None
    /\ UNCHANGED <<todo, appVars, runtime, db, loginVars, matches, queue, matchVars>>

\* Mutant: the newest result is the first.
PushCompletionInFront ==
    /\ saving # None /\ saving[2] # "taken"
    /\ completions' = <<saving>> \o completions
    /\ saving' = None
    /\ UNCHANGED <<todo, appVars, runtime, db, loginVars, matches, queue, matchVars>>

PushCompletion ==
    /\ saving # None /\ saving[2] # "taken"
    /\ completions' = Append(completions, saving)
    /\ saving' = None
    /\ UNCHANGED <<todo, appVars, runtime, db, loginVars, matches, queue, matchVars>>

-----------------------------------------------------------------------------
StartStep ==
    \/ Configure \/ StartDatabase \/ LoadEntries \/ Validate \/ StartLogger
    \/ StartAccounts \/ StartMatches \/ StartTransport \/ StartTicks

MainStep ==
    \/ StartStep
    \/ Extract \/ Enqueue \/ Report \/ Poll
    \/ StopServer \/ Detach \/ DrainMatches \/ DrainAccounts
    \/ StopMatches \/ StopAccounts \/ ClearHandler \/ StopDatabase \/ StopLogger

\* A drain may wait for ever (see ThreadPool), so its end is not part of
\* what is sure to happen.
Join == JoinMatches \/ JoinAccounts

ServerStep ==
    \/ \E p \in Player : SubmitLogin(p) \/ AdmitLogin(p)
    \/ \E m \in Match : BeginMatch(m) \/ CompleteMatch(m)

AccountWorkerStep == \E p \in Player : FindAccount(p) \/ FindPlayer(p)

MatchWorkerStep == TakeMatch \/ SaveTaken \/ PushCompletion

Next == MainStep \/ Join \/ ServerStep \/ AccountWorkerStep \/ MatchWorkerStep

Spec ==
    /\ Init /\ [][Next]_vars
    /\ WF_vars(MainStep) /\ WF_vars(AccountWorkerStep) /\ WF_vars(MatchWorkerStep)

-----------------------------------------------------------------------------
Count(seq, m) == Cardinality({i \in 1 .. Len(seq) : seq[i] = m})
CountPairs(seq, m) == Cardinality({i \in 1 .. Len(seq) : seq[i][1] = m})

\* Every match that has begun is in one place only, from the tracker through
\* the list, the pool and the completions to one line of the log; with a
\* database none is lost on the way, the shutdown included
\* (GameServerApp::Run, ProcessCompletedMatches, MatchHistoryTaskProcessor).
MatchesAreAccountedFor ==
    /\ TypeOK
    /\ \A m \in Match :
           LET places == Cardinality({m} \cap playing) + Count(completed, m) + Count(extracted, m)
                         + Count(queue, m) + (IF saving # None /\ saving[1] = m THEN 1 ELSE 0)
                         + CountPairs(completions, m) + CountPairs(reports, m)
           IN  /\ places <= 1
               /\ playersOf[m] = {} => places = 0
               /\ playersOf[m] # {} /\ runtime # "Off" => places = 1
               /\ todo = <<>> => places = CountPairs(reports, m)

\* The database holds whole matches only, and every match that was reported
\* as saved; a transaction that could not be undone is never committed
\* (MatchHistoryRepository::SaveMatch, OdbcConnection.cpp).
SavedMatchesAreWhole ==
    LET rows == db.committed
    IN  /\ \A m \in rows.matches : {p \in Player : <<m, p>> \in rows.stats} = playersOf[m]
        /\ \A s \in rows.stats : s[1] \in rows.matches /\ s[2] \in rows.players
        /\ \A line \in Range(reports) : line[2] = "saved" => line[1] \in rows.matches

\* A player who was let in has a row that is committed, unless the login took
\* place in a transaction that a failed rollback left open: it is gone when
\* the connection is closed (PersistenceRuntime::FindOrCreatePlayerByAccountId).
AdmittedPlayersAreStored ==
    db.open => \A p \in LoginsUnderWay({"Found", "Admitted"}) :
                   p \in db.committed.players \/ (db.active /\ p \in db.seen.players)

\* When the database is closed for good, no task is left that would use it,
\* on the way out of a start that failed too (GameServerApp::Run).
DatabaseOutlivesItsUsers ==
    runtime = "Stopped" =>
        /\ accounts = "Stopped" /\ matches = "Stopped" /\ server = "Down" /\ ~ handler
        /\ queue = <<>> /\ saving = None /\ LoginsUnderWay({"Queued", "Verified"}) = {}

\* What the subsystems are started with is within their reach whatever the
\* file, the rows and the command line say, does not change when the UDP
\* server validates it again, and the rows have no say in how the server is
\* reached and finds its database (ServerConfigValidator.cpp,
\* ServerConfigDatabaseApplier.cpp, UdpServer::Start).
ConfigIsUsable ==
    todo # <<>> /\ Head(todo) \in {"StartLogger", "StartAccounts", "StartMatches", "StartTransport",
                                   "StartTicks"} =>
        LET loaded == Load(sources.file)
            asked == IF sources.port # 0 THEN sources.port ELSE loaded.network.port
        IN  /\ Usable(config)
            /\ Validated(config) = config
            /\ config.network = ValidatedNetwork([loaded.network EXCEPT !.port = asked])
            /\ config.database = loaded.database

\* Where a match is for those who only know the ledger: the worker has taken it
\* and not tried, or has tried and not told.
Begun == {m \in Match : playersOf[m] # {}}
Taken == IF saving # None /\ saving[2] = "taken" THEN <<saving[1]>> ELSE <<>>
Tried == IF saving # None /\ saving[2] # "taken" THEN <<saving>> ELSE <<>>

Ledger == INSTANCE MatchLedger
            WITH begun <- Begun, waiting <- Taken \o queue \o extracted \o completed,
                 stored <- db.committed.matches, results <- completions \o Tried,
                 log <- reports, closed <- runtime = "Stopped"

\* However the server starts, fails and stops, and whatever the database does,
\* matches are tried once and in order, are in the database for good or never
\* were, and have their line in the log before the database is closed
\* (GameServerApp::Run, MatchHistoryTaskProcessor, MatchHistoryRepository).
ImplementsLedger == Ledger!Spec

\* Every match that completes while there is a database is tried: the worker
\* saves it or learns why not, and the result is kept for the log.
CompletedMatchesAreTried ==
    \A m \in Match :
        Count(completed, m) = 1 /\ runtime = "On"
            ~> CountPairs(completions, m) + CountPairs(reports, m) = 1
=============================================================================
