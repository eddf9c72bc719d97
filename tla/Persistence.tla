---------------------------- MODULE Persistence -----------------------------
(***************************************************************************)
(* The database of the server and its one connection: OdbcConnection.cpp,  *)
(* the repositories, the constraints of DatabaseSchema.cpp, and the        *)
(* operations of PersistenceRuntime.cpp, each of which runs under          *)
(* databaseMutex_ from beginning to end.                                   *)
(*                                                                         *)
(* A database is a record: the rows that are committed, the rows that the  *)
(* connection sees (with its own uncommitted ones), and the connection     *)
(* (open, transactionActive_, and the driver's auto-commit mode).  Any     *)
(* call of the driver may fail, and some fail after they have taken        *)
(* effect; an operator returns the set of its outcomes.  Identities and    *)
(* statistics, the text of accounts and the times of matches are left out. *)
(***************************************************************************)
EXTENDS FiniteSets

CONSTANTS Player, Match     \* players are the rows of dbo.players, one per account

Rows == [players : SUBSET Player, matches : SUBSET Match, stats : SUBSET (Match \X Player)]

Databases == [committed : Rows, seen : Rows, open : BOOLEAN, active : BOOLEAN, auto : BOOLEAN]

NoRows == [players |-> {}, matches |-> {}, stats |-> {}]

ClosedDatabase ==
    [committed |-> NoRows, seen |-> NoRows, open |-> FALSE, active |-> FALSE, auto |-> TRUE]

Outcome(db, ok) == [db |-> db, ok |-> ok]

\* Where a call succeeded the next one follows, and each failure is final.
Then(outcomes, Next(_)) == UNION {IF o.ok THEN Next(o.db) ELSE {o} : o \in outcomes}

-----------------------------------------------------------------------------
\* OdbcConnection

\* Closing drops what is not committed; a new connection commits at once.
Close(db) ==
    [db EXCEPT !.open = FALSE, !.active = FALSE, !.auto = TRUE, !.seen = db.committed]

Open(db) == {Outcome(Close(db), FALSE), Outcome([Close(db) EXCEPT !.open = TRUE], TRUE)}

BeginTransaction(db) ==
    IF ~ db.open \/ db.active THEN {Outcome(db, FALSE)}
    ELSE {Outcome(db, FALSE), Outcome([db EXCEPT !.active = TRUE, !.auto = FALSE], TRUE)}

\* Mutant: the auto-commit mode is not restored.
CommitTransactionOnly(db) ==
    LET done == [db EXCEPT !.committed = db.seen]
        ended == [done EXCEPT !.active = FALSE]
    IN  IF ~ db.open \/ ~ db.active THEN {Outcome(db, FALSE)}
        ELSE {Outcome(db, FALSE), Outcome(done, FALSE), Outcome(ended, TRUE)}

\* SQLEndTran may fail before or after the server has committed.  When the
\* auto-commit mode cannot be restored the connection is closed.
CommitTransaction(db) ==
    LET done == [db EXCEPT !.committed = db.seen]
        ended == [done EXCEPT !.active = FALSE]
    IN  IF ~ db.open \/ ~ db.active THEN {Outcome(db, FALSE)}
        ELSE {Outcome(db, FALSE), Outcome(done, FALSE),
              Outcome([ended EXCEPT !.auto = TRUE], TRUE), Outcome(Close(ended), FALSE)}

RollbackTransaction(db) ==
    LET ended == [db EXCEPT !.seen = db.committed, !.active = FALSE]
    IN  IF ~ db.open \/ ~ db.active THEN {Outcome(db, FALSE)}
        ELSE {Outcome(db, FALSE),
              Outcome([ended EXCEPT !.auto = TRUE], TRUE), Outcome(Close(ended), FALSE)}

-----------------------------------------------------------------------------
\* An INSERT, from Prepare to the last Read: it may fail without a row, or
\* after the row is there.  Outside a transaction its row is committed.
Insert(db, rows) ==
    LET inserted == [db EXCEPT !.seen = rows, !.committed = IF db.auto THEN rows ELSE @]
    IN  {Outcome(db, FALSE), Outcome(inserted, FALSE), Outcome(inserted, TRUE)}

InsertMatch(db, m) == Insert(db, [db.seen EXCEPT !.matches = @ \cup {m}])

\* The loop over the statistics may fail after any of them; a player without
\* a row fails the foreign key.
InsertStats(db, m, players) ==
    LET With(some) == [db.seen EXCEPT !.stats = @ \cup ({m} \X some)]
        stored == players \cap db.seen.players
    IN  (UNION {{o \in Insert(db, With(some)) : ~ o.ok} : some \in SUBSET stored})
        \cup {o \in Insert(db, With(players)) : o.ok /\ stored = players}

RollbackWithError(db) ==
    IF ~ db.active THEN {Outcome(db, FALSE)}
    ELSE {Outcome(o.db, FALSE) : o \in RollbackTransaction(db)}

OrRollback(outcomes) ==
    UNION {IF o.ok THEN {o} ELSE RollbackWithError(o.db) : o \in outcomes}

\* Mutant: the rows of a match are inserted one by one.
SaveMatchAtOnce(db, m, players) ==
    LET Stats(d) == InsertStats(d, m, players)
    IN  IF ~ db.open THEN {Outcome(db, FALSE)} ELSE Then(InsertMatch(db, m), Stats)

\* MatchHistoryRepository::SaveMatch and its caller in PersistenceRuntime
SaveMatch(db, m, players) ==
    LET Stats(d) == InsertStats(d, m, players)
        Work(d) == Then(Then(InsertMatch(d, m), Stats), CommitTransaction)
        WholeWork(d) == OrRollback(Work(d))
    IN  IF ~ db.open THEN {Outcome(db, FALSE)} ELSE Then(BeginTransaction(db), WholeWork)

-----------------------------------------------------------------------------
\* A query changes nothing, and fails on a connection that is not open.
FindAccountByLoginName(db) == {Outcome(db, FALSE)} \cup {Outcome(db, ok) : ok \in {db.open}}

CreatePlayer(db, p) == Insert(db, [db.seen EXCEPT !.players = @ \cup {p}])

\* Another user of the database stores the player between the query and the
\* INSERT, which then violates UQ_players_account_id: the query is repeated.
CreatedElsewhere(db, p) ==
    LET stored == [db EXCEPT !.seen.players = @ \cup {p}, !.committed.players = @ \cup {p}]
    IN  {Outcome(stored, FALSE), Outcome(stored, TRUE)}

FindOrCreatePlayerByAccountId(db, p) ==
    IF ~ db.open THEN {Outcome(db, FALSE)}
    ELSE {Outcome(db, FALSE)}
         \cup (IF p \in db.seen.players THEN {Outcome(db, TRUE)}
               ELSE CreatePlayer(db, p) \cup CreatedElsewhere(db, p))
=============================================================================
