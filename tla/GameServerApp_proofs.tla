------------------------ MODULE GameServerApp_proofs ------------------------
(***************************************************************************)
(* GameServerApp with its pools and its database, for any sets of players  *)
(* and matches and any order of the threads.                               *)
(*                                                                         *)
(* The inductive invariant has four layers.  ControlFits and PoolsFit say  *)
(* what is so before each call of the main thread, on its way up, down, or *)
(* back from a server that did not start: from this it follows that the    *)
(* database is closed last.  DataFits and TrailFits say that what is       *)
(* committed is whole, and that what is on its way to the log speaks of    *)
(* matches that have begun and, if it says so, are saved.  Placed counts:  *)
(* a match that has begun is in one place, and no other match is in any.   *)
(* From the first two it follows that the server is a MatchLedger.         *)
(* ConfigFits follows the settings from the defaults through the file, the *)
(* database, Validate and the command line to what a subsystem starts      *)
(* with, for a file and a table of any number of lines.                    *)
(***************************************************************************)
EXTENDS GameServerApp, SequenceTheorems, FiniteSetTheorems, WellFoundedInduction, TLAPS

-----------------------------------------------------------------------------
\* The calls of the main thread.

\* What Run, Initialize and Shutdown call, by the names of the model.
CallNames ==
    {"Configure", "StartDatabase", "LoadEntries", "Validate", "StartLogger", "StartAccounts",
     "StartMatches", "StartTransport", "StartTicks", "Extract", "Enqueue", "Report", "Poll",
     "StopServer", "DrainMatches", "JoinMatches", "Detach", "DrainAccounts", "JoinAccounts",
     "Clear", "StopMatches", "StopAccounts", "StopDatabase", "StopLogger"}

\* What is left of a list of calls from its i-th on.
From(calls, i) == SubSeq(calls, i, Len(calls))

\* The calls of Initialize and the first round of Run.
UpCalls ==
    <<"StartDatabase", "LoadEntries", "Validate", "StartLogger", "StartAccounts", "StartMatches",
      "StartTransport", "StartTicks", "Extract", "Enqueue", "Report", "Poll">>

\* The lists of calls are lists of calls.
LEMMA CallLists ==
  /\ Startup \o Loop = UpCalls
  /\ UpCalls \in Seq(CallNames) /\ Len(UpCalls) = 12
  /\ Shutdown \in Seq(CallNames) /\ Len(Shutdown) = 12
  /\ UndoServer \in Seq(CallNames) /\ Len(UndoServer) = 6
  <1>1. UpCalls \in Seq(CallNames) /\ Len(UpCalls) = 12
    BY DEF UpCalls, CallNames
  <1>2. Startup \in Seq(CallNames) /\ Len(Startup) = 8
    BY DEF Startup, CallNames
  <1>3. Loop \in Seq(CallNames) /\ Len(Loop) = 4
    BY DEF Loop, CallNames
  <1>4. Shutdown \in Seq(CallNames) /\ Len(Shutdown) = 12
    BY DEF Shutdown, CallNames
  <1>5. UndoServer \in Seq(CallNames) /\ Len(UndoServer) = 6
    BY DEF UndoServer, CallNames
  <1>6. Startup \o Loop = UpCalls
    <2>1. /\ Startup \o Loop \in Seq(CallNames) /\ Len(Startup \o Loop) = Len(Startup) + Len(Loop)
          /\ \A i \in 1 .. Len(Startup) + Len(Loop) :
                (Startup \o Loop)[i] = IF i <= Len(Startup) THEN Startup[i] ELSE Loop[i - Len(Startup)]
      BY <1>2, <1>3, ConcatProperties
    <2>2. /\ Startup \o Loop \in Seq(CallNames) /\ Len(Startup \o Loop) = 12
          /\ \A i \in 1 .. 12 : (Startup \o Loop)[i] = IF i <= 8 THEN Startup[i] ELSE Loop[i - 8]
      BY <1>2, <1>3, <2>1, SMTT(40)
    <2>3. \A i \in 1 .. 12 : i <= 8 => Startup[i] = UpCalls[i]
      BY DEF Startup, UpCalls
    <2>4. \A i \in 1 .. 12 : i > 8 => Loop[i - 8] = UpCalls[i]
      BY DEF Loop, UpCalls
    <2>5. PICK list \in Seq(CallNames) : list = Startup \o Loop
      BY <2>2
    <2>6. Len(list) = Len(UpCalls) /\ \A i \in 1 .. Len(list) : list[i] = UpCalls[i]
      <3>1. /\ Len(list) = 12
            /\ \A i \in 1 .. 12 : list[i] = IF i <= 8 THEN Startup[i] ELSE Loop[i - 8]
        BY <2>2, <2>5
      <3>2. ASSUME NEW i \in 1 .. 12 PROVE list[i] = UpCalls[i]
        <4>1. CASE i <= 8
          BY <2>3, <3>1, <4>1
        <4>2. CASE ~ i <= 8
          <5>1. i > 8
            BY <4>2
          <5> QED
            BY <2>4, <3>1, <4>2, <5>1
        <4> QED
          BY <4>1, <4>2
      <3> QED
        BY <1>1, <3>1, <3>2
    <2>7. list = UpCalls
      BY <1>1, <2>6, SeqEqual
    <2> QED
      BY <2>5, <2>7
  <1> QED
    BY <1>1, <1>4, <1>5, <1>6

\* What follows the i-th call of a list.
LEMMA NextCall ==
  ASSUME NEW calls \in Seq(CallNames), NEW i \in 1 .. Len(calls)
  PROVE  /\ From(calls, i) # <<>>
         /\ Head(From(calls, i)) = calls[i]
         /\ Tail(From(calls, i)) = From(calls, i + 1)
  <1>1. Len(calls) \in Nat /\ i \in Int /\ Len(calls) \in i .. Len(calls)
    OBVIOUS
  <1>2. Head(From(calls, i)) = calls[i] /\ Tail(From(calls, i)) = From(calls, i + 1)
    BY <1>1, HeadTailOfSubSeq DEF From
  <1>3. Len(From(calls, i)) = Len(calls) - i + 1
    BY <1>1, SubSeqProperties DEF From
  <1> QED
    BY <1>1, <1>2, <1>3, EmptySeq

\* A list from its first call on, and after its last.
LEMMA FirstAndNoCall ==
  ASSUME NEW calls \in Seq(CallNames)
  PROVE  From(calls, 1) = calls /\ From(calls, Len(calls) + 1) = <<>>
  <1>1. Len(calls) \in Nat
    OBVIOUS
  <1>2. From(calls, 1) = calls
    BY SubSeqFull DEF From
  <1>3. From(calls, Len(calls) + 1) = <<>>
    BY <1>1, SubSeqEmpty DEF From
  <1> QED
    BY <1>2, <1>3

\* Nothing is left of the two ways down at their ends.
LEMMA ListsEnd == From(UndoServer, 7) = <<>> /\ From(Shutdown, 13) = <<>>
  <1>1. PICK n \in Nat : n = Len(UndoServer) + 1 /\ n = 7
    BY CallLists
  <1>2. PICK k \in Nat : k = Len(Shutdown) + 1 /\ k = 13
    BY CallLists
  <1>3. From(UndoServer, n) = <<>>
    BY <1>1, CallLists, FirstAndNoCall
  <1>4. From(Shutdown, k) = <<>>
    BY <1>2, CallLists, FirstAndNoCall
  <1> QED
    BY <1>1, <1>2, <1>3, <1>4

-----------------------------------------------------------------------------
\* What is so before each call of the main thread.

NothingBegun == \A m \in Match : playersOf[m] = {}

\* Before the i-th call of the way up, or of a round of the loop.
UpFits(i) ==
    /\ todo = From(UpCalls, i)
    /\ runtime \in {"Off", "On"} /\ (i = 1 => runtime = "Off")
    /\ accounts = IF i <= 5 THEN "Stopped" ELSE "Running"
    /\ matches = IF i <= 6 THEN "Stopped" ELSE "Running"
    /\ handler = TRUE <=> i > 6
    /\ server = IF i <= 7 THEN "Down" ELSE IF i = 8 THEN "Receiving" ELSE "Up"
    /\ i <= 5 => \A p \in Player : login[p] = "None"
    /\ i <= 8 => NothingBegun
    /\ i # 10 => extracted = <<>>

\* Before the i-th call of the way back from a server that did not start.
UndoFits(i) ==
    /\ runtime \in {"Off", "On", "Stopped"} /\ (i <= 5 => runtime # "Stopped")
    /\ accounts = IF i <= 3 THEN "Running" ELSE "Stopped"
    /\ matches = IF i <= 2 THEN "Running" ELSE "Stopped"
    /\ handler = TRUE <=> i = 1
    /\ server = "Down"
    /\ NothingBegun

\* Before the i-th call of the way down.
DownFits(i) ==
    /\ todo = From(Shutdown, i)
    /\ runtime \in {"Off", "On", "Stopped"} /\ (runtime = "Stopped" <=> i > 11)
    /\ accounts = IF i <= 8 THEN "Running" ELSE IF i = 9 THEN "Draining" ELSE "Stopped"
    /\ matches = IF i <= 4 THEN "Running" ELSE IF i = 5 THEN "Draining" ELSE "Stopped"
    /\ handler = TRUE <=> i <= 7
    /\ server = IF i = 1 THEN "Up" ELSE "Down"
    /\ i > 1 => playing = {}
    /\ i > 2 => completed = <<>>
    /\ i # 3 => extracted = <<>>
    /\ i > 6 => completions = <<>>

\* Before the configuration is read.
NothingStarted ==
    /\ runtime = "Off" /\ accounts = "Stopped" /\ matches = "Stopped"
    /\ handler = FALSE /\ server = "Down"
    /\ \A p \in Player : login[p] = "None"
    /\ NothingBegun /\ extracted = <<>>

\* Where the main thread is, with all that it has started or stopped by then.
ControlFits ==
    \/ todo = <<"Configure">> /\ NothingStarted
    \/ \E i \in 1 .. 12 : UpFits(i)
    \/ \E i \in 1 .. 7 : todo = From(UndoServer, i) /\ UndoFits(i)
    \/ todo = <<"StopDatabase">> /\ UndoFits(5)
    \/ \E i \in 1 .. 13 : DownFits(i)

\* A stopped pool has nothing left to do.
PoolsFit ==
    /\ login \in [Player -> LoginStates]
    /\ accounts = "Stopped" => LoginsUnderWay({"Queued", "Verified"}) = {}
    /\ matches = "Stopped" => queue = <<>> /\ saving = None

\* Which call is next, in each list.
LEMMA CallAt ==
  ASSUME ControlFits, NEW name, Calls(name)
  PROVE  \/ name = "Configure" /\ NothingStarted /\ Tail(todo) = <<>>
         \/ \E i \in 1 .. 12 : UpFits(i) /\ UpCalls[i] = name /\ Tail(todo) = From(UpCalls, i + 1)
         \/ \E i \in 1 .. 6 : /\ UndoFits(i) /\ UndoServer[i] = name
                              /\ Tail(todo) = From(UndoServer, i + 1)
         \/ name = "StopDatabase" /\ UndoFits(5) /\ Tail(todo) = From(UndoServer, 7)
         \/ \E i \in 1 .. 12 : DownFits(i) /\ Shutdown[i] = name /\ Tail(todo) = From(Shutdown, i + 1)
  <1>1. todo # <<>> /\ Head(todo) = name
    BY DEF Calls
  <1>2. CASE todo = <<"Configure">> /\ NothingStarted
    BY <1>1, <1>2
  <1>3. ASSUME NEW i \in 1 .. 12, UpFits(i)
        PROVE  UpCalls[i] = name /\ Tail(todo) = From(UpCalls, i + 1)
    BY <1>1, <1>3, CallLists, NextCall DEF UpFits
  <1>4. ASSUME NEW i \in 1 .. 7, todo = From(UndoServer, i), UndoFits(i)
        PROVE  i \in 1 .. 6 /\ UndoServer[i] = name /\ Tail(todo) = From(UndoServer, i + 1)
    <2>1. i # 7
      BY <1>1, <1>4, ListsEnd
    <2>2. i \in 1 .. Len(UndoServer)
      BY <2>1, CallLists
    <2>3. UndoServer \in Seq(CallNames)
      BY CallLists
    <2> QED
      BY <1>1, <1>4, <2>1, <2>2, <2>3, NextCall
  <1>5. CASE todo = <<"StopDatabase">> /\ UndoFits(5)
    BY <1>1, <1>5, ListsEnd
  <1>6. ASSUME NEW i \in 1 .. 13, DownFits(i)
        PROVE  i \in 1 .. 12 /\ Shutdown[i] = name /\ Tail(todo) = From(Shutdown, i + 1)
    <2>1. i # 13
      BY <1>1, <1>6, ListsEnd DEF DownFits
    <2>2. i \in 1 .. Len(Shutdown)
      BY <2>1, CallLists
    <2>3. Shutdown \in Seq(CallNames)
      BY CallLists
    <2> QED
      BY <1>1, <1>6, <2>1, <2>2, <2>3, NextCall DEF DownFits
  <1> QED
    BY <1>2, <1>3, <1>4, <1>5, <1>6 DEF ControlFits

\* The lists a failure leaves, and the loop, are ends of the others.
LEMMA OtherLists ==
  /\ From(UndoServer, 1) = UndoServer
  /\ From(UndoServer, 3) = <<"StopAccounts", "Clear", "StopDatabase", "StopLogger">>
  /\ From(UndoServer, 5) = <<"StopDatabase", "StopLogger">>
  /\ From(UpCalls, 1) = UpCalls
  /\ From(UpCalls, 9) = Loop
  /\ From(Shutdown, 1) = Shutdown
  <1>1. From(UndoServer, 1) = UndoServer /\ From(UpCalls, 1) = UpCalls /\ From(Shutdown, 1) = Shutdown
    BY CallLists, FirstAndNoCall
  <1>2. UndoServer \in Seq(CallNames) /\ \A i \in 1 .. 6 : i \in 1 .. Len(UndoServer)
    BY CallLists
  <1>3. \A i \in 1 .. 6 : Tail(From(UndoServer, i)) = From(UndoServer, i + 1)
    BY <1>2, NextCall
  <1>4. From(UndoServer, 2) = <<"StopMatches", "StopAccounts", "Clear", "StopDatabase", "StopLogger">>
    <2>1. From(UndoServer, 2) = Tail(UndoServer)
      BY <1>1, <1>3
    <2> QED
      BY <2>1 DEF UndoServer
  <1>5. From(UndoServer, 3) = <<"StopAccounts", "Clear", "StopDatabase", "StopLogger">>
    <2>1. From(UndoServer, 3) = Tail(From(UndoServer, 2))
      BY <1>3
    <2>2. Tail(<<"StopMatches", "StopAccounts", "Clear", "StopDatabase", "StopLogger">>)
            = <<"StopAccounts", "Clear", "StopDatabase", "StopLogger">>
      OBVIOUS
    <2> QED
      BY <1>4, <2>1, <2>2, Zenon
  <1>6. From(UndoServer, 4) = <<"Clear", "StopDatabase", "StopLogger">>
    <2>1. From(UndoServer, 4) = Tail(From(UndoServer, 3))
      BY <1>3
    <2>2. Tail(<<"StopAccounts", "Clear", "StopDatabase", "StopLogger">>)
            = <<"Clear", "StopDatabase", "StopLogger">>
      OBVIOUS
    <2> QED
      BY <1>5, <2>1, <2>2, Zenon
  <1>7. From(UndoServer, 5) = <<"StopDatabase", "StopLogger">>
    <2>1. From(UndoServer, 5) = Tail(From(UndoServer, 4))
      BY <1>3
    <2>2. Tail(<<"Clear", "StopDatabase", "StopLogger">>)
            = <<"StopDatabase", "StopLogger">>
      OBVIOUS
    <2> QED
      BY <1>6, <2>1, <2>2, Zenon
  <1>8. From(UpCalls, 9) = Loop
    <2>1. Loop \in Seq(CallNames) /\ Len(Loop) = 4
      BY DEF Loop, CallNames
    <2>2. UpCalls \in Seq(CallNames) /\ Len(UpCalls) = 12
      BY CallLists
    <2>3. \A i \in 9 .. 12 : UpCalls[i] \in CallNames
      BY DEF UpCalls, CallNames
    <2>4. PICK list : list = SubSeq(UpCalls, 9, 12)
      OBVIOUS
    <2>5. /\ list \in Seq(CallNames) /\ Len(list) = 4
          /\ \A i \in 1 .. 4 : list[i] = UpCalls[9 + i - 1]
      BY <2>3, <2>4, SubSeqProperties
    <2>6. \A i \in 1 .. 4 : UpCalls[9 + i - 1] = Loop[i]
      BY DEF UpCalls, Loop
    <2>7. list = Loop
      BY <2>1, <2>5, <2>6, SeqEqual
    <2> QED
      BY <2>2, <2>4, <2>7 DEF From
  <1> QED
    BY <1>1, <1>5, <1>7, <1>8

\* Three ways to show where the main thread has come.
LEMMA UpEntered ==
  ASSUME NEW i \in 1 .. 12, UpFits(i)'
  PROVE  ControlFits'
  BY DEF ControlFits

LEMMA UndoEntered ==
  ASSUME NEW i \in 1 .. 7, (todo = From(UndoServer, i))', UndoFits(i)'
  PROVE  ControlFits'
  BY DEF ControlFits

LEMMA DownEntered ==
  ASSUME NEW i \in 1 .. 13, DownFits(i)'
  PROVE  ControlFits'
  BY DEF ControlFits

-----------------------------------------------------------------------------
\* Every call of the main thread leaves what the next one finds.

LEMMA ConfigureMoves ==
  ASSUME ControlFits, Configure
  PROVE  ControlFits'
  <1>1. NothingStarted
    BY CallAt, SMTT(40) DEF Configure, UpCalls, UndoServer, Shutdown
  <1>2. todo' = From(UpCalls, 1)
    BY CallLists, OtherLists DEF Configure
  <1>3. UpFits(1)'
    BY <1>1, <1>2
    DEF Configure, NothingStarted, NothingBegun, UpFits, loginVars, poolVars, matchVars
  <1> QED
    BY <1>3, UpEntered

LEMMA StartDatabaseMoves ==
  ASSUME ControlFits, StartDatabase
  PROVE  ControlFits'
  <1>0. Calls("StartDatabase")
    BY DEF StartDatabase
  <1>1. UpFits(1) /\ Tail(todo) = From(UpCalls, 2)
    BY <1>0, CallAt DEF UpCalls, UndoServer, Shutdown
  <1>2. UNCHANGED <<server, handler, accounts, login, matches, playersOf, extracted>>
    BY DEF StartDatabase, appVars, loginVars, poolVars, matchVars
  <1>3. CASE todo' = Tail(todo) /\ runtime' \in {"Off", "On"}
    <2>1. UpFits(2)'
      BY <1>1, <1>2, <1>3 DEF UpFits, NothingBegun
    <2> QED
      BY <2>1, UpEntered
  <1>4. CASE todo' = <<>> /\ UNCHANGED runtime
    <2>1. UndoFits(7)' /\ (todo = From(UndoServer, 7))'
      BY <1>1, <1>2, <1>4, ListsEnd DEF UpFits, UndoFits, NothingBegun
    <2> QED
      BY <2>1, UndoEntered
  <1> QED
    BY <1>1, <1>3, <1>4 DEF StartDatabase, Goes, Fails, UpFits

LEMMA LoadEntriesMoves ==
  ASSUME ControlFits, LoadEntries
  PROVE  ControlFits'
  <1>1. UpFits(2) /\ Tail(todo) = From(UpCalls, 3)
    BY CallAt DEF LoadEntries, UpCalls, UndoServer, Shutdown
  <1>2. UNCHANGED <<runtime, server, handler, accounts, login, matches, playersOf, extracted>>
    BY DEF LoadEntries, loginVars, poolVars, matchVars
  <1>3. CASE todo' = Tail(todo)
    <2>1. UpFits(3)'
      BY <1>1, <1>2, <1>3 DEF UpFits, NothingBegun
    <2> QED
      BY <2>1, UpEntered
  <1>4. CASE todo' = <<"StopDatabase">>
    BY <1>1, <1>2, <1>4 DEF UpFits, UndoFits, NothingBegun, ControlFits
  <1> QED
    BY <1>3, <1>4 DEF LoadEntries, Goes, Fails

LEMMA ValidateMoves ==
  ASSUME ControlFits, Validate
  PROVE  ControlFits'
  <1>1. UpFits(3) /\ Tail(todo) = From(UpCalls, 4)
    BY CallAt DEF Validate, UpCalls, UndoServer, Shutdown
  <1>2. UpFits(4)'
    BY <1>1 DEF Validate, Goes, UpFits, NothingBegun, loginVars, poolVars, matchVars
  <1> QED
    BY <1>2, UpEntered

LEMMA StartLoggerMoves ==
  ASSUME ControlFits, StartLogger
  PROVE  ControlFits'
  <1>1. UpFits(4) /\ Tail(todo) = From(UpCalls, 5)
    BY CallAt DEF StartLogger, UpCalls, UndoServer, Shutdown
  <1>2. UNCHANGED <<runtime, server, handler, accounts, login, matches, playersOf, extracted>>
    BY DEF StartLogger, loginVars, poolVars, matchVars
  <1>3. CASE todo' = Tail(todo)
    <2>1. UpFits(5)'
      BY <1>1, <1>2, <1>3 DEF UpFits, NothingBegun
    <2> QED
      BY <2>1, UpEntered
  <1>4. CASE todo' = <<"StopDatabase">>
    BY <1>1, <1>2, <1>4 DEF UpFits, UndoFits, NothingBegun, ControlFits
  <1> QED
    BY <1>3, <1>4 DEF StartLogger, Goes, Fails

LEMMA StartAccountsMoves ==
  ASSUME ControlFits, StartAccounts
  PROVE  ControlFits'
  <1>1. UpFits(5) /\ Tail(todo) = From(UpCalls, 6)
    BY CallAt DEF StartAccounts, UpCalls, UndoServer, Shutdown
  <1>2. UNCHANGED <<runtime, server, handler, login, matches, playersOf, extracted>>
    BY DEF StartAccounts, appVars, poolVars, matchVars
  <1>3. CASE todo' = Tail(todo) /\ accounts' = "Running"
    <2>1. UpFits(6)'
      BY <1>1, <1>2, <1>3 DEF UpFits, NothingBegun
    <2> QED
      BY <2>1, UpEntered
  <1>4. CASE todo' = <<"StopDatabase", "StopLogger">> /\ UNCHANGED accounts
    <2>1. UndoFits(5)' /\ (todo = From(UndoServer, 5))'
      BY <1>1, <1>2, <1>4, OtherLists DEF UpFits, UndoFits, NothingBegun
    <2> QED
      BY <2>1, UndoEntered
  <1> QED
    BY <1>3, <1>4 DEF StartAccounts, Goes, Fails

LEMMA StartMatchesMoves ==
  ASSUME ControlFits, StartMatches
  PROVE  ControlFits'
  <1>1. UpFits(6) /\ Tail(todo) = From(UpCalls, 7)
    BY CallAt DEF StartMatches, UpCalls, UndoServer, Shutdown
  <1>2. UNCHANGED <<runtime, server, accounts, login, playersOf, extracted>>
    BY DEF StartMatches, loginVars, matchVars
  <1>3. CASE todo' = Tail(todo) /\ matches' = "Running" /\ handler' = TRUE
    <2>1. UpFits(7)'
      BY <1>1, <1>2, <1>3 DEF UpFits, NothingBegun
    <2> QED
      BY <2>1, UpEntered
  <1>4. CASE /\ todo' = <<"StopAccounts", "Clear", "StopDatabase", "StopLogger">>
             /\ UNCHANGED <<matches, handler>>
    <2>1. UndoFits(3)' /\ (todo = From(UndoServer, 3))'
      BY <1>1, <1>2, <1>4, OtherLists DEF UpFits, UndoFits, NothingBegun
    <2> QED
      BY <2>1, UndoEntered
  <1> QED
    BY <1>3, <1>4 DEF StartMatches, Goes, Fails

LEMMA StartTransportMoves ==
  ASSUME ControlFits, StartTransport
  PROVE  ControlFits'
  <1>1. UpFits(7) /\ Tail(todo) = From(UpCalls, 8)
    BY CallAt DEF StartTransport, UpCalls, UndoServer, Shutdown
  <1>2. UNCHANGED <<runtime, handler, accounts, login, matches, playersOf, extracted>>
    BY DEF StartTransport, loginVars, poolVars, matchVars
  <1>3. CASE todo' = Tail(todo) /\ server' = "Receiving"
    <2>1. UpFits(8)'
      BY <1>1, <1>2, <1>3 DEF UpFits, NothingBegun
    <2> QED
      BY <2>1, UpEntered
  <1>4. CASE todo' = UndoServer /\ UNCHANGED server
    <2>1. UndoFits(1)' /\ (todo = From(UndoServer, 1))'
      BY <1>1, <1>2, <1>4, OtherLists DEF UpFits, UndoFits, NothingBegun
    <2> QED
      BY <2>1, UndoEntered
  <1> QED
    BY <1>3, <1>4 DEF StartTransport, Goes, Fails

LEMMA StartTicksMoves ==
  ASSUME ControlFits, StartTicks
  PROVE  ControlFits'
  <1>1. UpFits(8) /\ Tail(todo) = From(UpCalls, 9)
    BY CallAt DEF StartTicks, UpCalls, UndoServer, Shutdown
  <1>2. UNCHANGED <<runtime, handler, accounts, login, matches, playersOf, extracted>>
    BY DEF StartTicks, loginVars, poolVars, matchVars
  <1>3. CASE todo' = Tail(todo) /\ server' = "Up"
    <2>1. UpFits(9)'
      BY <1>1, <1>2, <1>3 DEF UpFits, NothingBegun
    <2> QED
      BY <2>1, UpEntered
  <1>4. CASE todo' = UndoServer /\ server' = "Down"
    <2>1. UndoFits(1)' /\ (todo = From(UndoServer, 1))'
      BY <1>1, <1>2, <1>4, OtherLists DEF UpFits, UndoFits, NothingBegun
    <2> QED
      BY <2>1, UndoEntered
  <1> QED
    BY <1>3, <1>4 DEF StartTicks, Goes, Fails

LEMMA ExtractMoves ==
  ASSUME ControlFits, PoolsFit, Extract
  PROVE  ControlFits'
  <1>1. Calls("Extract") /\ todo' = Tail(todo) /\ completed' = <<>>
        /\ UNCHANGED <<runtime, accounts, matches, handler, server, login, playersOf, playing,
                       completions>>
    BY DEF Extract, Goes, appVars, loginVars, poolVars
  <1>2. \/ UpFits(9) /\ Tail(todo) = From(UpCalls, 10)
        \/ DownFits(2) /\ Tail(todo) = From(Shutdown, 3)
    BY <1>1, CallAt DEF UpCalls, UndoServer, Shutdown
  <1>3. CASE UpFits(9) /\ Tail(todo) = From(UpCalls, 10)
    <2>1. UpFits(10)'
      BY <1>1, <1>3 DEF UpFits, NothingBegun
    <2> QED
      BY <2>1, UpEntered
  <1>4. CASE DownFits(2) /\ Tail(todo) = From(Shutdown, 3)
    <2>1. DownFits(3)'
      BY <1>1, <1>4 DEF DownFits
    <2> QED
      BY <2>1, DownEntered
  <1> QED
    BY <1>2, <1>3, <1>4

LEMMA ReportMoves ==
  ASSUME ControlFits, PoolsFit, Report
  PROVE  ControlFits'
  <1>1. Calls("Report") /\ todo' = Tail(todo) /\ completions' = <<>>
        /\ UNCHANGED <<runtime, accounts, matches, handler, server, login, playersOf, extracted,
                       playing, completed>>
    BY DEF Report, Goes, appVars, loginVars
  <1>2. \/ UpFits(11) /\ Tail(todo) = From(UpCalls, 12)
        \/ DownFits(6) /\ Tail(todo) = From(Shutdown, 7)
    BY <1>1, CallAt DEF UpCalls, UndoServer, Shutdown
  <1>3. CASE UpFits(11) /\ Tail(todo) = From(UpCalls, 12)
    <2>1. UpFits(12)'
      BY <1>1, <1>3 DEF UpFits, NothingBegun
    <2> QED
      BY <2>1, UpEntered
  <1>4. CASE DownFits(6) /\ Tail(todo) = From(Shutdown, 7)
    <2>1. DownFits(7)'
      BY <1>1, <1>4 DEF DownFits
    <2> QED
      BY <2>1, DownEntered
  <1> QED
    BY <1>2, <1>3, <1>4

LEMMA StopServerMoves ==
  ASSUME ControlFits, PoolsFit, StopServer
  PROVE  ControlFits'
  <1>1. Calls("StopServer") /\ todo' = Tail(todo) /\ server' = "Down" /\ playing' = {}
        /\ UNCHANGED <<runtime, accounts, matches, handler, login, playersOf, extracted,
                       completions>>
    BY DEF StopServer, Goes, loginVars, poolVars
  <1>2. DownFits(1) /\ Tail(todo) = From(Shutdown, 2)
    BY <1>1, CallAt DEF UpCalls, UndoServer, Shutdown
  <1>3. DownFits(2)'
    BY <1>1, <1>2 DEF DownFits
  <1> QED
    BY <1>3, DownEntered

LEMMA DetachMoves ==
  ASSUME ControlFits, PoolsFit, Detach
  PROVE  ControlFits'
  <1>1. Calls("Detach") /\ todo' = Tail(todo) /\ handler' = FALSE
        /\ UNCHANGED <<runtime, accounts, matches, server, login, playersOf, extracted, playing,
                       completed, completions>>
    BY DEF Detach, Goes, loginVars, poolVars, matchVars
  <1>2. \/ DownFits(7) /\ Tail(todo) = From(Shutdown, 8)
        \/ UndoFits(1) /\ Tail(todo) = From(UndoServer, 2)
    BY <1>1, CallAt DEF UpCalls, UndoServer, Shutdown
  <1>3. CASE DownFits(7) /\ Tail(todo) = From(Shutdown, 8)
    <2>1. DownFits(8)'
      BY <1>1, <1>3 DEF DownFits
    <2> QED
      BY <2>1, DownEntered
  <1>4. CASE UndoFits(1) /\ Tail(todo) = From(UndoServer, 2)
    <2>1. UndoFits(2)' /\ (todo = From(UndoServer, 2))'
      BY <1>1, <1>4 DEF UndoFits, NothingBegun
    <2> QED
      BY <2>1, UndoEntered
  <1> QED
    BY <1>2, <1>3, <1>4

LEMMA DrainMatchesMoves ==
  ASSUME ControlFits, PoolsFit, DrainMatches
  PROVE  ControlFits'
  <1>1. Calls("DrainMatches") /\ todo' = Tail(todo) /\ matches' = "Draining"
        /\ UNCHANGED <<runtime, accounts, handler, server, login, playersOf, extracted, playing,
                       completed, completions>>
    BY DEF DrainMatches, Goes, appVars, loginVars, matchVars
  <1>2. DownFits(4) /\ Tail(todo) = From(Shutdown, 5)
    BY <1>1, CallAt DEF UpCalls, UndoServer, Shutdown
  <1>3. DownFits(5)'
    BY <1>1, <1>2 DEF DownFits
  <1> QED
    BY <1>3, DownEntered

LEMMA JoinMatchesMoves ==
  ASSUME ControlFits, PoolsFit, JoinMatches
  PROVE  ControlFits'
  <1>1. Calls("JoinMatches") /\ todo' = Tail(todo) /\ matches' = "Stopped"
        /\ UNCHANGED <<runtime, accounts, handler, server, login, playersOf, extracted, playing,
                       completed, completions>>
    BY DEF JoinMatches, Goes, appVars, loginVars, matchVars
  <1>2. DownFits(5) /\ Tail(todo) = From(Shutdown, 6)
    BY <1>1, CallAt DEF UpCalls, UndoServer, Shutdown
  <1>3. DownFits(6)'
    BY <1>1, <1>2 DEF DownFits
  <1> QED
    BY <1>3, DownEntered

LEMMA DrainAccountsMoves ==
  ASSUME ControlFits, PoolsFit, DrainAccounts
  PROVE  ControlFits'
  <1>1. Calls("DrainAccounts") /\ todo' = Tail(todo) /\ accounts' = "Draining"
        /\ UNCHANGED <<runtime, matches, handler, server, login, playersOf, extracted, playing,
                       completed, completions>>
    BY DEF DrainAccounts, Goes, appVars, poolVars, matchVars
  <1>2. DownFits(8) /\ Tail(todo) = From(Shutdown, 9)
    BY <1>1, CallAt DEF UpCalls, UndoServer, Shutdown
  <1>3. DownFits(9)'
    BY <1>1, <1>2 DEF DownFits
  <1> QED
    BY <1>3, DownEntered

LEMMA JoinAccountsMoves ==
  ASSUME ControlFits, PoolsFit, JoinAccounts
  PROVE  ControlFits'
  <1>1. Calls("JoinAccounts") /\ todo' = Tail(todo) /\ accounts' = "Stopped"
        /\ UNCHANGED <<runtime, matches, handler, server, login, playersOf, extracted, playing,
                       completed, completions>>
    BY DEF JoinAccounts, Goes, appVars, poolVars, matchVars
  <1>2. DownFits(9) /\ Tail(todo) = From(Shutdown, 10)
    BY <1>1, CallAt DEF UpCalls, UndoServer, Shutdown
  <1>3. DownFits(10)'
    BY <1>1, <1>2 DEF DownFits
  <1> QED
    BY <1>3, DownEntered

LEMMA StopMatchesMoves ==
  ASSUME ControlFits, PoolsFit, StopMatches
  PROVE  ControlFits'
  <1>1. Calls("StopMatches") /\ todo' = Tail(todo) /\ matches' = "Stopped"
        /\ UNCHANGED <<runtime, accounts, handler, server, login, playersOf, extracted, playing,
                       completed>>
    BY DEF StopMatches, Goes, appVars, loginVars, matchVars
  <1>2. UndoFits(2) /\ Tail(todo) = From(UndoServer, 3)
    BY <1>1, CallAt DEF UpCalls, UndoServer, Shutdown
  <1>3. UndoFits(3)' /\ (todo = From(UndoServer, 3))'
    BY <1>1, <1>2 DEF UndoFits, NothingBegun
  <1> QED
    BY <1>3, UndoEntered

LEMMA StopAccountsMoves ==
  ASSUME ControlFits, PoolsFit, StopAccounts
  PROVE  ControlFits'
  <1>1. Calls("StopAccounts") /\ todo' = Tail(todo) /\ accounts' = "Stopped"
        /\ UNCHANGED <<runtime, matches, handler, server, playersOf, extracted, playing,
                       completed, completions>>
    BY DEF StopAccounts, Goes, appVars, poolVars, matchVars
  <1>2. UndoFits(3) /\ Tail(todo) = From(UndoServer, 4)
    BY <1>1, CallAt DEF UpCalls, UndoServer, Shutdown
  <1>3. UndoFits(4)' /\ (todo = From(UndoServer, 4))'
    BY <1>1, <1>2 DEF UndoFits, NothingBegun
  <1> QED
    BY <1>3, UndoEntered

LEMMA ClearHandlerMoves ==
  ASSUME ControlFits, PoolsFit, ClearHandler
  PROVE  ControlFits'
  <1>1. Calls("Clear") /\ todo' = Tail(todo)
        /\ UNCHANGED <<runtime, accounts, matches, handler, server, login, playersOf, extracted,
                       playing, completed, completions>>
    BY DEF ClearHandler, Goes, appVars, loginVars, poolVars, matchVars
  <1>2. \/ DownFits(10) /\ Tail(todo) = From(Shutdown, 11)
        \/ UndoFits(4) /\ Tail(todo) = From(UndoServer, 5)
    BY <1>1, CallAt DEF UpCalls, UndoServer, Shutdown
  <1>3. CASE DownFits(10) /\ Tail(todo) = From(Shutdown, 11)
    <2>1. DownFits(11)'
      BY <1>1, <1>3 DEF DownFits
    <2> QED
      BY <2>1, DownEntered
  <1>4. CASE UndoFits(4) /\ Tail(todo) = From(UndoServer, 5)
    <2>1. UndoFits(5)' /\ (todo = From(UndoServer, 5))'
      BY <1>1, <1>4 DEF UndoFits, NothingBegun
    <2> QED
      BY <2>1, UndoEntered
  <1> QED
    BY <1>2, <1>3, <1>4

LEMMA StopDatabaseMoves ==
  ASSUME ControlFits, PoolsFit, StopDatabase
  PROVE  ControlFits'
  <1>1. Calls("StopDatabase") /\ todo' = Tail(todo) /\ runtime' = "Stopped"
        /\ UNCHANGED <<accounts, matches, handler, server, login, playersOf, extracted, playing,
                       completed, completions>>
    BY DEF StopDatabase, Goes, appVars, loginVars, poolVars, matchVars
  <1>2. \/ DownFits(11) /\ Tail(todo) = From(Shutdown, 12)
        \/ UndoFits(5) /\ Tail(todo) = From(UndoServer, 6)
        \/ UndoFits(5) /\ Tail(todo) = From(UndoServer, 7)
    BY <1>1, CallAt DEF UpCalls, UndoServer, Shutdown
  <1>3. CASE DownFits(11) /\ Tail(todo) = From(Shutdown, 12)
    <2>1. DownFits(12)'
      BY <1>1, <1>3 DEF DownFits
    <2> QED
      BY <2>1, DownEntered
  <1>4. CASE UndoFits(5) /\ Tail(todo) = From(UndoServer, 6)
    <2>1. UndoFits(6)' /\ (todo = From(UndoServer, 6))'
      BY <1>1, <1>4 DEF UndoFits, NothingBegun
    <2> QED
      BY <2>1, UndoEntered
  <1>5. CASE UndoFits(5) /\ Tail(todo) = From(UndoServer, 7)
    <2>1. UndoFits(7)' /\ (todo = From(UndoServer, 7))'
      BY <1>1, <1>5 DEF UndoFits, NothingBegun
    <2> QED
      BY <2>1, UndoEntered
  <1> QED
    BY <1>2, <1>3, <1>4, <1>5

LEMMA StopLoggerMoves ==
  ASSUME ControlFits, StopLogger
  PROVE  ControlFits'
  <1>1. Calls("StopLogger") /\ todo' = Tail(todo)
        /\ UNCHANGED <<runtime, accounts, matches, handler, server, login, playersOf, extracted,
                       playing, completed, completions>>
    BY DEF StopLogger, Goes, loginVars, poolVars, matchVars
  <1>2. \/ DownFits(12) /\ Tail(todo) = From(Shutdown, 13)
        \/ UndoFits(6) /\ Tail(todo) = From(UndoServer, 7)
    BY <1>1, CallAt DEF UpCalls, UndoServer, Shutdown
  <1>3. CASE DownFits(12) /\ Tail(todo) = From(Shutdown, 13)
    <2>1. DownFits(13)'
      BY <1>1, <1>3 DEF DownFits
    <2> QED
      BY <2>1, DownEntered
  <1>4. CASE UndoFits(6) /\ Tail(todo) = From(UndoServer, 7)
    <2>1. UndoFits(7)' /\ (todo = From(UndoServer, 7))'
      BY <1>1, <1>4 DEF UndoFits, NothingBegun
    <2> QED
      BY <2>1, UndoEntered
  <1> QED
    BY <1>2, <1>3, <1>4

\* The matches of the list are given to the pool one by one, in one call.
LEMMA EnqueueMoves ==
  ASSUME ControlFits, Enqueue
  PROVE  ControlFits'
  <1>1. /\ Calls("Enqueue")
        /\ UNCHANGED <<runtime, accounts, matches, handler, server, login, playersOf,
                       playing, completed, completions>>
        /\ \/ todo' = Tail(todo) /\ extracted = <<>> /\ extracted' = <<>>
           \/ UNCHANGED todo
    BY DEF Enqueue, Goes, appVars, loginVars
  <1>2. \/ UpFits(10) /\ Tail(todo) = From(UpCalls, 11)
        \/ DownFits(3) /\ Tail(todo) = From(Shutdown, 4)
    BY <1>1, CallAt DEF UpCalls, UndoServer, Shutdown
  <1>3. CASE UpFits(10) /\ Tail(todo) = From(UpCalls, 11)
    <2>1. CASE todo' = Tail(todo) /\ extracted' = <<>>
      <3>1. UpFits(11)'
        BY <1>1, <1>3, <2>1 DEF UpFits, NothingBegun
      <3> QED
        BY <3>1, UpEntered
    <2>2. CASE UNCHANGED todo
      <3>1. UpFits(10)'
        BY <1>1, <1>3, <2>2 DEF UpFits, NothingBegun
      <3> QED
        BY <3>1, UpEntered
    <2> QED
      BY <1>1, <2>1, <2>2
  <1>4. CASE DownFits(3) /\ Tail(todo) = From(Shutdown, 4)
    <2>1. CASE todo' = Tail(todo) /\ extracted' = <<>>
      <3>1. DownFits(4)'
        BY <1>1, <1>4, <2>1 DEF DownFits
      <3> QED
        BY <3>1, DownEntered
    <2>2. CASE UNCHANGED todo
      <3>1. DownFits(3)'
        BY <1>1, <1>4, <2>2 DEF DownFits
      <3> QED
        BY <3>1, DownEntered
    <2> QED
      BY <1>1, <2>1, <2>2
  <1> QED
    BY <1>2, <1>3, <1>4

LEMMA PollMoves ==
  ASSUME ControlFits, Poll
  PROVE  ControlFits'
  <1>1. /\ Calls("Poll") /\ todo' \in {Loop, Shutdown}
        /\ UNCHANGED <<runtime, accounts, matches, handler, server, login, playersOf, extracted,
                       playing, completed, completions>>
    BY DEF Poll, appVars, loginVars, poolVars, matchVars
  <1>2. UpFits(12)
    BY <1>1, CallAt DEF UpCalls, UndoServer, Shutdown
  <1>3. CASE todo' = Loop
    <2>1. UpFits(9)'
      BY <1>1, <1>2, <1>3, OtherLists DEF UpFits, NothingBegun
    <2> QED
      BY <2>1, UpEntered
  <1>4. CASE todo' = Shutdown
    <2>1. DownFits(1)'
      BY <1>1, <1>2, <1>4, OtherLists DEF UpFits, DownFits
    <2> QED
      BY <2>1, DownEntered
  <1> QED
    BY <1>1, <1>3, <1>4

\* All calls of the main thread together.
LEMMA MainMoves ==
  ASSUME ControlFits, PoolsFit, MainStep \/ Join
  PROVE  ControlFits'
  BY ConfigureMoves, StartDatabaseMoves, LoadEntriesMoves, ValidateMoves, StartLoggerMoves,
     StartAccountsMoves, StartMatchesMoves, StartTransportMoves, StartTicksMoves, ExtractMoves,
     EnqueueMoves, ReportMoves, PollMoves, StopServerMoves, DetachMoves, DrainMatchesMoves,
     JoinMatchesMoves, DrainAccountsMoves, JoinAccountsMoves, StopMatchesMoves, StopAccountsMoves,
     ClearHandlerMoves, StopDatabaseMoves, StopLoggerMoves
  DEF MainStep, StartStep, Join

\* The other threads do nothing the next call of the main thread would notice:
\* there are no logins before their pool, no matches before the server is up,
\* and no results once their pool has stopped.
LEMMA OthersStay ==
  ASSUME ControlFits,
         UNCHANGED <<todo, runtime, accounts, matches, handler, server, extracted>>,
         accounts = "Stopped" => UNCHANGED login,
         server # "Up" => UNCHANGED <<playersOf, playing, completed>>,
         matches = "Stopped" => UNCHANGED completions
  PROVE  ControlFits'
  <1>1. CASE todo = <<"Configure">> /\ NothingStarted
    BY <1>1 DEF ControlFits, NothingStarted, NothingBegun
  <1>2. ASSUME NEW i \in 1 .. 12, UpFits(i) PROVE ControlFits'
    <2>1. UpFits(i)'
      BY <1>2 DEF UpFits, NothingBegun
    <2> QED
      BY <2>1, UpEntered
  <1>3. ASSUME NEW i \in 1 .. 7, UndoFits(i) PROVE UndoFits(i)'
    BY <1>3 DEF UndoFits, NothingBegun
  <1>4. ASSUME NEW i \in 1 .. 13, DownFits(i) PROVE ControlFits'
    <2>1. DownFits(i)'
      BY <1>4 DEF DownFits
    <2> QED
      BY <2>1, DownEntered
  <1> QED
    BY <1>1, <1>2, <1>3, <1>4 DEF ControlFits

\* No step of the server and of the two pools disturbs the main thread.
LEMMA OthersMove ==
  ASSUME ControlFits, PoolsFit, ServerStep \/ AccountWorkerStep \/ MatchWorkerStep
  PROVE  ControlFits'
  <1>1. UNCHANGED <<todo, runtime, accounts, matches, handler, server, extracted>>
    BY DEF ServerStep, AccountWorkerStep, MatchWorkerStep, SubmitLogin, AdmitLogin, BeginMatch,
           CompleteMatch, FindAccount, FindPlayer, TakeMatch, SaveTaken, PushCompletion,
           appVars, loginVars, poolVars, matchVars
  <1>2. accounts = "Stopped" => UNCHANGED login
    <2>1. ASSUME NEW p \in Player, SubmitLogin(p) PROVE accounts # "Stopped"
      BY <2>1 DEF SubmitLogin
    <2>2. ASSUME NEW p \in Player, FindAccount(p) \/ FindPlayer(p) PROVE accounts # "Stopped"
      BY <2>2 DEF FindAccount, FindPlayer, PoolsFit, LoginsUnderWay
    <2>3. ASSUME NEW p \in Player, AdmitLogin(p) PROVE accounts # "Stopped"
      BY <2>3 DEF AdmitLogin, ControlFits, NothingStarted, UpFits, UndoFits, DownFits
    <2> QED
      BY <2>1, <2>2, <2>3 DEF ServerStep, AccountWorkerStep, MatchWorkerStep, BeginMatch,
         CompleteMatch, TakeMatch, SaveTaken, PushCompletion, loginVars
  <1>3. server # "Up" => UNCHANGED <<playersOf, playing, completed>>
    BY DEF ServerStep, AccountWorkerStep, MatchWorkerStep, SubmitLogin, AdmitLogin, BeginMatch,
           CompleteMatch, FindAccount, FindPlayer, TakeMatch, SaveTaken, PushCompletion, matchVars
  <1>4. matches = "Stopped" => UNCHANGED completions
    BY DEF ServerStep, AccountWorkerStep, MatchWorkerStep, SubmitLogin, AdmitLogin, BeginMatch,
           CompleteMatch, FindAccount, FindPlayer, TakeMatch, SaveTaken, PushCompletion, poolVars,
           PoolsFit
  <1> QED
    BY <1>1, <1>2, <1>3, <1>4, OthersStay

-----------------------------------------------------------------------------
\* A pool stops when nothing is left in it.

\* StopAccounts and JoinAccounts wait for the logins under way.
LEMMA AccountsFit ==
  ASSUME PoolsFit, Next
  PROVE  /\ login' \in [Player -> LoginStates]
         /\ accounts' = "Stopped" => LoginsUnderWay({"Queued", "Verified"})' = {}
  <1> DEFINE Fits == /\ login' \in [Player -> LoginStates]
                     /\ accounts' = "Stopped" => LoginsUnderWay({"Queued", "Verified"})' = {}
  <1>1. ASSUME UNCHANGED login, accounts' # "Stopped" \/ UNCHANGED accounts PROVE Fits
    BY <1>1 DEF PoolsFit, LoginsUnderWay
  <1>2. CASE JoinAccounts
    BY <1>2 DEF JoinAccounts, PoolsFit, LoginsUnderWay
  <1>3. CASE StopAccounts
    BY <1>3 DEF StopAccounts, PoolsFit, LoginsUnderWay, LoginStates
  <1>4. ASSUME NEW p \in Player, SubmitLogin(p) PROVE Fits
    BY <1>4 DEF SubmitLogin, PoolsFit, LoginStates
  <1>5. ASSUME NEW p \in Player, AdmitLogin(p) PROVE Fits
    BY <1>5 DEF AdmitLogin, PoolsFit, LoginStates, LoginsUnderWay
  <1>6. ASSUME NEW p \in Player, FindAccount(p) PROVE Fits
    BY <1>6 DEF FindAccount, PoolsFit, LoginStates, LoginsUnderWay
  <1>7. ASSUME NEW p \in Player, FindPlayer(p) PROVE Fits
    BY <1>7 DEF FindPlayer, PoolsFit, LoginStates, LoginsUnderWay
  <1>8. CASE StartStep
    BY <1>1, <1>8 DEF StartStep, Configure, StartDatabase, LoadEntries, Validate, StartLogger,
       StartAccounts, StartMatches, StartTransport, StartTicks, loginVars
  <1>9. CASE \/ Extract \/ Enqueue \/ Report \/ Poll \/ StopServer \/ Detach \/ DrainMatches
             \/ DrainAccounts \/ StopMatches \/ ClearHandler \/ StopDatabase \/ StopLogger
             \/ JoinMatches
    BY <1>1, <1>9 DEF Extract, Enqueue, Report, Poll, StopServer, Detach, DrainMatches,
       DrainAccounts, StopMatches, ClearHandler, StopDatabase, StopLogger, JoinMatches, loginVars
  <1>10. ASSUME NEW m \in Match, BeginMatch(m) \/ CompleteMatch(m) PROVE Fits
    BY <1>1, <1>10 DEF BeginMatch, CompleteMatch, loginVars
  <1>11. CASE MatchWorkerStep
    BY <1>1, <1>11 DEF MatchWorkerStep, TakeMatch, SaveTaken, PushCompletion, loginVars
  <1> QED
    BY <1>2, <1>3, <1>4, <1>5, <1>6, <1>7, <1>8, <1>9, <1>10, <1>11
    DEF Next, MainStep, Join, ServerStep, AccountWorkerStep

\* StopMatches and JoinMatches wait for the matches under way.
LEMMA MatchesFit ==
  ASSUME PoolsFit, Next
  PROVE  matches' = "Stopped" => queue' = <<>> /\ saving' = None
  <1> DEFINE Fits == matches' = "Stopped" => queue' = <<>> /\ saving' = None
  <1>1. ASSUME UNCHANGED <<queue, saving>>, matches' # "Stopped" \/ UNCHANGED matches PROVE Fits
    BY <1>1 DEF PoolsFit
  <1>2. CASE Enqueue
    BY <1>2 DEF Enqueue, PoolsFit
  <1>3. CASE JoinMatches \/ StopMatches
    BY <1>3 DEF JoinMatches, StopMatches
  <1>4. CASE MatchWorkerStep
    BY <1>4 DEF MatchWorkerStep, TakeMatch, SaveTaken, PushCompletion, PoolsFit
  <1>5. CASE StartStep
    BY <1>1, <1>5 DEF StartStep, Configure, StartDatabase, LoadEntries, Validate, StartLogger,
       StartAccounts, StartMatches, StartTransport, StartTicks, poolVars
  <1>6. CASE \/ Extract \/ Report \/ Poll \/ StopServer \/ Detach \/ DrainMatches
             \/ DrainAccounts \/ StopAccounts \/ ClearHandler \/ StopDatabase \/ StopLogger
             \/ JoinAccounts
    BY <1>1, <1>6 DEF Extract, Report, Poll, StopServer, Detach, DrainMatches,
       DrainAccounts, StopAccounts, ClearHandler, StopDatabase, StopLogger, JoinAccounts, poolVars
  <1>7. CASE ServerStep \/ AccountWorkerStep
    BY <1>1, <1>7 DEF ServerStep, AccountWorkerStep, SubmitLogin, AdmitLogin, BeginMatch,
       CompleteMatch, FindAccount, FindPlayer, poolVars
  <1> QED
    BY <1>2, <1>3, <1>4, <1>5, <1>6, <1>7 DEF Next, MainStep, Join

\* The first layer of the invariant holds, and implies what it is for.
LEMMA Starts == Init => ControlFits /\ PoolsFit
  <1>1. ASSUME Init PROVE ControlFits
    BY <1>1 DEF Init, ControlFits, NothingStarted, NothingBegun
  <1>2. ASSUME Init PROVE PoolsFit
    BY <1>2 DEF Init, PoolsFit, LoginStates, LoginsUnderWay
  <1> QED
    BY <1>1, <1>2

LEMMA StepsFit ==
  ASSUME ControlFits /\ PoolsFit, [Next]_vars
  PROVE  (ControlFits /\ PoolsFit)'
  <1>1. CASE Next
    <2>1. ControlFits'
      BY <1>1, MainMoves, OthersMove DEF Next
    <2>2. PoolsFit'
      BY <1>1, AccountsFit, MatchesFit DEF PoolsFit
    <2> QED
      BY <2>1, <2>2
  <1>2. CASE UNCHANGED vars
    <2>1. ControlFits'
      BY <1>2, OthersStay DEF vars, appVars, loginVars, poolVars, matchVars
    <2>2. PoolsFit'
      BY <1>2 DEF PoolsFit, LoginsUnderWay, vars, loginVars, poolVars
    <2> QED
      BY <2>1, <2>2
  <1> QED
    BY <1>1, <1>2

LEMMA ControlHolds == Spec => [](ControlFits /\ PoolsFit)
  BY Starts, StepsFit, PTL DEF Spec

\* Where the database is closed, nobody is left who uses it.
LEMMA PoolsEndFirst ==
  ASSUME ControlFits, PoolsFit, runtime = "Stopped"
  PROVE  /\ accounts = "Stopped" /\ matches = "Stopped" /\ server = "Down" /\ ~ handler
         /\ queue = <<>> /\ saving = None /\ LoginsUnderWay({"Queued", "Verified"}) = {}
  <1>1. accounts = "Stopped" /\ matches = "Stopped" /\ server = "Down" /\ ~ handler = TRUE
    BY DEF ControlFits, NothingStarted, UpFits, UndoFits, DownFits
  <1> QED
    BY <1>1 DEF PoolsFit

\* The database is closed after everything that uses it has stopped, on every
\* way out of GameServerApp::Run.
THEOREM DatabaseIsClosedLast == Spec => []DatabaseOutlivesItsUsers
  <1>1. ControlFits /\ PoolsFit => DatabaseOutlivesItsUsers
    BY PoolsEndFirst DEF DatabaseOutlivesItsUsers
  <1> QED
    BY <1>1, ControlHolds, PTL

-----------------------------------------------------------------------------
\* What the operations of the database leave.

\* Outside a transaction the connection commits at once, and sees what is
\* committed.
ConnectionFits(d) ==
    /\ d \in Databases
    /\ d.open = FALSE => d.active = FALSE
    /\ d.active = TRUE => d.auto = FALSE
    /\ d.active = FALSE => d.auto = TRUE /\ d.seen = d.committed

\* The database d inside a transaction, in which the rows "seen" were written.
InWork(d, committed, seen) ==
    /\ d \in Databases
    /\ d.open = TRUE /\ d.active = TRUE /\ d.auto = FALSE
    /\ d.committed = committed /\ d.seen = seen

Working(d, committed) == \E seen \in Rows : InWork(d, committed, seen)

WithMatch(rows, m) == [rows EXCEPT !.matches = @ \cup {m}]
WithStats(rows, m, players) == [rows EXCEPT !.stats = @ \cup ({m} \X players)]

\* The outcomes of each statement on a connection that fits.
LEMMA BeginOutcome ==
  ASSUME NEW d, ConnectionFits(d), NEW o \in BeginTransaction(d)
  PROVE  \/ o.ok = FALSE /\ o.db = d
         \/ /\ o.ok = TRUE /\ d.open = TRUE /\ d.active = FALSE
            /\ InWork(o.db, d.committed, d.committed)
  <1>1. \/ o = [db |-> d, ok |-> FALSE]
        \/ /\ d.open /\ ~ d.active
           /\ o = [db |-> [d EXCEPT !.active = TRUE, !.auto = FALSE], ok |-> TRUE]
    BY DEF BeginTransaction, Outcome
  <1>2. CASE o = [db |-> d, ok |-> FALSE]
    BY <1>2
  <1>3. CASE /\ d.open /\ ~ d.active
             /\ o = [db |-> [d EXCEPT !.active = TRUE, !.auto = FALSE], ok |-> TRUE]
    <2>1. PICK e : e = [d EXCEPT !.active = TRUE, !.auto = FALSE]
      OBVIOUS
    <2>2. o.db = e /\ o.ok = TRUE
      BY <1>3, <2>1
    <2>3. /\ e \in Databases /\ e.open = d.open /\ e.active = TRUE /\ e.auto = FALSE
          /\ e.committed = d.committed /\ e.seen = d.seen
      BY <2>1 DEF ConnectionFits, Databases
    <2>4. d.open = TRUE /\ d.active = FALSE
      BY <1>3 DEF ConnectionFits, Databases
    <2> QED
      BY <2>2, <2>3, <2>4 DEF ConnectionFits, InWork
  <1> QED
    BY <1>1, <1>2, <1>3

LEMMA InsertOutcome ==
  ASSUME NEW rows \in Rows, NEW seen, NEW d, NEW new \in Rows, InWork(d, rows, seen),
         NEW o \in Insert(d, new)
  PROVE  /\ o.ok \in BOOLEAN
         /\ InWork(o.db, rows, seen) \/ InWork(o.db, rows, new)
         /\ o.ok = TRUE => InWork(o.db, rows, new)
  <1>1. PICK e : e = [d EXCEPT !.seen = new, !.committed = IF d.auto THEN new ELSE @]
    OBVIOUS
  <1>2. InWork(e, rows, new)
    BY <1>1 DEF InWork, Databases
  <1>3. \/ o.ok = FALSE /\ o.db = d
        \/ (o.ok = FALSE \/ o.ok = TRUE) /\ o.db = e
    <2>1. o \in {Outcome(d, FALSE), Outcome(e, FALSE), Outcome(e, TRUE)}
      BY <1>1, Zenon DEF Insert
    <2> QED
      BY <2>1 DEF Outcome
  <1> QED
    BY <1>2, <1>3

LEMMA InsertMatchOutcome ==
  ASSUME NEW rows \in Rows, NEW seen \in Rows, NEW d, InWork(d, rows, seen), NEW m \in Match,
         NEW o \in InsertMatch(d, m)
  PROVE  /\ o.ok \in BOOLEAN
         /\ Working(o.db, rows)
         /\ o.ok = TRUE => InWork(o.db, rows, WithMatch(seen, m))
  <1>1. WithMatch(seen, m) \in Rows
    BY DEF WithMatch, Rows
  <1>2. o \in Insert(d, WithMatch(seen, m))
    BY DEF InsertMatch, WithMatch, InWork
  <1> QED
    BY <1>1, <1>2, InsertOutcome DEF Working

LEMMA InsertStatsOutcome ==
  ASSUME NEW rows \in Rows, NEW seen \in Rows, NEW d, InWork(d, rows, seen), NEW m \in Match,
         NEW players \in SUBSET Player, NEW o \in InsertStats(d, m, players)
  PROVE  /\ o.ok \in BOOLEAN
         /\ Working(o.db, rows)
         /\ o.ok = TRUE => /\ players \subseteq seen.players
                           /\ InWork(o.db, rows, WithStats(seen, m, players))
  <1>1. \A some \in SUBSET Player : WithStats(seen, m, some) \in Rows
    BY DEF WithStats, Rows
  <1>2. \/ \E some \in SUBSET Player : o \in Insert(d, WithStats(seen, m, some)) /\ ~ o.ok
        \/ players \subseteq seen.players /\ o \in Insert(d, WithStats(seen, m, players))
    BY DEF InsertStats, WithStats, InWork, Rows
  <1>3. CASE \E some \in SUBSET Player : o \in Insert(d, WithStats(seen, m, some)) /\ ~ o.ok
    BY <1>1, <1>3, InsertOutcome DEF Working
  <1>4. CASE players \subseteq seen.players /\ o \in Insert(d, WithStats(seen, m, players))
    BY <1>1, <1>4, InsertOutcome DEF Working
  <1> QED
    BY <1>2, <1>3, <1>4

LEMMA CommitOutcome ==
  ASSUME NEW rows \in Rows, NEW seen \in Rows, NEW d, InWork(d, rows, seen),
         NEW o \in CommitTransaction(d)
  PROVE  /\ o.ok \in BOOLEAN
         /\ ConnectionFits(o.db)
         /\ o.db.committed \in {rows, seen}
         /\ o.ok = TRUE => o.db.committed = seen
  <1> DEFINE done == [d EXCEPT !.committed = d.seen]
             ended == [done EXCEPT !.active = FALSE]
  <1>1. PICK e : e = done
    OBVIOUS
  <1>2. PICK f : f = [ended EXCEPT !.auto = TRUE]
    OBVIOUS
  <1>3. PICK g : g = Close(ended)
    OBVIOUS
  <1>4. ConnectionFits(e) /\ e.committed = seen
    BY <1>1 DEF InWork, ConnectionFits, Databases
  <1>5. ConnectionFits(f) /\ f.committed = seen
    BY <1>2 DEF InWork, ConnectionFits, Databases
  <1>6. ConnectionFits(g) /\ g.committed = seen
    BY <1>3 DEF InWork, ConnectionFits, Databases, Close
  <1>7. ConnectionFits(d) /\ d.committed = rows
    BY DEF InWork, ConnectionFits
  <1>8. \/ o.ok = FALSE /\ o.db \in {d, e, g}
        \/ o.ok = TRUE /\ o.db = f
    <2> HIDE DEF done, ended
    <2>1. o \in {Outcome(d, FALSE), Outcome(e, FALSE), Outcome(f, TRUE), Outcome(g, FALSE)}
      BY <1>1, <1>2, <1>3 DEF CommitTransaction, InWork, done, ended
    <2> QED
      BY <2>1 DEF Outcome
  <1> QED
    BY <1>4, <1>5, <1>6, <1>7, <1>8

LEMMA RollbackOutcome ==
  ASSUME NEW d, ConnectionFits(d), NEW o \in RollbackWithError(d)
  PROVE  /\ o.ok = FALSE
         /\ ConnectionFits(o.db)
         /\ o.db.committed = d.committed
  <1> DEFINE ended == [d EXCEPT !.seen = d.committed, !.active = FALSE]
  <1>1. PICK f : f = [ended EXCEPT !.auto = TRUE]
    OBVIOUS
  <1>2. PICK g : g = Close(ended)
    OBVIOUS
  <1>3. ConnectionFits(f) /\ f.committed = d.committed
    BY <1>1 DEF ConnectionFits, Databases
  <1>4. ConnectionFits(g) /\ g.committed = d.committed
    BY <1>2 DEF ConnectionFits, Databases, Close
  <1>5. o.ok = FALSE /\ o.db \in {d, f, g}
    <2>1. \A r \in RollbackTransaction(d) : r.db \in {d, f, g}
      BY <1>1, <1>2 DEF RollbackTransaction, Outcome
    <2> QED
      BY <2>1 DEF RollbackWithError, Outcome
  <1> QED
    BY <1>3, <1>4, <1>5

\* A match is saved as a whole, or nothing of it is.
LEMMA SaveOutcome ==
  ASSUME NEW d, ConnectionFits(d), NEW m \in Match, NEW players \in SUBSET Player,
         NEW o \in SaveMatch(d, m, players)
  PROVE  /\ o.ok \in BOOLEAN
         /\ ConnectionFits(o.db)
         /\ \/ o = Outcome(d, FALSE)
            \/ d.active = FALSE /\ d.open = TRUE
         /\ \/ o.ok = FALSE /\ o.db.committed = d.committed
            \/ /\ players \subseteq d.committed.players
               /\ o.db.committed = WithStats(WithMatch(d.committed, m), m, players)
  <1> DEFINE Stats(e) == InsertStats(e, m, players)
             Work(e) == Then(Then(InsertMatch(e, m), Stats), CommitTransaction)
             WholeWork(e) == OrRollback(Work(e))
             old == d.committed
             new == WithStats(WithMatch(old, m), m, players)
  <1>1. CASE o = Outcome(d, FALSE)
    BY <1>1 DEF Outcome
  <1>2. ASSUME NEW b \in BeginTransaction(d), b.ok = TRUE, o \in WholeWork(b.db)
        PROVE  /\ o.ok \in BOOLEAN /\ ConnectionFits(o.db)
               /\ d.active = FALSE /\ d.open = TRUE
               /\ \/ o.ok = FALSE /\ o.db.committed = old
                  \/ players \subseteq old.players /\ o.db.committed = new
    <2>1. d.active = FALSE /\ d.open = TRUE /\ InWork(b.db, old, old) /\ old \in Rows
      BY <1>2, BeginOutcome DEF ConnectionFits, Databases
    <2> HIDE DEF new
    <2>2. WithMatch(old, m) \in Rows /\ WithMatch(old, m).players = old.players
      BY <2>1 DEF WithMatch, Rows
    <2>3. new \in Rows
      BY <2>2 DEF new, WithStats, Rows
    <2>9. \A e : \A c \in CommitTransaction(e) :
              InWork(e, old, new) => /\ c.ok \in BOOLEAN /\ ConnectionFits(c.db)
                                     /\ c.db.committed \in {old, new}
                                     /\ c.ok = TRUE => c.db.committed = new
      BY <2>1, <2>3, CommitOutcome
    <2>4. PICK w \in Work(b.db) : o \in (IF w.ok THEN {w} ELSE RollbackWithError(w.db))
      BY <1>2 DEF OrRollback
    <2>5. /\ w.ok \in BOOLEAN
          /\ \/ w.ok = FALSE /\ Working(w.db, old)
             \/ /\ players \subseteq old.players /\ ConnectionFits(w.db)
                /\ w.db.committed = new \/ (w.ok = FALSE /\ w.db.committed = old)
      <3>1. PICK s \in Then(InsertMatch(b.db, m), Stats) :
                w \in (IF s.ok THEN CommitTransaction(s.db) ELSE {s})
        BY <2>4 DEF Then
      <3>2. /\ s.ok \in BOOLEAN
            /\ Working(s.db, old)
            /\ s.ok = TRUE => players \subseteq old.players /\ InWork(s.db, old, new)
        <4>1. PICK i \in InsertMatch(b.db, m) : s \in (IF i.ok THEN Stats(i.db) ELSE {i})
          BY <3>1 DEF Then
        <4>2. /\ i.ok \in BOOLEAN
              /\ Working(i.db, old)
              /\ i.ok = TRUE => InWork(i.db, old, WithMatch(old, m))
          BY <2>1, <4>1, InsertMatchOutcome
        <4>3. CASE i.ok = TRUE
          <5>1. s \in InsertStats(i.db, m, players)
            BY <4>1, <4>3
          <5>2. /\ s.ok \in BOOLEAN /\ Working(s.db, old)
                /\ s.ok = TRUE => /\ players \subseteq WithMatch(old, m).players
                                  /\ InWork(s.db, old, WithStats(WithMatch(old, m), m, players))
            BY <2>1, <2>2, <4>2, <4>3, <5>1, InsertStatsOutcome
          <5> QED
            BY <2>2, <5>2 DEF new
        <4>4. CASE i.ok = FALSE
          BY <4>1, <4>2, <4>4
        <4> QED
          BY <4>2, <4>3, <4>4
      <3>3. CASE s.ok = TRUE
        <4>1. w \in CommitTransaction(s.db)
          BY <3>1, <3>3
        <4>2. InWork(s.db, old, new) /\ players \subseteq old.players
          BY <3>2, <3>3
        <4>3. /\ w.ok \in BOOLEAN /\ ConnectionFits(w.db)
              /\ w.db.committed \in {old, new}
              /\ w.ok = TRUE => w.db.committed = new
          BY <2>9, <4>1, <4>2
        <4> QED
          BY <4>2, <4>3
      <3>4. CASE s.ok = FALSE
        BY <3>1, <3>2, <3>4
      <3> QED
        BY <3>2, <3>3, <3>4
    <2>6. Working(w.db, old) => ConnectionFits(w.db) /\ w.db.committed = old
      BY DEF Working, InWork, ConnectionFits
    <2>7. CASE w.ok = TRUE
      <3>1. o = w
        BY <2>4, <2>7
      <3> QED
        BY <2>1, <2>5, <2>7, <3>1
    <2>8. CASE w.ok = FALSE
      <3>1. o \in RollbackWithError(w.db)
        BY <2>4, <2>8
      <3>2. ConnectionFits(w.db)
        BY <2>5, <2>6
      <3>3. o.ok = FALSE /\ ConnectionFits(o.db) /\ o.db.committed = w.db.committed
        BY <3>1, <3>2, RollbackOutcome
      <3>4. w.db.committed = old \/ (players \subseteq old.players /\ w.db.committed = new)
        BY <2>5, <2>6
      <3> QED
        BY <2>1, <3>3, <3>4
    <2> QED
      BY <2>5, <2>7, <2>8
  <1>3. \/ o = Outcome(d, FALSE)
        \/ \E b \in BeginTransaction(d) : b.ok = TRUE /\ o \in WholeWork(b.db)
    <2>1. CASE ~ d.open
      BY <2>1 DEF SaveMatch
    <2>2. CASE d.open
      <3>1. PICK b \in BeginTransaction(d) : o \in (IF b.ok THEN WholeWork(b.db) ELSE {b})
        BY <2>2 DEF SaveMatch, Then
      <3>2. PICK e : e = [d EXCEPT !.active = TRUE, !.auto = FALSE]
        OBVIOUS
      <3>3. b = Outcome(d, FALSE) \/ b = Outcome(e, TRUE)
        BY <3>2 DEF BeginTransaction
      <3>4. b.ok = TRUE \/ (b.ok = FALSE /\ b = Outcome(d, FALSE))
        BY <3>3 DEF Outcome
      <3> QED
        BY <3>1, <3>4
    <2> QED
      BY <2>1, <2>2
  <1> QED
    BY <1>1, <1>2, <1>3

\* The row of a player is committed with the login, or left in a transaction
\* that a rollback could not end.
LEMMA FindPlayerOutcome ==
  ASSUME NEW d, ConnectionFits(d), NEW p \in Player, NEW o \in FindOrCreatePlayerByAccountId(d, p)
  PROVE  /\ o.ok \in BOOLEAN
         /\ ConnectionFits(o.db)
         /\ o.db.open = d.open /\ o.db.active = d.active
         /\ o.db.committed.matches = d.committed.matches
         /\ o.db.committed.stats = d.committed.stats
         /\ d.committed.players \subseteq o.db.committed.players
         /\ d.seen.players \subseteq o.db.seen.players
         /\ o.ok = TRUE => /\ d.open = TRUE
                           /\ \/ p \in o.db.committed.players
                              \/ o.db.active = TRUE /\ p \in o.db.seen.players
  <1> DEFINE new == [d.seen EXCEPT !.players = @ \cup {p}]
  <1>1. PICK e : e = [d EXCEPT !.seen = new, !.committed = IF d.auto THEN new ELSE @]
    OBVIOUS
  <1>2. PICK f : f = [d EXCEPT !.seen.players = @ \cup {p}, !.committed.players = @ \cup {p}]
    OBVIOUS
  <1>3. d \in Databases /\ d.seen \in Rows /\ d.committed \in Rows
    BY DEF ConnectionFits, Databases
  <1>4. /\ new \in Rows /\ new.players = d.seen.players \cup {p}
        /\ new.matches = d.seen.matches /\ new.stats = d.seen.stats
    BY <1>3 DEF Rows
  <1>5. /\ e \in Databases /\ e.open = d.open /\ e.active = d.active /\ e.auto = d.auto
        /\ e.seen = new /\ e.committed = IF d.auto THEN new ELSE d.committed
    <2> HIDE DEF new
    <2> QED
      BY <1>1, <1>3, <1>4 DEF Databases
  <1>6. /\ f \in Databases /\ f.open = d.open /\ f.active = d.active /\ f.auto = d.auto
        /\ f.seen = [d.seen EXCEPT !.players = @ \cup {p}]
        /\ f.committed = [d.committed EXCEPT !.players = @ \cup {p}]
    BY <1>2, <1>3 DEF Databases, Rows
  <1>7. \/ o.ok = FALSE /\ o.db = d
        \/ o.ok = TRUE /\ o.db = d /\ d.open /\ p \in d.seen.players
        \/ (o.ok = FALSE \/ o.ok = TRUE) /\ d.open /\ o.db \in {e, f}
    <2>1. \/ o = Outcome(d, FALSE)
          \/ d.open /\ p \in d.seen.players /\ o = Outcome(d, TRUE)
          \/ d.open /\ o \in CreatePlayer(d, p)
          \/ d.open /\ o \in CreatedElsewhere(d, p)
      BY DEF FindOrCreatePlayerByAccountId
    <2>2. CreatePlayer(d, p) = {Outcome(d, FALSE), Outcome(e, FALSE), Outcome(e, TRUE)}
      BY <1>1, Zenon DEF CreatePlayer, Insert
    <2>3. CreatedElsewhere(d, p) = {Outcome(f, FALSE), Outcome(f, TRUE)}
      BY <1>2, Zenon DEF CreatedElsewhere
    <2> QED
      BY <2>1, <2>2, <2>3 DEF Outcome
  <1>8. ConnectionFits(e) /\ ConnectionFits(f)
    BY <1>4, <1>5, <1>6 DEF ConnectionFits
  <1>9. /\ e.seen.players = d.seen.players \cup {p}
        /\ e.committed.matches = d.committed.matches /\ e.committed.stats = d.committed.stats
        /\ d.committed.players \subseteq e.committed.players
        /\ p \in e.committed.players \/ e.active = TRUE
    BY <1>4, <1>5 DEF ConnectionFits, Databases
  <1>10. /\ f.seen.players = d.seen.players \cup {p}
         /\ f.committed.matches = d.committed.matches /\ f.committed.stats = d.committed.stats
         /\ f.committed.players = d.committed.players \cup {p}
    BY <1>3, <1>6 DEF Rows
  <1>11. p \in d.seen.players => p \in d.committed.players \/ d.active = TRUE
    BY DEF ConnectionFits, Databases
  <1>12. d.open = TRUE \/ d.open = FALSE
    BY <1>3 DEF Databases
  <1> QED
    BY <1>5, <1>6, <1>7, <1>8, <1>9, <1>10, <1>11, <1>12

-----------------------------------------------------------------------------
\* Counting in a sequence.

\* How many elements of a sequence are in a set.
Hits(seq, set) == Cardinality({i \in 1 .. Len(seq) : seq[i] \in set})

\* Positions after the n-th are as many as they were before they moved there.
LEMMA MovedPositions ==
  ASSUME NEW n \in Nat, NEW k \in Nat, NEW J \in SUBSET (1 .. k)
  PROVE  LET moved == {j \in (n + 1) .. (n + k) : j - n \in J}
         IN  IsFiniteSet(moved) /\ Cardinality(moved) = Cardinality(J)
  <1> DEFINE moved == {j \in (n + 1) .. (n + k) : j - n \in J}
             f == [j \in J |-> n + j]
  <1>1. IsFiniteSet(J)
    BY FS_Interval, FS_Subset, 1 \in Int, k \in Int
  <1>2. f \in Bijection(J, moved)
    <2>1. f \in [J -> moved]
      OBVIOUS
    <2>2. f \in Injection(J, moved)
      BY <2>1 DEF Injection, IsInjective
    <2>3. \A j \in moved : \E i \in J : f[i] = j
      <3>1. ASSUME NEW j \in moved PROVE j - n \in J /\ f[j - n] = j
        OBVIOUS
      <3> QED
        BY <3>1
    <2>4. f \in Surjection(J, moved)
      BY <2>1, <2>3 DEF Surjection
    <2> QED
      BY <2>2, <2>4 DEF Bijection
  <1>3. ExistsBijection(J, moved)
    BY <1>2 DEF ExistsBijection
  <1> HIDE DEF moved
  <1>4. IsFiniteSet(moved) /\ Cardinality(moved) = Cardinality(J)
    BY <1>1, <1>3, FS_Bijection
  <1> QED
    BY <1>4 DEF moved

\* Counts are numbers, and add up.
LEMMA HitsIsNat ==
  ASSUME NEW S, NEW seq \in Seq(S), NEW set
  PROVE  /\ IsFiniteSet({i \in 1 .. Len(seq) : seq[i] \in set}) /\ Hits(seq, set) \in Nat
  <1>1. {i \in 1 .. Len(seq) : seq[i] \in set} \subseteq 1 .. Len(seq) /\ Len(seq) \in Int
    OBVIOUS
  <1>2. IsFiniteSet({i \in 1 .. Len(seq) : seq[i] \in set})
    BY <1>1, FS_Interval, FS_Subset, 1 \in Int
  <1> QED
    BY <1>2, FS_CardinalityType DEF Hits

LEMMA HitsOfConcat ==
  ASSUME NEW S, NEW s \in Seq(S), NEW t \in Seq(S), NEW set
  PROVE  Hits(s \o t, set) = Hits(s, set) + Hits(t, set)
  <1> DEFINE I == {i \in 1 .. Len(s) : s[i] \in set}
             J == {i \in 1 .. Len(t) : t[i] \in set}
             n == Len(s)
             k == Len(t)
             moved == {j \in (n + 1) .. (n + k) : j - n \in J}
  <1>1. n \in Nat /\ k \in Nat
    OBVIOUS
  <1>2. IsFiniteSet(moved) /\ Cardinality(moved) = Cardinality(J)
    <2>1. J \in SUBSET (1 .. k)
      BY <1>1
    <2> HIDE DEF J
    <2> QED
      BY <1>1, <2>1, MovedPositions, ZenonT(40)
  <1>3. {i \in 1 .. Len(s \o t) : (s \o t)[i] \in set} = I \cup moved
    <2>1. /\ Len(s \o t) = n + k
          /\ \A i \in 1 .. n + k : (s \o t)[i] = IF i <= n THEN s[i] ELSE t[i - n]
      BY ConcatProperties
    <2>2. \A i \in 1 .. n : (s \o t)[i] = s[i]
      BY <1>1, <2>1
    <2>3. \A i \in (n + 1) .. (n + k) : (s \o t)[i] = t[i - n] /\ i - n \in 1 .. k
      BY <1>1, <2>1
    <2>4. \A i : i \in 1 .. n + k <=> i \in 1 .. n \/ i \in (n + 1) .. (n + k)
      BY <1>1
    <2>5. PICK cat : cat = s \o t
      OBVIOUS
    <2>6. Len(cat) = n + k
      BY <2>1, <2>5
    <2>7. \A i \in 1 .. n : cat[i] = s[i]
      BY <2>2, <2>5
    <2>8. \A i \in (n + 1) .. (n + k) : cat[i] = t[i - n] /\ i - n \in 1 .. k
      BY <2>3, <2>5
    <2>9. {i \in 1 .. Len(cat) : cat[i] \in set} = I \cup moved
      BY <2>4, <2>6, <2>7, <2>8
    <2> QED
      BY <2>5, <2>9
  <1>4. I \cap moved = {}
    BY <1>1
  <1>5. IsFiniteSet(I) /\ Cardinality(I) \in Nat /\ Cardinality(J) \in Nat
    BY HitsIsNat DEF Hits
  <1> HIDE DEF moved, I, J
  <1>6. Cardinality(I \cup moved) = Cardinality(I) + Cardinality(moved) - Cardinality(I \cap moved)
    BY <1>2, <1>5, FS_Union
  <1>7. Cardinality(I \cap moved) = 0
    BY <1>4, FS_EmptySet
  <1>8. Cardinality(I \cup moved) = Cardinality(I) + Cardinality(J)
    BY <1>2, <1>5, <1>6, <1>7
  <1> QED
    BY <1>3, <1>8 DEF Hits, I, J

LEMMA HitsOfOne ==
  ASSUME NEW x, NEW set
  PROVE  Hits(<<x>>, set) = IF x \in set THEN 1 ELSE 0
  <1>1. Len(<<x>>) = 1 /\ <<x>>[1] = x
    OBVIOUS
  <1>2. CASE x \in set
    <2>1. {i \in 1 .. Len(<<x>>) : <<x>>[i] \in set} = {1}
      BY <1>1, <1>2
    <2> QED
      BY <1>2, <2>1, FS_Singleton DEF Hits
  <1>3. CASE x \notin set
    <2>1. {i \in 1 .. Len(<<x>>) : <<x>>[i] \in set} = {}
      BY <1>1, <1>3
    <2> QED
      BY <1>3, <2>1, FS_EmptySet DEF Hits
  <1> QED
    BY <1>2, <1>3

LEMMA HitsOfNone == \A set : Hits(<<>>, set) = 0
  <1>1. ASSUME NEW set PROVE {i \in 1 .. Len(<<>>) : <<>>[i] \in set} = {}
    OBVIOUS
  <1> QED
    BY <1>1, FS_EmptySet DEF Hits

\* What becomes of the count when a sequence grows or is taken from.
LEMMA HitsOfAll ==
  ASSUME NEW S, NEW s \in Seq(S), NEW x \in S, NEW set
  PROVE  /\ Hits(Append(s, x), set) = Hits(s, set) + (IF x \in set THEN 1 ELSE 0)
         /\ s # <<>> => Hits(s, set) = Hits(Tail(s), set) + (IF Head(s) \in set THEN 1 ELSE 0)
  <1>1. Hits(Append(s, x), set) = Hits(s, set) + (IF x \in set THEN 1 ELSE 0)
    <2>1. Append(s, x) = s \o <<x>> /\ <<x>> \in Seq(S)
      BY AppendIsConcat
    <2>2. Hits(s \o <<x>>, set) = Hits(s, set) + Hits(<<x>>, set)
      BY <2>1, HitsOfConcat
    <2>3. Hits(<<x>>, set) = IF x \in set THEN 1 ELSE 0
      BY HitsOfOne
    <2> QED
      BY <2>1, <2>2, <2>3
  <1>2. ASSUME s # <<>>
        PROVE  Hits(s, set) = Hits(Tail(s), set) + (IF Head(s) \in set THEN 1 ELSE 0)
    <2>1. Head(s) = s[1] /\ Head(s) \in S /\ Tail(s) \in Seq(S) /\ Tail(s) = SubSeq(s, 2, Len(s))
      BY <1>2, HeadTailProperties, TailIsSubSeq
    <2>2. 1 \in 1 .. Len(s) /\ Len(s) \in 1 .. Len(s)
      BY <1>2, EmptySeq
    <2>3. SubSeq(s, 1, Len(s)) = <<s[1]>> \o SubSeq(s, 1 + 1, Len(s))
      BY <2>2, SubSeqRecursiveFirst
    <2>4. s = <<Head(s)>> \o Tail(s) /\ <<Head(s)>> \in Seq(S)
      BY <2>1, <2>3, SubSeqFull
    <2>5. PICK one \in Seq(S) : one = <<Head(s)>>
      BY <2>4
    <2>6. PICK rest \in Seq(S) : rest = Tail(s)
      BY <2>1
    <2>7. Hits(one \o rest, set) = Hits(one, set) + Hits(rest, set)
      BY HitsOfConcat
    <2>8. one \o rest = s
      BY <2>4, <2>5, <2>6
    <2>9. Hits(one, set) = IF Head(s) \in set THEN 1 ELSE 0
      BY <2>5, HitsOfOne
    <2>10. Hits(rest, set) \in Nat
      BY HitsIsNat
    <2>11. Hits(s, set) = Hits(one, set) + Hits(rest, set)
      BY <2>7, <2>8
    <2>12. PICK a : a = Hits(one, set)
      OBVIOUS
    <2>13. PICK b \in Nat : b = Hits(rest, set)
      BY <2>10
    <2>14. a = 1 \/ a = 0
      BY <2>9, <2>12
    <2>15. a + b = b + a
      BY <2>14
    <2>16. Hits(s, set) = Hits(rest, set) + Hits(one, set)
      BY <2>11, <2>12, <2>13, <2>15
    <2> QED
      BY <2>6, <2>9, <2>16
  <1> QED
    BY <1>1, <1>2

\* A list of the elements of a set has each of them once.
LEMMA HitsOfList ==
  ASSUME NEW S, IsFiniteSet(S), NEW list \in SetToSeqs(S), NEW m
  PROVE  list \in Seq(S) /\ Hits(list, {m}) = Cardinality({m} \cap S)
  <1> DEFINE n == Cardinality(S)
  <1>1. n \in Nat
    BY FS_CardinalityType
  <1>2. list \in [1 .. n -> S] /\ \A i, j \in 1 .. n : i # j => list[i] # list[j]
    BY DEF SetToSeqs
  <1>3. list \in Seq(S) /\ Len(list) = n
    BY <1>1, <1>2
  <1>4. list \in Injection(1 .. n, S)
    BY <1>2 DEF Injection, IsInjective
  <1>5. IsFiniteSet(1 .. n) /\ Cardinality(1 .. n) = n
    BY <1>1, FS_Interval
  <1>6. list \in Surjection(1 .. n, S)
    BY <1>4, <1>5, FS_Injection
  <1>7. CASE m \in S
    <2>1. PICK i \in 1 .. n : list[i] = m
      BY <1>6, <1>7 DEF Surjection
    <2>2. {j \in 1 .. Len(list) : list[j] \in {m}} = {i}
      BY <1>2, <1>3, <2>1
    <2>3. {m} \cap S = {m}
      BY <1>7
    <2> QED
      BY <1>3, <2>2, <2>3, FS_Singleton DEF Hits
  <1>8. CASE m \notin S
    <2>1. {j \in 1 .. Len(list) : list[j] \in {m}} = {}
      BY <1>2, <1>3, <1>8
    <2>2. {m} \cap S = {}
      BY <1>8
    <2> QED
      BY <1>3, <2>1, <2>2, FS_EmptySet DEF Hits
  <1> QED
    BY <1>7, <1>8

-----------------------------------------------------------------------------
\* The rows, and the matches on their way to them.

\* What the worker of the matches may report, as things stand.
Results == (Begun \X {"failed"}) \cup (db.committed.matches \X {"saved"})

\* Rows of whole matches, whose players have rows.
WholeRows(rows) ==
    /\ rows.matches \subseteq Begun
    /\ \A m \in rows.matches : {p \in Player : <<m, p>> \in rows.stats} = playersOf[m]
    /\ \A s \in rows.stats : s[1] \in rows.matches /\ s[2] \in rows.players

\* Without a database nobody is let in, and no match begins.
NobodyIsIn == LoginsUnderWay({"Verified", "Found", "Admitted"}) = {} /\ NothingBegun

\* What is committed is whole, and who is in is stored.
DataFits ==
    /\ ConnectionFits(db)
    /\ playersOf \in [Match -> SUBSET Player]
    /\ WholeRows(db.committed)
    /\ AdmittedPlayersAreStored
    /\ runtime = "Off" => NobodyIsIn

\* What is on its way to the log is about matches that have begun.
TrailFits ==
    /\ playing \subseteq Begun /\ IsFiniteSet(playing)
    /\ completed \in Seq(Begun) /\ extracted \in Seq(Begun) /\ queue \in Seq(Begun)
    /\ saving = None \/ saving \in (Begun \X {"taken"}) \cup Results
    /\ completions \in Seq(Results)
    /\ reports \in Seq(Results \cup (Begun \X {"refused"}))

\* Steps that leave the rows, the logins and the matches alone.
LEMMA DataStays ==
  ASSUME DataFits, UNCHANGED <<db, login, playersOf, runtime>>
  PROVE  DataFits'
  BY DEF DataFits, WholeRows, AdmittedPlayersAreStored, NobodyIsIn, NothingBegun, LoginsUnderWay,
         Begun

\* Any step that adds no row of a match, and no player who is in.
LEMMA DataOfLogins ==
  ASSUME DataFits, ConnectionFits(db)', UNCHANGED playersOf,
         /\ db'.committed.matches = db.committed.matches
         /\ db'.committed.stats = db.committed.stats
         /\ db.committed.players \subseteq db'.committed.players,
         AdmittedPlayersAreStored', (runtime = "Off" => NobodyIsIn)'
  PROVE  DataFits'
  BY DEF DataFits, WholeRows, Begun

\* One lemma for each step that reads or writes the database or lets someone in.
LEMMA StartDatabaseKeepsData ==
  ASSUME ControlFits, PoolsFit, DataFits, StartDatabase
  PROVE  DataFits'
  <1>1. UNCHANGED <<login, playersOf>>
    BY DEF StartDatabase, loginVars, matchVars
  <1>2. CASE UNCHANGED <<db, runtime>>
    BY <1>1, <1>2, DataStays
  <1>3. ASSUME NEW o \in Open(db), o.ok, db' = o.db, runtime' = "On"
        PROVE  DataFits'
    <2>1. PICK c : c = Close(db)
      OBVIOUS
    <2>2. /\ c \in Databases /\ c.open = FALSE /\ c.active = FALSE /\ c.auto = TRUE
          /\ c.seen = c.committed /\ c.committed = db.committed
      BY <2>1 DEF Close, DataFits, ConnectionFits, Databases
    <2>3. PICK e : e = [c EXCEPT !.open = TRUE]
      OBVIOUS
    <2>4. ConnectionFits(e) /\ e.committed = db.committed
      BY <2>2, <2>3 DEF ConnectionFits, Databases
    <2>5. db' = e
      <3>1. Open(db) = {Outcome(c, FALSE), Outcome(e, TRUE)}
        BY <2>1, <2>3, Zenon DEF Open
      <3> QED
        BY <1>3, <3>1 DEF Outcome
    <2>6. LoginsUnderWay({"Found", "Admitted"})' = {}
      <3>1. Calls("StartDatabase")
        BY DEF StartDatabase
      <3>2. UpFits(1)
        BY <3>1, CallAt DEF UpCalls, UndoServer, Shutdown
      <3> QED
        BY <1>1, <3>2 DEF UpFits, LoginsUnderWay
    <2>7. AdmittedPlayersAreStored'
      BY <2>6 DEF AdmittedPlayersAreStored
    <2>8. ConnectionFits(db)' /\ db'.committed = db.committed
      BY <2>4, <2>5 DEF ConnectionFits
    <2> QED
      BY <1>1, <1>3, <2>7, <2>8, DataOfLogins
  <1> QED
    BY <1>2, <1>3 DEF StartDatabase

LEMMA StopDatabaseKeepsData ==
  ASSUME DataFits, StopDatabase
  PROVE  DataFits'
  <1>1. PICK c : c = Close(db)
    OBVIOUS
  <1>2. ConnectionFits(c) /\ c.open = FALSE /\ c.committed = db.committed
    BY <1>1 DEF Close, DataFits, ConnectionFits, Databases
  <1>3. db' = c /\ runtime' = "Stopped" /\ UNCHANGED <<login, playersOf>>
    BY <1>1 DEF StopDatabase, loginVars, matchVars
  <1>4. ConnectionFits(db)' /\ AdmittedPlayersAreStored' /\ db'.committed = db.committed
    BY <1>2, <1>3 DEF ConnectionFits, AdmittedPlayersAreStored
  <1> QED
    BY <1>3, <1>4, DataOfLogins

LEMMA LoginsKeepData ==
  ASSUME PoolsFit, DataFits,
         StopAccounts \/ \E p \in Player : SubmitLogin(p) \/ AdmitLogin(p) \/ FindAccount(p)
  PROVE  DataFits'
  <1>1. UNCHANGED <<db, runtime, playersOf>>
    BY DEF StopAccounts, SubmitLogin, AdmitLogin, FindAccount, matchVars
  <1>2. LoginsUnderWay({"Found", "Admitted"})' \subseteq LoginsUnderWay({"Found", "Admitted"})
    BY DEF StopAccounts, SubmitLogin, AdmitLogin, FindAccount, LoginsUnderWay, PoolsFit
  <1>3. AdmittedPlayersAreStored'
    BY <1>1, <1>2 DEF DataFits, AdmittedPlayersAreStored
  <1>4. ASSUME runtime = "Off" PROVE NobodyIsIn'
    <2>1. NobodyIsIn
      BY <1>4 DEF DataFits
    <2>2. NothingBegun'
      BY <1>1, <2>1 DEF NobodyIsIn, NothingBegun
    <2>3. LoginsUnderWay({"Verified", "Found", "Admitted"})' = {}
      <3>1. CASE StopAccounts
        BY <2>1, <3>1 DEF StopAccounts, NobodyIsIn, LoginsUnderWay, PoolsFit
      <3>2. ASSUME NEW p \in Player, SubmitLogin(p) \/ AdmitLogin(p)
            PROVE  LoginsUnderWay({"Verified", "Found", "Admitted"})' = {}
        BY <2>1, <3>2 DEF SubmitLogin, AdmitLogin, NobodyIsIn, LoginsUnderWay, PoolsFit
      <3>3. ASSUME NEW p \in Player, FindAccount(p)
            PROVE  LoginsUnderWay({"Verified", "Found", "Admitted"})' = {}
        <4>1. login' = [login EXCEPT ![p] = "Refused"]
          BY <1>4, <3>3 DEF FindAccount, Outcome
        <4> QED
          BY <2>1, <4>1 DEF NobodyIsIn, LoginsUnderWay, PoolsFit
      <3> QED
        BY <3>1, <3>2, <3>3
    <2> QED
      BY <2>2, <2>3 DEF NobodyIsIn
  <1>5. ConnectionFits(db)'
    BY <1>1 DEF DataFits, ConnectionFits
  <1> QED
    BY <1>1, <1>3, <1>4, <1>5, DataOfLogins

LEMMA FindPlayerKeepsData ==
  ASSUME PoolsFit, DataFits, NEW p \in Player, FindPlayer(p)
  PROVE  DataFits'
  <1>1. UNCHANGED <<runtime, playersOf>> /\ login[p] = "Verified" /\ login \in [Player ->
                    LoginStates]
    BY DEF FindPlayer, matchVars, PoolsFit
  <1>2. runtime # "Off"
    BY <1>1 DEF DataFits, NobodyIsIn, LoginsUnderWay
  <1>3. PICK o \in IF runtime = "On" THEN FindOrCreatePlayerByAccountId(db, p)
                   ELSE {Outcome(db, FALSE)} :
            /\ db' = o.db
            /\ login' = [login EXCEPT ![p] = IF o.ok THEN "Found" ELSE "Refused"]
    BY DEF FindPlayer
  <1>4. /\ o.ok \in BOOLEAN
        /\ ConnectionFits(o.db)
        /\ o.db.open = db.open /\ o.db.active = db.active
        /\ o.db.committed.matches = db.committed.matches
        /\ o.db.committed.stats = db.committed.stats
        /\ db.committed.players \subseteq o.db.committed.players
        /\ db.seen.players \subseteq o.db.seen.players
        /\ o.ok = TRUE => \/ p \in o.db.committed.players
                          \/ o.db.active = TRUE /\ p \in o.db.seen.players
    <2>1. CASE runtime = "On"
      <3>1. o \in FindOrCreatePlayerByAccountId(db, p) /\ ConnectionFits(db)
        BY <1>3, <2>1 DEF DataFits
      <3> QED
        BY <3>1, FindPlayerOutcome
    <2>2. CASE runtime # "On"
      <3>1. o = Outcome(db, FALSE) /\ ConnectionFits(db)
        BY <1>3, <2>2 DEF DataFits
      <3>2. o.ok = FALSE /\ o.db = db
        BY <3>1 DEF Outcome
      <3> QED
        BY <3>1, <3>2
    <2> QED
      BY <2>1, <2>2
  <1>5. ConnectionFits(db)'
    BY <1>3, <1>4 DEF ConnectionFits
  <1>6. ASSUME db'.open, NEW q \in LoginsUnderWay({"Found", "Admitted"})'
        PROVE  q \in db'.committed.players \/ (db'.active /\ q \in db'.seen.players)
    <2>1. CASE q = p
      BY <1>1, <1>3, <1>4, <1>6, <2>1 DEF LoginsUnderWay
    <2>2. CASE q # p
      <3>1. q \in LoginsUnderWay({"Found", "Admitted"}) /\ db.open
        BY <1>1, <1>3, <1>4, <1>6, <2>2 DEF LoginsUnderWay
      <3>2. q \in db.committed.players \/ (db.active /\ q \in db.seen.players)
        BY <3>1 DEF DataFits, AdmittedPlayersAreStored
      <3> QED
        BY <1>3, <1>4, <3>2
    <2> QED
      BY <2>1, <2>2
  <1>7. AdmittedPlayersAreStored'
    BY <1>6 DEF AdmittedPlayersAreStored
  <1> QED
    BY <1>1, <1>2, <1>3, <1>4, <1>5, <1>7, DataOfLogins

\* The steps that change neither the database nor who is in.
LEMMA OthersKeepData ==
  ASSUME DataFits,
         \/ Configure \/ LoadEntries \/ Validate \/ StartLogger \/ StartAccounts \/ StartMatches
         \/ StartTransport \/ StartTicks \/ Extract \/ Enqueue \/ Report \/ Poll \/ StopServer
         \/ Detach \/ DrainMatches \/ DrainAccounts \/ StopMatches \/ ClearHandler \/ StopLogger
         \/ Join \/ TakeMatch \/ PushCompletion \/ (\E m \in Match : CompleteMatch(m))
  PROVE  DataFits'
  <1>1. UNCHANGED <<db, login, playersOf, runtime>>
    BY DEF Configure, LoadEntries, Validate, StartLogger, StartAccounts, StartMatches,
       StartTransport, StartTicks, Extract, Enqueue, Report, Poll, StopServer, Detach,
       DrainMatches, DrainAccounts, StopMatches, ClearHandler, StopLogger, Join, JoinMatches,
       JoinAccounts, TakeMatch, PushCompletion, CompleteMatch, loginVars, matchVars
  <1> QED
    BY <1>1, DataStays

LEMMA BeginMatchKeepsData ==
  ASSUME DataFits, NEW m \in Match, BeginMatch(m)
  PROVE  DataFits'
  <1>1. UNCHANGED <<db, login, runtime>>
    BY DEF BeginMatch, loginVars
  <1>0. PICK players \in (SUBSET LoginsUnderWay({"Admitted"})) \ {{}} :
            playersOf' = [playersOf EXCEPT ![m] = players]
    BY DEF BeginMatch
  <1>2. /\ players # {} /\ players \subseteq LoginsUnderWay({"Admitted"})
        /\ players \in SUBSET Player
    <2>1. players # {} /\ players \subseteq LoginsUnderWay({"Admitted"})
      OBVIOUS
    <2>2. LoginsUnderWay({"Admitted"}) \subseteq Player
      BY DEF LoginsUnderWay
    <2> QED
      BY <2>1, <2>2
  <1>3. /\ playersOf' \in [Match -> SUBSET Player] /\ playersOf'[m] # {}
        /\ \A n \in Match : n # m => playersOf'[n] = playersOf[n]
    BY <1>0, <1>2 DEF DataFits
  <1>4. m \notin db.committed.matches /\ db.committed.matches \subseteq Match
    BY DEF BeginMatch, DataFits, WholeRows, Begun
  <1>5. WholeRows(db.committed)'
    BY <1>1, <1>3, <1>4 DEF DataFits, WholeRows, Begun
  <1>6. runtime # "Off"
    BY <1>2 DEF DataFits, NobodyIsIn, LoginsUnderWay
  <1> QED
    BY <1>1, <1>3, <1>5, <1>6 DEF DataFits, AdmittedPlayersAreStored, LoginsUnderWay

\* What the worker has when SaveTaken has saved a match, or not.
LEMMA SaveTakenEffect ==
  ASSUME DataFits, TrailFits, SaveTaken
  PROVE  /\ UNCHANGED <<runtime, login, playersOf>>
         /\ \E m \in Begun :
               /\ \/ saving' = <<m, "failed">> /\ db'.committed = db.committed
                  \/ /\ saving' \in {<<m, "saved">>, <<m, "failed">>}
                     /\ playersOf[m] \subseteq db.committed.players
                     /\ db'.committed = WithStats(WithMatch(db.committed, m), m, playersOf[m])
               /\ db' = db \/ db.active = FALSE
               /\ db'.open = TRUE => db.open = TRUE
               /\ ConnectionFits(db)'
  <1>1. UNCHANGED <<runtime, login, playersOf>>
    BY DEF SaveTaken, loginVars, matchVars
  <1>2. PICK o \in IF runtime = "On" THEN SaveMatch(db, saving[1], playersOf[saving[1]])
                   ELSE {Outcome(db, FALSE)} :
            db' = o.db /\ saving' = <<saving[1], IF o.ok THEN "saved" ELSE "failed">>
    BY DEF SaveTaken
  <1>3. PICK m \in Begun : saving[1] = m
    BY DEF SaveTaken, TrailFits, Results, DataFits, WholeRows
  <1>4. m \in Match /\ playersOf[m] \in SUBSET Player /\ ConnectionFits(db)
    BY <1>3 DEF DataFits, Begun
  <1>5. /\ o.ok \in BOOLEAN
        /\ ConnectionFits(o.db)
        /\ \/ o = Outcome(db, FALSE)
           \/ db.active = FALSE /\ db.open = TRUE
        /\ \/ o.ok = FALSE /\ o.db.committed = db.committed
           \/ /\ playersOf[m] \subseteq db.committed.players
              /\ o.db.committed = WithStats(WithMatch(db.committed, m), m, playersOf[m])
    <2>1. CASE runtime = "On"
      <3>1. o \in SaveMatch(db, m, playersOf[m])
        BY <1>2, <1>3, <2>1
      <3> QED
        BY <1>4, <3>1, SaveOutcome
    <2>2. CASE runtime # "On"
      <3>1. o = Outcome(db, FALSE)
        BY <1>2, <2>2
      <3>2. o.ok = FALSE /\ o.db = db
        BY <3>1 DEF Outcome
      <3> QED
        BY <1>4, <3>1, <3>2
    <2> QED
      BY <2>1, <2>2
  <1>6. o = Outcome(db, FALSE) => o.db = db
    BY DEF Outcome
  <1>7. ConnectionFits(db)'
    BY <1>2, <1>5 DEF ConnectionFits
  <1>8. \/ saving' = <<m, "failed">> /\ db'.committed = db.committed
        \/ /\ saving' \in {<<m, "saved">>, <<m, "failed">>}
           /\ playersOf[m] \subseteq db.committed.players
           /\ db'.committed = WithStats(WithMatch(db.committed, m), m, playersOf[m])
    BY <1>2, <1>3, <1>5
  <1>9. db' = db \/ db.active = FALSE
    BY <1>2, <1>5, <1>6
  <1>10. db'.open = TRUE => db.open = TRUE
    BY <1>2, <1>5, <1>6
  <1> QED
    BY <1>1, <1>3, <1>7, <1>8, <1>9, <1>10

\* One more match, with the statistics of all its players.
LEMMA WholeMatchAdded ==
  ASSUME NEW rows \in Rows, WholeRows(rows), playersOf \in [Match -> SUBSET Player],
         NEW m \in Begun, playersOf[m] \subseteq rows.players
  PROVE  LET new == WithStats(WithMatch(rows, m), m, playersOf[m])
         IN  /\ WholeRows(new) /\ new.players = rows.players
             /\ new.matches = rows.matches \cup {m}
  <1>1. PICK one : one = WithMatch(rows, m)
    OBVIOUS
  <1>2. one \in Rows /\ one.players = rows.players /\ one.stats = rows.stats
        /\ one.matches = rows.matches \cup {m}
    BY <1>1 DEF WithMatch, Rows, Begun
  <1>3. PICK new : new = WithStats(one, m, playersOf[m])
    OBVIOUS
  <1>4. /\ new.players = rows.players /\ new.matches = rows.matches \cup {m}
        /\ new.stats = rows.stats \cup ({m} \X playersOf[m])
    BY <1>2, <1>3 DEF WithStats, Rows
  <1>5. \A s \in new.stats : s[1] \in new.matches /\ s[2] \in new.players
    BY <1>4 DEF WholeRows
  <1>6. ASSUME NEW n \in new.matches
        PROVE  {p \in Player : <<n, p>> \in new.stats} = playersOf[n]
    <2>1. \A p \in Player : <<n, p>> \in rows.stats => n \in rows.matches
      BY DEF WholeRows
    <2>2. \A p \in Player : <<n, p>> \in new.stats
                              <=> <<n, p>> \in rows.stats \/ (n = m /\ p \in playersOf[m])
      BY <1>4
    <2>3. n \in rows.matches => {p \in Player : <<n, p>> \in rows.stats} = playersOf[n]
      BY DEF WholeRows
    <2>4. n \in rows.matches \/ n = m
      BY <1>4
    <2>5. playersOf[m] \subseteq Player
      BY DEF Begun
    <2> QED
      BY <2>1, <2>2, <2>3, <2>4, <2>5
  <1>7. new.matches \subseteq Begun
    BY <1>4 DEF WholeRows
  <1> QED
    BY <1>1, <1>3, <1>4, <1>5, <1>6, <1>7 DEF WholeRows

\* SaveTaken adds a whole match or nothing.
LEMMA SaveTakenKeepsData ==
  ASSUME DataFits, TrailFits, SaveTaken
  PROVE  DataFits' /\ db.committed.matches \subseteq db'.committed.matches
  <1>1. UNCHANGED <<runtime, login, playersOf>>
    BY SaveTakenEffect
  <1>2. PICK m \in Begun :
               /\ \/ saving' = <<m, "failed">> /\ db'.committed = db.committed
                  \/ /\ saving' \in {<<m, "saved">>, <<m, "failed">>}
                     /\ playersOf[m] \subseteq db.committed.players
                     /\ db'.committed = WithStats(WithMatch(db.committed, m), m, playersOf[m])
               /\ db' = db \/ db.active = FALSE
               /\ db'.open = TRUE => db.open = TRUE
               /\ ConnectionFits(db)'
    BY SaveTakenEffect
  <1>3. db.committed \in Rows
    BY DEF DataFits, ConnectionFits, Databases
  <1>4. /\ WholeRows(db'.committed) /\ db'.committed.players = db.committed.players
        /\ db.committed.matches \subseteq db'.committed.matches
    BY <1>2, <1>3, WholeMatchAdded DEF DataFits
  <1>5. WholeRows(db.committed)'
    BY <1>1, <1>4 DEF WholeRows, Begun
  <1>6. ASSUME db'.open, NEW p \in LoginsUnderWay({"Found", "Admitted"})'
        PROVE  p \in db'.committed.players \/ (db'.active /\ p \in db'.seen.players)
    <2>1. p \in LoginsUnderWay({"Found", "Admitted"}) /\ db.open
      BY <1>1, <1>2, <1>6 DEF LoginsUnderWay, ConnectionFits, Databases
    <2>2. p \in db.committed.players \/ (db.active /\ p \in db.seen.players)
      BY <2>1 DEF DataFits, AdmittedPlayersAreStored
    <2> QED
      BY <1>2, <1>4, <2>2
  <1>7. AdmittedPlayersAreStored'
    BY <1>6 DEF AdmittedPlayersAreStored
  <1>8. (runtime = "Off" => NobodyIsIn)'
    BY <1>1 DEF DataFits, NobodyIsIn, NothingBegun, LoginsUnderWay
  <1> QED
    BY <1>1, <1>2, <1>4, <1>5, <1>7, <1>8 DEF DataFits

\* All steps together.
LEMMA DataStepsFit ==
  ASSUME ControlFits, PoolsFit, DataFits, TrailFits, Next
  PROVE  DataFits'
  BY StartDatabaseKeepsData, StopDatabaseKeepsData, LoginsKeepData, FindPlayerKeepsData,
     OthersKeepData, BeginMatchKeepsData, SaveTakenKeepsData
  DEF Next, MainStep, StartStep, ServerStep, AccountWorkerStep, MatchWorkerStep

\* What has begun, and what is committed, stays so.
LEMMA BegunStays ==
  ASSUME DataFits, TrailFits, Next
  PROVE  Begun \subseteq Begun' /\ db.committed.matches \subseteq db'.committed.matches
  <1>1. CASE UNCHANGED <<db, playersOf>>
    BY <1>1 DEF Begun
  <1>2. ASSUME NEW m \in Match, BeginMatch(m)
        PROVE  Begun \subseteq Begun' /\ UNCHANGED db
    <2>1. PICK players \in (SUBSET LoginsUnderWay({"Admitted"})) \ {{}} :
              playersOf' = [playersOf EXCEPT ![m] = players]
      BY <1>2 DEF BeginMatch
    <2>2. UNCHANGED db
      BY <1>2 DEF BeginMatch
    <2>3. players # {}
      OBVIOUS
    <2>4. /\ playersOf \in [Match -> SUBSET Player] /\ playersOf'[m] # {}
          /\ \A n \in Match : n # m => playersOf'[n] = playersOf[n]
      BY <2>1, <2>3 DEF DataFits
    <2> QED
      BY <2>2, <2>4 DEF Begun
  <1>3. ASSUME NEW p \in Player, FindPlayer(p)
        PROVE  UNCHANGED playersOf /\ db.committed.matches \subseteq db'.committed.matches
    <2>1. PICK o \in IF runtime = "On" THEN FindOrCreatePlayerByAccountId(db, p)
                     ELSE {Outcome(db, FALSE)} : db' = o.db
      BY <1>3 DEF FindPlayer
    <2>2. CASE runtime = "On"
      <3>1. o \in FindOrCreatePlayerByAccountId(db, p) /\ ConnectionFits(db)
        BY <2>1, <2>2 DEF DataFits
      <3>2. o.db.committed.matches = db.committed.matches
        BY <3>1, FindPlayerOutcome
      <3> QED
        BY <1>3, <2>1, <3>2 DEF FindPlayer, matchVars
    <2>3. CASE runtime # "On"
      BY <1>3, <2>1, <2>3 DEF FindPlayer, matchVars, Outcome
    <2> QED
      BY <2>2, <2>3
  <1>4. CASE SaveTaken
    BY <1>4, SaveTakenKeepsData, SaveTakenEffect DEF Begun
  <1>5. ASSUME StartDatabase \/ StopDatabase
        PROVE  UNCHANGED playersOf /\ db'.committed = db.committed
    <2>1. PICK c : c = Close(db)
      OBVIOUS
    <2>2. c \in Databases /\ c.committed = db.committed
      BY <2>1 DEF Close, DataFits, ConnectionFits, Databases
    <2>3. PICK e : e = [c EXCEPT !.open = TRUE]
      OBVIOUS
    <2>4. e.committed = db.committed
      BY <2>2, <2>3 DEF Databases
    <2>5. Open(db) = {Outcome(c, FALSE), Outcome(e, TRUE)}
      BY <2>1, <2>3, Zenon DEF Open
    <2>6. db' = db \/ db' = c \/ db' = e
      <3>1. \A o \in Open(db) : o.db = c \/ o.db = e
        BY <2>5 DEF Outcome
      <3> QED
        BY <1>5, <2>1, <3>1 DEF StartDatabase, StopDatabase
    <2> QED
      BY <1>5, <2>2, <2>4, <2>6 DEF StartDatabase, StopDatabase, matchVars
  <1>6. ASSUME StartStep, ~ StartDatabase PROVE UNCHANGED <<db, playersOf>>
    BY <1>6 DEF StartStep, Configure, LoadEntries, Validate, StartLogger,
       StartAccounts, StartMatches, StartTransport, StartTicks, matchVars
  <1>7. ASSUME MainStep \/ Join, ~ StartStep, ~ StopDatabase PROVE UNCHANGED <<db, playersOf>>
    BY <1>7 DEF MainStep, Join, Extract, Enqueue, Report, Poll, StopServer, Detach, DrainMatches,
       DrainAccounts, StopMatches, StopAccounts, ClearHandler, StopLogger, JoinMatches,
       JoinAccounts, matchVars
  <1>8. ASSUME NEW p \in Player, SubmitLogin(p) \/ AdmitLogin(p) \/ FindAccount(p)
        PROVE  UNCHANGED <<db, playersOf>>
    BY <1>8 DEF SubmitLogin, AdmitLogin, FindAccount, matchVars
  <1>9. ASSUME TakeMatch \/ PushCompletion \/ \E m \in Match : CompleteMatch(m)
        PROVE  UNCHANGED <<db, playersOf>>
    BY <1>9 DEF TakeMatch, PushCompletion, CompleteMatch, matchVars
  <1> QED
    BY <1>1, <1>2, <1>3, <1>4, <1>5, <1>6, <1>7, <1>8, <1>9
    DEF Next, ServerStep, AccountWorkerStep, MatchWorkerStep, Begun

\* The trail of the matches, over what has begun and is committed by now.
LEMMA TrailGrows ==
  ASSUME TrailFits, Begun \subseteq Begun', db.committed.matches \subseteq db'.committed.matches
  PROVE  /\ Results \subseteq Results'
         /\ completed \in Seq(Begun') /\ extracted \in Seq(Begun') /\ queue \in Seq(Begun')
         /\ saving = None \/ saving \in (Begun' \X {"taken"}) \cup Results'
         /\ completions \in Seq(Results')
         /\ reports \in Seq(Results' \cup (Begun' \X {"refused"}))
         /\ playing \subseteq Begun'
  <1>1. Results \subseteq Results'
    BY DEF Results
  <1>2. Seq(Begun) \subseteq Seq(Begun') /\ Seq(Results) \subseteq Seq(Results')
    BY <1>1
  <1>3. Seq(Results \cup (Begun \X {"refused"})) \subseteq Seq(Results' \cup (Begun' \X {"refused"}))
    BY <1>1
  <1> QED
    BY <1>1, <1>2, <1>3 DEF TrailFits

\* The worker of the pool has what it took, and then its result.
LEMMA SaveTakenKeepsTrail ==
  ASSUME DataFits, TrailFits, SaveTaken, Begun \subseteq Begun'
  PROVE  saving' \in Results'
  <1>1. PICK m \in Begun :
            \/ saving' = <<m, "failed">> /\ db'.committed = db.committed
            \/ /\ saving' \in {<<m, "saved">>, <<m, "failed">>}
               /\ playersOf[m] \subseteq db.committed.players
               /\ db'.committed = WithStats(WithMatch(db.committed, m), m, playersOf[m])
    BY SaveTakenEffect
  <1>2. db.committed \in Rows
    BY DEF DataFits, ConnectionFits, Databases
  <1>3. CASE saving' = <<m, "failed">>
    BY <1>3 DEF Results
  <1>4. CASE /\ saving' \in {<<m, "saved">>, <<m, "failed">>}
             /\ playersOf[m] \subseteq db.committed.players
             /\ db'.committed = WithStats(WithMatch(db.committed, m), m, playersOf[m])
    <2>1. m \in db'.committed.matches
      BY <1>2, <1>4, WholeMatchAdded DEF DataFits
    <2> QED
      BY <1>4, <2>1 DEF Results
  <1> QED
    BY <1>1, <1>3, <1>4

\* Sequences over sets that grow.
LEMMA Shorter == \A S : <<>> \in Seq(S)
  OBVIOUS

LEMMA Longer ==
  ASSUME NEW S, NEW s \in Seq(S), NEW x \in S, NEW t, t = s \/ t = Append(s, x)
  PROVE  t \in Seq(S)
  BY AppendProperties

\* All steps together.
LEMMA TrailStepsFit ==
  ASSUME DataFits, TrailFits, Next
  PROVE  TrailFits'
  <1>1. Begun \subseteq Begun' /\ db.committed.matches \subseteq db'.committed.matches
    BY BegunStays
  <1>2. /\ Results \subseteq Results'
        /\ completed \in Seq(Begun') /\ extracted \in Seq(Begun') /\ queue \in Seq(Begun')
        /\ saving = None \/ saving \in (Begun' \X {"taken"}) \cup Results'
        /\ completions \in Seq(Results')
        /\ reports \in Seq(Results' \cup (Begun' \X {"refused"}))
        /\ playing \subseteq Begun'
    BY <1>1, TrailGrows
  <1>3. IsFiniteSet(playing)
    BY DEF TrailFits
  <1> DEFINE Unmoved == UNCHANGED <<playing, completed, extracted, queue, saving, completions,
                                 reports>>
  <1>4. ASSUME Unmoved PROVE TrailFits'
    BY <1>2, <1>3, <1>4 DEF TrailFits
  <1>5. CASE Extract
    <2>1. /\ completed' = <<>> /\ extracted' \in {completed, <<>>}
          /\ UNCHANGED <<playing, queue, saving, completions, reports>>
      BY <1>5 DEF Extract, poolVars
    <2>2. completed' \in Seq(Begun')
      BY <2>1, Shorter, Zenon
    <2>3. extracted' \in Seq(Begun')
      <3>1. extracted' = completed \/ extracted' = <<>>
        BY <2>1
      <3>2. extracted' = completed => extracted' \in Seq(Begun')
        BY <1>2
      <3>3. extracted' = <<>> => extracted' \in Seq(Begun')
        BY Shorter, Zenon
      <3> QED
        BY <3>1, <3>2, <3>3
    <2> QED
      BY <1>2, <1>3, <2>1, <2>2, <2>3 DEF TrailFits
  <1>6. CASE Enqueue
    <2>1. UNCHANGED <<playing, completed, saving, completions>>
      BY <1>6 DEF Enqueue
    <2>2. CASE extracted = <<>>
      BY <1>2, <1>3, <1>6, <2>1, <2>2 DEF Enqueue, TrailFits
    <2>3. CASE extracted # <<>>
      <3>1. Head(extracted) \in Begun' /\ Tail(extracted) \in Seq(Begun')
        BY <1>2, <2>3, HeadTailProperties
      <3>2. extracted' \in Seq(Begun')
        BY <1>6, <2>3, <3>1 DEF Enqueue
      <3>3. queue' \in Seq(Begun')
        <4>1. queue' = queue \/ queue' = Append(queue, Head(extracted))
          BY <1>6, <2>3 DEF Enqueue
        <4> QED
          BY <1>2, <3>1, <4>1, Longer
      <3>4. <<Head(extracted), "refused">> \in Results' \cup (Begun' \X {"refused"})
        BY <3>1
      <3>5. reports' \in Seq(Results' \cup (Begun' \X {"refused"}))
        <4>1. reports' = reports \/ reports' = Append(reports, <<Head(extracted), "refused">>)
          BY <1>6, <2>3 DEF Enqueue
        <4> QED
          BY <1>2, <3>4, <4>1, Longer
      <3> QED
        BY <1>2, <1>3, <2>1, <3>2, <3>3, <3>5 DEF TrailFits
    <2> QED
      BY <2>2, <2>3
  <1>7. CASE Report
    <2>1. /\ reports' = reports \o completions /\ completions' = <<>>
          /\ UNCHANGED <<playing, completed, extracted, queue, saving>>
      BY <1>7 DEF Report
    <2>2. completions \in Seq(Results' \cup (Begun' \X {"refused"}))
      BY <1>2
    <2>3. reports' \in Seq(Results' \cup (Begun' \X {"refused"}))
      BY <1>2, <2>1, <2>2, ConcatProperties
    <2> QED
      BY <1>2, <1>3, <2>1, <2>3 DEF TrailFits
  <1>8. CASE StopServer
    <2>1. /\ playing' = {} /\ completed' \in {completed \o some : some \in SetToSeqs(playing)}
          /\ UNCHANGED <<extracted, queue, saving, completions, reports>>
      BY <1>8 DEF StopServer, poolVars
    <2>2. PICK some \in SetToSeqs(playing) : completed' = completed \o some
      BY <2>1
    <2>3. some \in Seq(playing)
      BY <1>3, HitsOfList
    <2>4. some \in Seq(Begun')
      BY <1>2, <2>3
    <2>5. completed' \in Seq(Begun')
      BY <1>2, <2>2, <2>4, ConcatProperties
    <2> QED
      BY <1>2, <2>1, <2>5, FS_EmptySet DEF TrailFits
  <1>9. CASE StartMatches \/ StopMatches
    <2>1. /\ completions' = <<>> /\ queue' \in {queue, <<>>}
          /\ UNCHANGED <<playing, completed, extracted, saving, reports>>
      BY <1>9 DEF StartMatches, StopMatches, matchVars
    <2>2. completions' \in Seq(Results')
      BY <2>1, Shorter, Zenon
    <2>3. queue' \in Seq(Begun')
      <3>1. queue' = queue \/ queue' = <<>>
        BY <2>1
      <3>2. queue' = queue => queue' \in Seq(Begun')
        BY <1>2
      <3>3. queue' = <<>> => queue' \in Seq(Begun')
        BY Shorter, Zenon
      <3> QED
        BY <3>1, <3>2, <3>3
    <2> QED
      BY <1>2, <1>3, <2>1, <2>2, <2>3 DEF TrailFits
  <1>10. ASSUME NEW m \in Match, BeginMatch(m) PROVE TrailFits'
    <2>1. /\ playing' = playing \cup {m}
          /\ UNCHANGED <<completed, extracted, queue, saving, completions, reports>>
      BY <1>10 DEF BeginMatch, poolVars
    <2>2. PICK players \in (SUBSET LoginsUnderWay({"Admitted"})) \ {{}} :
              playersOf' = [playersOf EXCEPT ![m] = players]
      BY <1>10 DEF BeginMatch
    <2>3. players # {}
      OBVIOUS
    <2>4. m \in Begun'
      BY <2>2, <2>3 DEF Begun, DataFits
    <2> QED
      BY <1>2, <1>3, <2>1, <2>4, FS_AddElement DEF TrailFits
  <1>11. ASSUME NEW m \in Match, CompleteMatch(m) PROVE TrailFits'
    <2>1. /\ m \in playing /\ playing' = playing \ {m} /\ completed' = Append(completed, m)
          /\ UNCHANGED <<extracted, queue, saving, completions, reports>>
      BY <1>11 DEF CompleteMatch, poolVars
    <2>2. completed' \in Seq(Begun')
      BY <1>2, <2>1, AppendProperties
    <2> QED
      BY <1>2, <1>3, <2>1, <2>2, FS_RemoveElement DEF TrailFits
  <1>12. CASE TakeMatch
    <2>1. /\ queue # <<>> /\ queue' = Tail(queue) /\ saving' = <<Head(queue), "taken">>
          /\ UNCHANGED <<playing, completed, extracted, completions, reports>>
      BY <1>12 DEF TakeMatch, matchVars
    <2>2. Head(queue) \in Begun' /\ Tail(queue) \in Seq(Begun')
      BY <1>2, <2>1, HeadTailProperties
    <2> QED
      BY <1>2, <1>3, <2>1, <2>2 DEF TrailFits
  <1>13. CASE SaveTaken
    <2>1. UNCHANGED <<playing, completed, extracted, queue, completions, reports>>
      BY <1>13 DEF SaveTaken, matchVars
    <2>2. saving' \in Results'
      BY <1>1, <1>13, SaveTakenKeepsTrail
    <2> QED
      BY <1>2, <1>3, <2>1, <2>2 DEF TrailFits
  <1>14. CASE PushCompletion
    <2>1. /\ saving # None /\ saving[2] # "taken"
          /\ completions' = Append(completions, saving) /\ saving' = None
          /\ UNCHANGED <<playing, completed, extracted, queue, reports>>
      BY <1>14 DEF PushCompletion, matchVars
    <2>2. saving \in Results'
      BY <1>2, <2>1
    <2>3. completions' \in Seq(Results')
      BY <1>2, <2>1, <2>2, AppendProperties
    <2> QED
      BY <1>2, <1>3, <2>1, <2>3 DEF TrailFits
  <1>15. CASE StartStep
    <2>1. StartMatches \/ Unmoved
      BY <1>15 DEF StartStep, Configure, StartDatabase, LoadEntries, Validate, StartLogger,
         StartAccounts, StartMatches, StartTransport, StartTicks, poolVars, matchVars
    <2> QED
      BY <1>4, <1>9, <2>1
  <1>16. CASE \/ Poll \/ Detach \/ DrainMatches \/ DrainAccounts \/ StopAccounts \/ ClearHandler
              \/ StopDatabase \/ StopLogger \/ Join
    <2>1. Unmoved
      BY <1>16 DEF Poll, Detach, DrainMatches, DrainAccounts, StopAccounts, ClearHandler,
         StopDatabase, StopLogger, Join, JoinMatches, JoinAccounts, poolVars, matchVars
    <2> QED
      BY <1>4, <2>1
  <1>17. ASSUME NEW p \in Player, SubmitLogin(p) \/ AdmitLogin(p) \/ FindAccount(p) \/ FindPlayer(p)
         PROVE  TrailFits'
    <2>1. Unmoved
      BY <1>17 DEF SubmitLogin, AdmitLogin, FindAccount, FindPlayer, poolVars, matchVars
    <2> QED
      BY <1>4, <2>1
  <1> QED
    BY <1>5, <1>6, <1>7, <1>8, <1>9, <1>10, <1>11, <1>12, <1>13, <1>14, <1>15, <1>16, <1>17
    DEF Next, MainStep, ServerStep, AccountWorkerStep, MatchWorkerStep

\* At first there are no rows, and nothing is on its way.
LEMMA DataStarts == Init => DataFits /\ TrailFits
  <1>1. ASSUME Init PROVE DataFits
    <2>1. db = ClosedDatabase /\ NoRows \in Rows
      BY <1>1 DEF Init, NoRows, Rows
    <2>2. /\ ConnectionFits(db) /\ db.open = FALSE /\ db.committed = NoRows
      BY <2>1 DEF ConnectionFits, ClosedDatabase, Databases
    <2>3. WholeRows(NoRows)
      BY DEF WholeRows, NoRows
    <2> QED
      BY <1>1, <2>2, <2>3 DEF Init, DataFits, AdmittedPlayersAreStored, NobodyIsIn, NothingBegun,
         LoginsUnderWay
  <1>2. ASSUME Init PROVE TrailFits
    BY <1>2, FS_EmptySet DEF Init, TrailFits
  <1> QED
    BY <1>1, <1>2

\* The invariant, but for the counting.
IInv == ControlFits /\ PoolsFit /\ DataFits /\ TrailFits

\* The first two layers of the invariant hold in every reachable state.
LEMMA DataHolds == Spec => []IInv
  <1>1. Init => IInv
    BY Starts, DataStarts DEF IInv
  <1>2. IInv /\ [Next]_vars => IInv'
    <2>1. ASSUME IInv, Next PROVE IInv'
      BY <2>1, StepsFit, DataStepsFit, TrailStepsFit DEF IInv
    <2>2. ASSUME IInv, UNCHANGED vars PROVE IInv'
      <3>1. (ControlFits /\ PoolsFit)'
        BY <2>2, StepsFit DEF IInv
      <3>2. DataFits'
        BY <2>2, DataStays DEF IInv, vars, loginVars, matchVars
      <3>3. TrailFits'
        BY <2>2 DEF IInv, TrailFits, Begun, Results, vars, poolVars, matchVars
      <3> QED
        BY <3>1, <3>2, <3>3 DEF IInv
    <2> QED
      BY <2>1, <2>2
  <1> QED
    BY <1>1, <1>2, PTL DEF Spec

\* Who was let in has a row, but for a login in a transaction left open.
THEOREM LoginsLeaveRows == Spec => []AdmittedPlayersAreStored
  <1>1. IInv => AdmittedPlayersAreStored
    BY DEF IInv, DataFits
  <1> QED
    BY <1>1, DataHolds, PTL

\* The database holds whole matches, and all those reported as saved.
THEOREM MatchesAreSavedWhole == Spec => []SavedMatchesAreWhole
  <1>1. IInv => SavedMatchesAreWhole
    <2>1. ASSUME IInv, NEW line \in Range(reports), line[2] = "saved"
          PROVE  line[1] \in db.committed.matches
      <3>1. line \in Results \cup (Begun \X {"refused"})
        BY <2>1, RangeOfSeq DEF IInv, TrailFits
      <3> QED
        BY <2>1, <3>1 DEF Results
    <2> QED
      BY <2>1 DEF IInv, DataFits, WholeRows, SavedMatchesAreWhole
  <1> QED
    BY <1>1, DataHolds, PTL

-----------------------------------------------------------------------------
\* A match that has begun is in one place.

\* The places of a match: MatchHistoryTracker, the worker, and any queue or log.
Tracked(m) == Cardinality({m} \cap playing)

InSaving(m) == IF saving # None /\ saving[1] = m THEN 1 ELSE 0

Places(m) ==
    Tracked(m) + Count(completed, m) + Count(extracted, m) + Count(queue, m) + InSaving(m)
      + CountPairs(completions, m) + CountPairs(reports, m)

Placed == \A m \in Match : Places(m) = IF playersOf[m] = {} THEN 0 ELSE 1

Reported == Match \X Verdicts

\* The counts of the model count hits.
LEMMA CountIsHits ==
  /\ \A seq, m : Count(seq, m) = Hits(seq, {m})
  /\ \A m \in Match : \A seq \in Seq(Reported) : CountPairs(seq, m) = Hits(seq, {m} \X Verdicts)
  <1>1. ASSUME NEW seq, NEW m PROVE Count(seq, m) = Hits(seq, {m})
    <2>1. {i \in 1 .. Len(seq) : seq[i] = m} = {i \in 1 .. Len(seq) : seq[i] \in {m}}
      OBVIOUS
    <2> QED
      BY <2>1 DEF Count, Hits
  <1>2. ASSUME NEW m \in Match, NEW seq \in Seq(Reported)
        PROVE  CountPairs(seq, m) = Hits(seq, {m} \X Verdicts)
    <2>1. \A i \in 1 .. Len(seq) : seq[i] \in Reported
      OBVIOUS
    <2>2. \A line \in Reported : line[1] = m <=> line \in {m} \X Verdicts
      BY DEF Reported
    <2>3. {i \in 1 .. Len(seq) : seq[i][1] = m} = {i \in 1 .. Len(seq) : seq[i] \in {m} \X Verdicts}
      BY <2>1, <2>2
    <2> QED
      BY <2>3 DEF CountPairs, Hits
  <1> QED
    BY <1>1, <1>2

\* The count of a match in a queue that grows or is taken from.
LEMMA CountMoves ==
  ASSUME NEW m \in Match, NEW S, NEW s \in Seq(S), NEW x \in S
  PROVE  /\ Count(s, m) \in Nat /\ Count(<<>>, m) = 0
         /\ Count(Append(s, x), m) = Count(s, m) + (IF x = m THEN 1 ELSE 0)
         /\ s # <<>> => Count(s, m) = Count(Tail(s), m) + (IF Head(s) = m THEN 1 ELSE 0)
  <1>1. x \in {m} <=> x = m
    OBVIOUS
  <1>2. Head(s) \in {m} <=> Head(s) = m
    OBVIOUS
  <1>3. Hits(s, {m}) \in Nat /\ Hits(<<>>, {m}) = 0
    BY HitsIsNat, HitsOfNone
  <1>4. /\ Hits(Append(s, x), {m}) = Hits(s, {m}) + (IF x \in {m} THEN 1 ELSE 0)
        /\ s # <<>> => Hits(s, {m}) = Hits(Tail(s), {m}) + (IF Head(s) \in {m} THEN 1 ELSE 0)
    BY HitsOfAll
  <1> QED
    BY <1>1, <1>2, <1>3, <1>4, CountIsHits

\* The same of a log.
LEMMA PairsMove ==
  ASSUME NEW m \in Match, NEW s \in Seq(Reported), NEW t \in Seq(Reported), NEW x \in Reported
  PROVE  /\ CountPairs(s, m) \in Nat /\ CountPairs(<<>>, m) = 0
         /\ CountPairs(Append(s, x), m) = CountPairs(s, m) + (IF x[1] = m THEN 1 ELSE 0)
         /\ CountPairs(s \o t, m) = CountPairs(s, m) + CountPairs(t, m)
  <1> DEFINE set == {m} \X Verdicts
  <1>1. x \in set <=> x[1] = m
    BY DEF Reported
  <1> HIDE DEF set
  <1>2. <<>> \in Seq(Reported) /\ Append(s, x) \in Seq(Reported) /\ s \o t \in Seq(Reported)
    BY AppendProperties, ConcatProperties
  <1>3. Hits(s, set) \in Nat /\ Hits(<<>>, set) = 0
    BY HitsIsNat, HitsOfNone
  <1>4. Hits(Append(s, x), set) = Hits(s, set) + (IF x \in set THEN 1 ELSE 0)
    BY HitsOfAll
  <1>5. Hits(s \o t, set) = Hits(s, set) + Hits(t, set)
    BY HitsOfConcat
  <1>6. \A seq \in Seq(Reported) : CountPairs(seq, m) = Hits(seq, set)
    BY CountIsHits DEF set
  <1> QED
    BY <1>1, <1>2, <1>3, <1>4, <1>5, <1>6

\* Whatever the queues hold, they are sequences of matches.
LEMMA TrailTyped ==
  ASSUME DataFits, TrailFits
  PROVE  /\ completed \in Seq(Match) /\ extracted \in Seq(Match) /\ queue \in Seq(Match)
         /\ completions \in Seq(Reported) /\ reports \in Seq(Reported)
         /\ saving = None \/ saving \in Match \X {"taken", "saved", "failed"}
         /\ playing \subseteq Match /\ IsFiniteSet(playing)
  <1>1. Begun \subseteq Match /\ db.committed.matches \subseteq Match
    BY DEF Begun, DataFits, WholeRows
  <1>2. Results \subseteq Reported /\ Results \cup (Begun \X {"refused"}) \subseteq Reported
    BY <1>1 DEF Results, Reported, Verdicts
  <1>3. saving = None \/ saving \in Match \X {"taken", "saved", "failed"}
    BY <1>1 DEF TrailFits, Results
  <1>4. Seq(Begun) \subseteq Seq(Match) /\ Seq(Results) \subseteq Seq(Reported)
    BY <1>1, <1>2
  <1>5. Seq(Results \cup (Begun \X {"refused"})) \subseteq Seq(Reported)
    BY <1>2
  <1> QED
    BY <1>1, <1>3, <1>4, <1>5 DEF TrailFits

\* The places of a match, as numbers.
LEMMA PlacesTyped ==
  ASSUME DataFits, TrailFits, NEW m \in Match
  PROVE  /\ Tracked(m) = IF m \in playing THEN 1 ELSE 0
         /\ Count(completed, m) \in Nat /\ Count(extracted, m) \in Nat /\ Count(queue, m) \in Nat
         /\ InSaving(m) \in {0, 1}
         /\ CountPairs(completions, m) \in Nat /\ CountPairs(reports, m) \in Nat
  <1>1. Tracked(m) = IF m \in playing THEN 1 ELSE 0
    <2>1. CASE m \in playing
      <3>1. {m} \cap playing = {m}
        BY <2>1
      <3> QED
        BY <2>1, <3>1, FS_Singleton DEF Tracked
    <2>2. CASE m \notin playing
      <3>1. {m} \cap playing = {}
        BY <2>2
      <3> QED
        BY <2>2, <3>1, FS_EmptySet DEF Tracked
    <2> QED
      BY <2>1, <2>2
  <1>2. Count(completed, m) \in Nat /\ Count(extracted, m) \in Nat /\ Count(queue, m) \in Nat
    BY TrailTyped, CountIsHits, HitsIsNat
  <1>3. CountPairs(completions, m) \in Nat /\ CountPairs(reports, m) \in Nat
    <2>1. completions \in Seq(Reported) /\ reports \in Seq(Reported)
      BY TrailTyped
    <2>2. \A seq \in Seq(Reported) : Hits(seq, {m} \X Verdicts) \in Nat
      BY HitsIsNat
    <2>3. \A seq \in Seq(Reported) : CountPairs(seq, m) = Hits(seq, {m} \X Verdicts)
      BY CountIsHits
    <2> QED
      BY <2>1, <2>2, <2>3
  <1>4. InSaving(m) \in {0, 1}
    BY DEF InSaving
  <1> QED
    BY <1>1, <1>2, <1>3, <1>4

\* A step that moves a match from one place to the next.
LEMMA PlacesKept ==
  ASSUME Placed, UNCHANGED playersOf, \A m \in Match : Places(m)' = Places(m)
  PROVE  Placed'
  BY DEF Placed

\* Where no match has begun there is none in any place.
LEMMA NoPlaces ==
  ASSUME DataFits, TrailFits, Placed, NothingBegun, NEW m \in Match
  PROVE  /\ Tracked(m) = 0 /\ Count(completed, m) = 0 /\ Count(extracted, m) = 0
         /\ Count(queue, m) = 0 /\ InSaving(m) = 0
         /\ CountPairs(completions, m) = 0 /\ CountPairs(reports, m) = 0
  <1>1. Places(m) = 0
    BY DEF Placed, NothingBegun
  <1> QED
    BY <1>1, PlacesTyped DEF Places

\* Steps that have nothing to do with matches.
LEMMA PlacesStay ==
  ASSUME Placed,
         UNCHANGED <<playersOf, playing, completed, extracted, queue, saving, completions,
                     reports>>
  PROVE  Placed'
  BY DEF Placed, Places, Tracked, InSaving, Count, CountPairs

\* One lemma for each step that moves matches: each is where it was, or one further.
LEMMA ExtractPlaces ==
  ASSUME IInv, Placed, Extract
  PROVE  Placed'
  <1>1. /\ Calls("Extract") /\ completed' = <<>>
        /\ extracted' = IF runtime = "On" THEN completed ELSE <<>>
        /\ UNCHANGED <<playersOf, playing, queue, saving, completions, reports>>
    BY DEF Extract, poolVars
  <1>2. UpFits(9) \/ DownFits(2)
    BY <1>1, CallAt DEF IInv, UpCalls, UndoServer, Shutdown
  <1>3. extracted = <<>> /\ runtime \in {"Off", "On"}
    BY <1>2 DEF UpFits, DownFits
  <1>4. ASSUME NEW m \in Match PROVE Places(m)' = Places(m)
    <2>1. /\ Tracked(m)' = Tracked(m) /\ Count(queue, m)' = Count(queue, m)
          /\ InSaving(m)' = InSaving(m)
          /\ CountPairs(completions, m)' = CountPairs(completions, m)
          /\ CountPairs(reports, m)' = CountPairs(reports, m)
      BY <1>1 DEF Tracked, InSaving, Count, CountPairs
    <2>2. Count(<<>>, m) = 0
      BY CountIsHits, HitsOfNone
    <2>3. Count(completed, m)' = 0 /\ Count(extracted, m) = 0
      <3>1. Count(completed, m)' = Count(<<>>, m)
        BY <1>1 DEF Count
      <3> QED
        BY <1>3, <2>2, <3>1
    <2>4. Count(extracted, m)' = Count(completed, m)
      <3>1. CASE runtime = "On"
        BY <1>1, <3>1 DEF Count
      <3>2. CASE runtime = "Off"
        <4>1. Count(completed, m) = 0
          BY <3>2, NoPlaces DEF IInv, DataFits, NobodyIsIn
        <4>2. Count(extracted, m)' = Count(<<>>, m)
          BY <1>1, <3>2 DEF Count
        <4> QED
          BY <2>2, <4>1, <4>2
      <3> QED
        BY <1>3, <3>1, <3>2
    <2> QED
      BY <2>1, <2>3, <2>4, PlacesTyped DEF IInv, Places
  <1> QED
    BY <1>1, <1>4, PlacesKept

LEMMA EnqueuePlaces ==
  ASSUME IInv, Placed, Enqueue
  PROVE  Placed'
  <1>1. UNCHANGED <<playersOf, playing, completed, saving, completions>>
    BY DEF Enqueue
  <1>2. CASE extracted = <<>>
    BY <1>1, <1>2, PlacesStay DEF Enqueue
  <1>3. CASE extracted # <<>>
    <2>1. PICK n : n = Head(extracted)
      OBVIOUS
    <2>2. extracted \in Seq(Match) /\ n \in Match
      BY <1>3, <2>1, TrailTyped, HeadTailProperties DEF IInv
    <2>3. /\ extracted' = Tail(extracted)
          /\ \/ queue' = Append(queue, n) /\ UNCHANGED reports
             \/ reports' = Append(reports, <<n, "refused">>) /\ UNCHANGED queue
      BY <1>3, <2>1 DEF Enqueue
    <2>4. ASSUME NEW m \in Match PROVE Places(m)' = Places(m)
      <3>1. /\ Tracked(m)' = Tracked(m) /\ Count(completed, m)' = Count(completed, m)
            /\ InSaving(m)' = InSaving(m)
            /\ CountPairs(completions, m)' = CountPairs(completions, m)
        BY <1>1 DEF Tracked, InSaving, Count, CountPairs
      <3>2. Count(extracted, m) = Count(extracted, m)' + (IF n = m THEN 1 ELSE 0)
        <4>1. Count(extracted, m) = Count(Tail(extracted), m) + (IF n = m THEN 1 ELSE 0)
          BY <1>3, <2>1, <2>2, CountMoves
        <4>2. Count(extracted, m)' = Count(Tail(extracted), m)
          BY <2>3 DEF Count
        <4> QED
          BY <4>1, <4>2
      <3>3. Count(extracted, m)' \in Nat
        <4>1. Tail(extracted) \in Seq(Match)
          BY <1>3, <2>2, HeadTailProperties
        <4>2. Count(Tail(extracted), m) \in Nat
          BY <2>2, <4>1, CountMoves
        <4> QED
          BY <2>3, <4>2 DEF Count
      <3>4. CASE queue' = Append(queue, n) /\ UNCHANGED reports
        <4>1. Count(Append(queue, n), m) = Count(queue, m) + (IF n = m THEN 1 ELSE 0)
          BY <2>2, TrailTyped, CountMoves DEF IInv
        <4>2. Count(queue, m)' = Count(Append(queue, n), m)
          BY <3>4 DEF Count
        <4>3. CountPairs(reports, m)' = CountPairs(reports, m)
          BY <3>4 DEF CountPairs
        <4> QED
          BY <3>1, <3>2, <3>3, <4>1, <4>2, <4>3, PlacesTyped DEF IInv, Places
      <3>5. CASE reports' = Append(reports, <<n, "refused">>) /\ UNCHANGED queue
        <4>1. <<n, "refused">> \in Reported /\ <<n, "refused">>[1] = n
          BY <2>2 DEF Reported, Verdicts
        <4>2. CountPairs(Append(reports, <<n, "refused">>), m)
                = CountPairs(reports, m) + (IF n = m THEN 1 ELSE 0)
          BY <4>1, TrailTyped, PairsMove DEF IInv
        <4>3. CountPairs(reports, m)' = CountPairs(Append(reports, <<n, "refused">>), m)
          BY <3>5 DEF CountPairs
        <4>4. Count(queue, m)' = Count(queue, m)
          BY <3>5 DEF Count
        <4> QED
          BY <3>1, <3>2, <3>3, <4>2, <4>3, <4>4, PlacesTyped DEF IInv, Places
      <3> QED
        BY <2>3, <3>4, <3>5
    <2> QED
      BY <1>1, <2>4, PlacesKept
  <1> QED
    BY <1>2, <1>3

LEMMA ReportPlaces ==
  ASSUME IInv, Placed, Report
  PROVE  Placed'
  <1>1. /\ reports' = reports \o completions /\ completions' = <<>>
        /\ UNCHANGED <<playersOf, playing, completed, extracted, queue, saving>>
    BY DEF Report
  <1>2. ASSUME NEW m \in Match PROVE Places(m)' = Places(m)
    <2>1. /\ Tracked(m)' = Tracked(m) /\ Count(completed, m)' = Count(completed, m)
          /\ Count(extracted, m)' = Count(extracted, m) /\ Count(queue, m)' = Count(queue, m)
          /\ InSaving(m)' = InSaving(m)
      BY <1>1 DEF Tracked, InSaving, Count
    <2>2. CountPairs(completions, m)' = 0
      <3>1. CountPairs(completions, m)' = CountPairs(<<>>, m)
        BY <1>1 DEF CountPairs
      <3>2. <<>> \in Seq(Reported)
        BY Shorter
      <3> QED
        BY <3>1, <3>2, CountIsHits, HitsOfNone
    <2>3. CountPairs(reports, m)' = CountPairs(reports, m) + CountPairs(completions, m)
      <3>1. <<m, "saved">> \in Reported
        BY DEF Reported, Verdicts
      <3>2. CountPairs(reports \o completions, m) = CountPairs(reports, m) + CountPairs(completions, m)
        BY <3>1, TrailTyped, PairsMove DEF IInv
      <3>3. CountPairs(reports, m)' = CountPairs(reports \o completions, m)
        BY <1>1 DEF CountPairs
      <3> QED
        BY <3>2, <3>3
    <2> QED
      BY <2>1, <2>2, <2>3, PlacesTyped DEF IInv, Places
  <1> QED
    BY <1>1, <1>2, PlacesKept

LEMMA StopServerPlaces ==
  ASSUME IInv, Placed, StopServer
  PROVE  Placed'
  <1>1. /\ playing' = {} /\ completed' \in {completed \o some : some \in SetToSeqs(playing)}
        /\ UNCHANGED <<playersOf, extracted, queue, saving, completions, reports>>
    BY DEF StopServer, poolVars
  <1>2. PICK some \in SetToSeqs(playing) : completed' = completed \o some
    BY <1>1
  <1>3. ASSUME NEW m \in Match PROVE Places(m)' = Places(m)
    <2>1. /\ Count(extracted, m)' = Count(extracted, m) /\ Count(queue, m)' = Count(queue, m)
          /\ InSaving(m)' = InSaving(m)
          /\ CountPairs(completions, m)' = CountPairs(completions, m)
          /\ CountPairs(reports, m)' = CountPairs(reports, m)
      BY <1>1 DEF InSaving, Count, CountPairs
    <2>2. Tracked(m)' = 0
      <3>1. {m} \cap playing' = {}
        BY <1>1
      <3> QED
        BY <3>1, FS_EmptySet DEF Tracked
    <2>3. Count(completed, m)' = Count(completed, m) + Tracked(m)
      <3>1. some \in Seq(playing) /\ Hits(some, {m}) = Tracked(m)
        BY TrailTyped, HitsOfList DEF IInv, Tracked
      <3>2. some \in Seq(Match) /\ completed \in Seq(Match)
        BY <3>1, TrailTyped DEF IInv
      <3>3. Hits(completed \o some, {m}) = Hits(completed, {m}) + Hits(some, {m})
        BY <3>2, HitsOfConcat
      <3>4. Count(completed, m)' = Count(completed \o some, m)
        BY <1>2 DEF Count
      <3> QED
        BY <3>1, <3>3, <3>4, CountIsHits
    <2> QED
      BY <2>1, <2>2, <2>3, PlacesTyped DEF IInv, Places
  <1> QED
    BY <1>1, <1>3, PlacesKept

\* What the pool is emptied of, no match is in.
LEMMA EmptiedPlaces ==
  ASSUME IInv, Placed, StartMatches \/ StopMatches
  PROVE  Placed'
  <1>1. /\ completions' = <<>> /\ queue' \in {queue, <<>>}
        /\ UNCHANGED <<playersOf, playing, completed, extracted, saving, reports>>
    BY DEF StartMatches, StopMatches, matchVars
  <1>2. Calls("StartMatches") \/ Calls("StopMatches")
    BY DEF StartMatches, StopMatches
  <1>3. UpFits(6) \/ UndoFits(2)
    BY <1>2, CallAt DEF IInv, UpCalls, UndoServer, Shutdown
  <1>4. NothingBegun
    BY <1>3 DEF UpFits, UndoFits
  <1>5. ASSUME NEW m \in Match PROVE Places(m)' = Places(m)
    <2>1. /\ Tracked(m)' = Tracked(m) /\ Count(completed, m)' = Count(completed, m)
          /\ Count(extracted, m)' = Count(extracted, m) /\ InSaving(m)' = InSaving(m)
          /\ CountPairs(reports, m)' = CountPairs(reports, m)
      BY <1>1 DEF Tracked, InSaving, Count, CountPairs
    <2>2. /\ Count(queue, m) = 0 /\ CountPairs(completions, m) = 0
      BY <1>4, NoPlaces DEF IInv
    <2>3. CountPairs(completions, m)' = 0
      <3>1. CountPairs(completions, m)' = CountPairs(<<>>, m)
        BY <1>1 DEF CountPairs
      <3>2. <<>> \in Seq(Reported)
        BY Shorter
      <3> QED
        BY <3>1, <3>2, CountIsHits, HitsOfNone
    <2>4. Count(queue, m)' = 0
      <3>1. Count(queue, m)' = Count(queue, m) \/ Count(queue, m)' = Count(<<>>, m)
        BY <1>1 DEF Count
      <3> QED
        BY <2>2, <3>1, CountIsHits, HitsOfNone
    <2> QED
      BY <2>1, <2>2, <2>3, <2>4 DEF Places
  <1> QED
    BY <1>1, <1>5, PlacesKept

\* A match begins in the tracker, and is nowhere else.
LEMMA BeginMatchPlaces ==
  ASSUME IInv, Placed, NEW n \in Match, BeginMatch(n)
  PROVE  Placed'
  <1>1. /\ playersOf[n] = {} /\ playing' = playing \cup {n}
        /\ UNCHANGED <<completed, extracted, queue, saving, completions, reports>>
    BY DEF BeginMatch, poolVars
  <1>2. PICK players \in (SUBSET LoginsUnderWay({"Admitted"})) \ {{}} :
            playersOf' = [playersOf EXCEPT ![n] = players]
    BY DEF BeginMatch
  <1>3. players # {}
    OBVIOUS
  <1>4. playersOf'[n] # {} /\ \A m \in Match : m # n => playersOf'[m] = playersOf[m]
    BY <1>2, <1>3 DEF IInv, DataFits
  <1>5. ASSUME NEW m \in Match
        PROVE  Places(m)' = Tracked(m)' + Count(completed, m) + Count(extracted, m)
                              + Count(queue, m) + InSaving(m) + CountPairs(completions, m)
                              + CountPairs(reports, m)
    BY <1>1 DEF Places, InSaving, Count, CountPairs
  <1>6. ASSUME NEW m \in Match, m # n PROVE Places(m)' = Places(m)
    <2>1. {m} \cap playing' = {m} \cap playing
      BY <1>1, <1>6
    <2>2. Tracked(m)' = Tracked(m)
      BY <2>1 DEF Tracked
    <2> QED
      BY <1>5, <2>2 DEF Places
  <1>7. Places(n)' = 1
    <2>1. Places(n) = 0
      BY <1>1 DEF Placed
    <2>2. /\ Count(completed, n) = 0 /\ Count(extracted, n) = 0 /\ Count(queue, n) = 0
          /\ InSaving(n) = 0 /\ CountPairs(completions, n) = 0 /\ CountPairs(reports, n) = 0
      BY <2>1, PlacesTyped DEF IInv, Places
    <2>3. {n} \cap playing' = {n}
      BY <1>1
    <2>4. Tracked(n)' = 1
      BY <2>3, FS_Singleton DEF Tracked
    <2> QED
      BY <1>5, <2>2, <2>4
  <1> QED
    BY <1>1, <1>4, <1>6, <1>7 DEF Placed

\* A match that ends, the worker that takes one, and what it makes of it.
LEMMA CompleteMatchPlaces ==
  ASSUME IInv, Placed, NEW n \in Match, CompleteMatch(n)
  PROVE  Placed'
  <1>1. /\ n \in playing /\ playing' = playing \ {n} /\ completed' = Append(completed, n)
        /\ UNCHANGED <<playersOf, extracted, queue, saving, completions, reports>>
    BY DEF CompleteMatch, poolVars
  <1>2. ASSUME NEW m \in Match PROVE Places(m)' = Places(m)
    <2>1. /\ Count(extracted, m)' = Count(extracted, m) /\ Count(queue, m)' = Count(queue, m)
          /\ InSaving(m)' = InSaving(m)
          /\ CountPairs(completions, m)' = CountPairs(completions, m)
          /\ CountPairs(reports, m)' = CountPairs(reports, m)
      BY <1>1 DEF InSaving, Count, CountPairs
    <2>2. Count(completed, m)' = Count(completed, m) + (IF n = m THEN 1 ELSE 0)
      <3>1. Count(Append(completed, n), m) = Count(completed, m) + (IF n = m THEN 1 ELSE 0)
        BY TrailTyped, CountMoves DEF IInv
      <3>2. Count(completed, m)' = Count(Append(completed, n), m)
        BY <1>1 DEF Count
      <3> QED
        BY <3>1, <3>2
    <2>3. CASE m = n
      <3>1. {m} \cap playing' = {}
        BY <1>1, <2>3
      <3>2. Tracked(m)' = 0
        BY <3>1, FS_EmptySet DEF Tracked
      <3>3. Tracked(m) = 1
        BY <1>1, <2>3, PlacesTyped DEF IInv
      <3> QED
        BY <2>1, <2>2, <2>3, <3>2, <3>3, PlacesTyped DEF IInv, Places
    <2>4. CASE m # n
      <3>1. {m} \cap playing' = {m} \cap playing
        BY <1>1, <2>4
      <3>2. Tracked(m)' = Tracked(m)
        BY <3>1 DEF Tracked
      <3> QED
        BY <2>1, <2>2, <2>4, <3>2, PlacesTyped DEF IInv, Places
    <2> QED
      BY <2>3, <2>4
  <1> QED
    BY <1>1, <1>2, PlacesKept

LEMMA TakeMatchPlaces ==
  ASSUME IInv, Placed, TakeMatch
  PROVE  Placed'
  <1>1. /\ queue # <<>> /\ saving = None
        /\ queue' = Tail(queue) /\ saving' = <<Head(queue), "taken">>
        /\ UNCHANGED <<playersOf, playing, completed, extracted, completions, reports>>
    BY DEF TakeMatch, matchVars
  <1>2. PICK n : n = Head(queue)
    OBVIOUS
  <1>3. queue \in Seq(Match) /\ n \in Match /\ Tail(queue) \in Seq(Match)
    BY <1>1, <1>2, TrailTyped, HeadTailProperties DEF IInv
  <1>4. ASSUME NEW m \in Match PROVE Places(m)' = Places(m)
    <2>1. /\ Tracked(m)' = Tracked(m) /\ Count(completed, m)' = Count(completed, m)
          /\ Count(extracted, m)' = Count(extracted, m)
          /\ CountPairs(completions, m)' = CountPairs(completions, m)
          /\ CountPairs(reports, m)' = CountPairs(reports, m)
      BY <1>1 DEF Tracked, Count, CountPairs
    <2>2. InSaving(m) = 0 /\ InSaving(m)' = IF n = m THEN 1 ELSE 0
      <3>1. InSaving(m) = 0
        BY <1>1 DEF InSaving
      <3>2. saving' = <<n, "taken">> /\ saving' # <<>> /\ saving'[1] = n
        BY <1>1, <1>2
      <3>3. InSaving(m)' = IF n = m THEN 1 ELSE 0
        BY <3>2 DEF InSaving, None
      <3> QED
        BY <3>1, <3>3
    <2>3. Count(queue, m) = Count(queue, m)' + (IF n = m THEN 1 ELSE 0) /\ Count(queue, m)' \in Nat
      <3>1. Count(queue, m) = Count(Tail(queue), m) + (IF n = m THEN 1 ELSE 0)
        BY <1>1, <1>2, <1>3, CountMoves
      <3>2. Count(Tail(queue), m) \in Nat
        BY <1>3, CountMoves
      <3>3. Count(queue, m)' = Count(Tail(queue), m)
        BY <1>1 DEF Count
      <3> QED
        BY <3>1, <3>2, <3>3
    <2> QED
      BY <2>1, <2>2, <2>3, PlacesTyped DEF IInv, Places
  <1> QED
    BY <1>1, <1>4, PlacesKept

LEMMA SaveTakenPlaces ==
  ASSUME IInv, Placed, SaveTaken
  PROVE  Placed'
  <1>1. UNCHANGED <<playersOf, playing, completed, extracted, queue, completions, reports>>
    BY DEF SaveTaken, matchVars
  <1>2. saving # None /\ saving' # None /\ saving'[1] = saving[1]
    BY DEF SaveTaken, None
  <1>3. ASSUME NEW m \in Match PROVE Places(m)' = Places(m)
    BY <1>1, <1>2 DEF Places, Tracked, InSaving, Count, CountPairs
  <1> QED
    BY <1>1, <1>3, PlacesKept

LEMMA PushCompletionPlaces ==
  ASSUME IInv, Placed, PushCompletion
  PROVE  Placed'
  <1>1. /\ saving # None /\ saving[2] # "taken"
        /\ completions' = Append(completions, saving) /\ saving' = None
        /\ UNCHANGED <<playersOf, playing, completed, extracted, queue, reports>>
    BY DEF PushCompletion, matchVars
  <1>2. saving \in Reported
    BY <1>1, TrailTyped DEF IInv, Reported, Verdicts
  <1>3. ASSUME NEW m \in Match PROVE Places(m)' = Places(m)
    <2>1. /\ Tracked(m)' = Tracked(m) /\ Count(completed, m)' = Count(completed, m)
          /\ Count(extracted, m)' = Count(extracted, m) /\ Count(queue, m)' = Count(queue, m)
          /\ CountPairs(reports, m)' = CountPairs(reports, m)
      BY <1>1 DEF Tracked, Count, CountPairs
    <2>2. /\ InSaving(m) = IF saving[1] = m THEN 1 ELSE 0
          /\ InSaving(m)' = 0
      BY <1>1 DEF InSaving
    <2>3. CountPairs(completions, m)'
            = CountPairs(completions, m) + (IF saving[1] = m THEN 1 ELSE 0)
      <3>1. CountPairs(Append(completions, saving), m)
              = CountPairs(completions, m) + (IF saving[1] = m THEN 1 ELSE 0)
        BY <1>2, TrailTyped, PairsMove DEF IInv
      <3>2. CountPairs(completions, m)' = CountPairs(Append(completions, saving), m)
        BY <1>1 DEF CountPairs
      <3> QED
        BY <3>1, <3>2
    <2> QED
      BY <2>1, <2>2, <2>3, PlacesTyped DEF IInv, Places
  <1> QED
    BY <1>1, <1>3, PlacesKept

\* All steps together.
LEMMA PlacesStepsFit ==
  ASSUME IInv, Placed, Next
  PROVE  Placed'
  <1> DEFINE Unmoved == UNCHANGED <<playersOf, playing, completed, extracted, queue, saving,
                                 completions, reports>>
  <1>1. CASE StartStep
    <2>1. StartMatches \/ Unmoved
      BY <1>1 DEF StartStep, Configure, StartDatabase, LoadEntries, Validate, StartLogger,
         StartAccounts, StartMatches, StartTransport, StartTicks, poolVars, matchVars
    <2> QED
      BY <2>1, PlacesStay, EmptiedPlaces
  <1>2. CASE \/ Poll \/ Detach \/ DrainMatches \/ DrainAccounts \/ StopAccounts \/ ClearHandler
             \/ StopDatabase \/ StopLogger \/ Join
    <2>1. Unmoved
      BY <1>2 DEF Poll, Detach, DrainMatches, DrainAccounts, StopAccounts, ClearHandler,
         StopDatabase, StopLogger, Join, JoinMatches, JoinAccounts, poolVars, matchVars
    <2> QED
      BY <2>1, PlacesStay
  <1>3. ASSUME NEW p \in Player, SubmitLogin(p) \/ AdmitLogin(p) \/ FindAccount(p) \/ FindPlayer(p)
        PROVE  Placed'
    <2>1. Unmoved
      BY <1>3 DEF SubmitLogin, AdmitLogin, FindAccount, FindPlayer, poolVars, matchVars
    <2> QED
      BY <2>1, PlacesStay
  <1> QED
    BY <1>1, <1>2, <1>3, ExtractPlaces, EnqueuePlaces, ReportPlaces, StopServerPlaces,
       EmptiedPlaces, BeginMatchPlaces, CompleteMatchPlaces, TakeMatchPlaces, SaveTakenPlaces,
       PushCompletionPlaces
    DEF Next, MainStep, ServerStep, AccountWorkerStep, MatchWorkerStep

\* At first no match has begun.
LEMMA PlacesStart == Init => Placed
  <1> SUFFICES ASSUME Init, NEW m \in Match
               PROVE  Places(m) = IF playersOf[m] = {} THEN 0 ELSE 1
    BY DEF Placed
  <1>1. playersOf[m] = {}
    BY DEF Init
  <1>2. Tracked(m) = 0
    <2>1. {m} \cap playing = {}
      BY DEF Init
    <2> QED
      BY <2>1, FS_EmptySet DEF Tracked
  <1>3. Count(completed, m) = 0 /\ Count(extracted, m) = 0 /\ Count(queue, m) = 0
    BY CountIsHits, HitsOfNone DEF Init
  <1>4. CountPairs(completions, m) = 0 /\ CountPairs(reports, m) = 0
    <2>1. <<>> \in Seq(Reported)
      BY Shorter
    <2>2. CountPairs(<<>>, m) = 0
      BY <2>1, CountIsHits, HitsOfNone
    <2> QED
      BY <2>2 DEF Init
  <1>5. InSaving(m) = 0
    BY DEF Init, InSaving
  <1> QED
    BY <1>1, <1>2, <1>3, <1>4, <1>5 DEF Places

-----------------------------------------------------------------------------
\* The type invariant.

\* The two variables that no other layer speaks of.
FlagsFit == logger \in BOOLEAN /\ handler \in BOOLEAN

\* They are set to Boolean values only.
LEMMA FlagsStepsFit ==
  ASSUME FlagsFit, Next
  PROVE  FlagsFit'
  <1>1. CASE StartStep
    BY <1>1 DEF FlagsFit, StartStep, Configure, StartDatabase, LoadEntries, Validate, StartLogger,
       StartAccounts, StartMatches, StartTransport, StartTicks, appVars
  <1>2. CASE MainStep /\ ~ StartStep
    BY <1>2 DEF FlagsFit, MainStep, Extract, Enqueue, Report, Poll, StopServer, Detach,
       DrainMatches, DrainAccounts, StopMatches, StopAccounts, ClearHandler, StopDatabase,
       StopLogger, appVars
  <1>3. CASE Join \/ MatchWorkerStep
    BY <1>3 DEF FlagsFit, Join, JoinMatches, JoinAccounts, MatchWorkerStep, TakeMatch, SaveTaken,
       PushCompletion, appVars
  <1>4. CASE ServerStep \/ AccountWorkerStep
    BY <1>4 DEF FlagsFit, ServerStep, AccountWorkerStep, SubmitLogin, AdmitLogin, BeginMatch,
       CompleteMatch, FindAccount, FindPlayer, appVars
  <1> QED
    BY <1>1, <1>2, <1>3, <1>4 DEF Next

\* What is left of a list of calls is one.
LEMMA EndsAreNames ==
  ASSUME NEW calls \in Seq(CallNames), NEW i \in 1 .. Len(calls) + 1
  PROVE  From(calls, i) \in Seq(CallNames)
  <1>1. i \in Int /\ Len(calls) \in Int /\ \A j \in i .. Len(calls) : calls[j] \in CallNames
    OBVIOUS
  <1> QED
    BY <1>1, SubSeqProperties DEF From

\* What is left for the main thread is a list of calls.
LEMMA CallsAreNames ==
  ASSUME ControlFits
  PROVE  todo \in Seq(CallNames)
  <1>1. CASE todo = <<"Configure">>
    BY <1>1 DEF CallNames
  <1>2. CASE todo = <<"StopDatabase">>
    BY <1>2 DEF CallNames
  <1>3. ASSUME NEW i \in 1 .. 12, UpFits(i) PROVE todo \in Seq(CallNames)
    <2>1. UpCalls \in Seq(CallNames) /\ i \in 1 .. Len(UpCalls) + 1
      BY CallLists
    <2> QED
      BY <1>3, <2>1, EndsAreNames DEF UpFits
  <1>4. ASSUME NEW i \in 1 .. 7, todo = From(UndoServer, i) PROVE todo \in Seq(CallNames)
    <2>1. UndoServer \in Seq(CallNames) /\ i \in 1 .. Len(UndoServer) + 1
      BY CallLists
    <2> QED
      BY <1>4, <2>1, EndsAreNames
  <1>5. ASSUME NEW i \in 1 .. 13, DownFits(i) PROVE todo \in Seq(CallNames)
    <2>1. Shutdown \in Seq(CallNames) /\ i \in 1 .. Len(Shutdown) + 1
      BY CallLists
    <2> QED
      BY <1>5, <2>1, EndsAreNames DEF DownFits
  <1> QED
    BY <1>1, <1>2, <1>3, <1>4, <1>5 DEF ControlFits

\* All calls are calls of the model.
LEMMA NamesAreTyped ==
  CallNames \subseteq Range(Startup) \cup Range(Loop) \cup Range(Shutdown)
                        \cup {"Configure", "StopMatches", "StopAccounts"}
  <1>1. Range(Startup) = {"StartDatabase", "LoadEntries", "Validate", "StartLogger",
                          "StartAccounts", "StartMatches", "StartTransport", "StartTicks"}
    BY DEF Range, Startup
  <1>2. Range(Loop) = {"Extract", "Enqueue", "Report", "Poll"}
    BY DEF Range, Loop
  <1>3. Range(Shutdown) = {"StopServer", "Extract", "Enqueue", "DrainMatches", "JoinMatches",
                           "Report", "Detach", "DrainAccounts", "JoinAccounts", "Clear",
                           "StopDatabase", "StopLogger"}
    BY DEF Range, Shutdown
  <1> QED
    BY <1>1, <1>2, <1>3 DEF CallNames

\* The layers together imply the types.
LEMMA Typed ==
  ASSUME IInv, FlagsFit
  PROVE  TypeOK
  <1>1. \A i \in 1 .. Len(todo) :
           todo[i] \in Range(Startup) \cup Range(Loop) \cup Range(Shutdown)
                        \cup {"Configure", "StopMatches", "StopAccounts"}
    <2>1. todo \in Seq(CallNames)
      BY CallsAreNames DEF IInv
    <2> QED
      BY <2>1, NamesAreTyped
  <1>2. /\ runtime \in {"Off", "On", "Stopped"} /\ server \in {"Down", "Receiving", "Up"}
        /\ accounts \in PoolStates /\ matches \in PoolStates
    BY DEF IInv, ControlFits, NothingStarted, UpFits, UndoFits, DownFits, PoolStates
  <1>3. db \in Databases /\ login \in [Player -> LoginStates] /\ playersOf \in [Match -> SUBSET Player]
    BY DEF IInv, DataFits, ConnectionFits, PoolsFit
  <1>4. {queue, completed, extracted} \subseteq Seq(Match) /\ playing \subseteq Match
    BY TrailTyped DEF IInv
  <1>5. saving \in {None} \cup (Match \X {"taken", "saved", "failed"})
    BY TrailTyped DEF IInv
  <1>6. reports \in Seq(Match \X Verdicts)
    BY TrailTyped DEF IInv, Reported
  <1>7. completions \in Seq(Match \X {"saved", "failed"})
    <2>1. Results \subseteq Match \X {"saved", "failed"}
      BY DEF IInv, DataFits, WholeRows, Results, Begun
    <2>2. Seq(Results) \subseteq Seq(Match \X {"saved", "failed"})
      BY <2>1
    <2> QED
      BY <2>2 DEF IInv, TrailFits
  <1> QED
    BY <1>1, <1>2, <1>3, <1>4, <1>5, <1>6, <1>7 DEF TypeOK, FlagsFit

\* When Run returns, the log is the only place left.
LEMMA PlacesAtTheEnd ==
  ASSUME IInv, Placed, todo = <<>>, NEW m \in Match
  PROVE  Places(m) = CountPairs(reports, m)
  <1>2. UndoFits(7) \/ DownFits(13)
    <2>1. ASSUME NEW i \in 1 .. 12, UpFits(i) PROVE FALSE
      <3>1. UpCalls \in Seq(CallNames) /\ i \in 1 .. Len(UpCalls)
        BY CallLists
      <3> QED
        BY <2>1, <3>1, NextCall DEF UpFits
    <2>2. ASSUME NEW i \in 1 .. 7, i # 7, todo = From(UndoServer, i) PROVE FALSE
      <3>1. UndoServer \in Seq(CallNames) /\ i \in 1 .. Len(UndoServer)
        BY <2>2, CallLists
      <3> QED
        BY <2>2, <3>1, NextCall
    <2>3. ASSUME NEW i \in 1 .. 13, i # 13, DownFits(i) PROVE FALSE
      <3>1. Shutdown \in Seq(CallNames) /\ i \in 1 .. Len(Shutdown)
        BY <2>3, CallLists
      <3> QED
        BY <2>3, <3>1, NextCall DEF DownFits
    <2> QED
      BY <2>1, <2>2, <2>3 DEF IInv, ControlFits
  <1>3. CASE UndoFits(7)
    BY <1>3, NoPlaces DEF IInv, UndoFits, Places
  <1>4. CASE DownFits(13)
    <2>1. /\ playing = {} /\ completed = <<>> /\ extracted = <<>> /\ completions = <<>>
          /\ queue = <<>> /\ saving = None
      BY <1>4 DEF DownFits, IInv, PoolsFit
    <2>2. Tracked(m) = 0 /\ InSaving(m) = 0
      BY <2>1, PlacesTyped DEF IInv, InSaving
    <2>3. Count(completed, m) = 0 /\ Count(extracted, m) = 0 /\ Count(queue, m) = 0
      BY <2>1, CountIsHits, HitsOfNone
    <2>4. CountPairs(completions, m) = 0
      <3>1. <<>> \in Seq(Reported)
        BY Shorter
      <3> QED
        BY <2>1, <3>1, CountIsHits, HitsOfNone
    <2> QED
      BY <2>2, <2>3, <2>4, PlacesTyped DEF IInv, Places
  <1> QED
    BY <1>2, <1>3, <1>4

\* The layers together imply that every match is accounted for.
LEMMA Accounted ==
  ASSUME IInv, FlagsFit, Placed
  PROVE  MatchesAreAccountedFor
  <1>1. ASSUME NEW m \in Match
        PROVE  /\ Places(m) <= 1
               /\ playersOf[m] = {} => Places(m) = 0
               /\ playersOf[m] # {} /\ runtime # "Off" => Places(m) = 1
               /\ todo = <<>> => Places(m) = CountPairs(reports, m)
    BY PlacesAtTheEnd DEF Placed
  <1> QED
    BY <1>1, Typed DEF MatchesAreAccountedFor, Places, Tracked, InSaving

\* Every match that has begun is in one place, and with a database it ends as
\* one line of the log; the state has its type.
THEOREM NoMatchIsLost == Spec => []MatchesAreAccountedFor
  <1> DEFINE All == IInv /\ FlagsFit /\ Placed
  <1>1. Init => FlagsFit /\ Placed
    BY PlacesStart DEF Init, FlagsFit
  <1>2. IInv /\ FlagsFit /\ Placed /\ [Next]_vars => (FlagsFit /\ Placed)'
    <2>1. ASSUME IInv, FlagsFit, Placed, Next PROVE (FlagsFit /\ Placed)'
      BY <2>1, FlagsStepsFit, PlacesStepsFit
    <2>2. ASSUME FlagsFit, Placed, UNCHANGED vars PROVE (FlagsFit /\ Placed)'
      <3>1. UNCHANGED <<logger, handler>>
        BY <2>2 DEF vars, appVars
      <3>2. UNCHANGED <<playersOf, playing, completed, extracted, queue, saving, completions,
                        reports>>
        BY <2>2 DEF vars, poolVars, matchVars
      <3> QED
        BY <2>2, <3>1, <3>2, PlacesStay DEF FlagsFit
    <2> QED
      BY <2>1, <2>2
  <1>3. IInv /\ FlagsFit /\ Placed => MatchesAreAccountedFor
    BY Accounted
  <1> QED
    BY <1>1, <1>2, <1>3, DataHolds, PTL DEF Spec

-----------------------------------------------------------------------------
\* The matches, as those see them who only know the ledger.

Waiting == Taken \o queue \o extracted \o completed

Told == completions \o Tried

\* Where these two stay as they are, so does the ledger.
LEMMA LedgerUnmoved ==
  ASSUME UNCHANGED <<playersOf, playing, reports>>, UNCHANGED <<Waiting, Told>>,
         db'.committed.matches = db.committed.matches,
         runtime' = "Stopped" <=> runtime = "Stopped"
  PROVE  UNCHANGED Ledger!vars
  BY DEF Ledger!vars, Waiting, Told, Begun

\* The sequences the ledger is read from.
LEMMA LedgerTyped ==
  ASSUME IInv
  PROVE  /\ Taken \in Seq(Match) /\ queue \in Seq(Match) /\ extracted \in Seq(Match)
         /\ completed \in Seq(Match) /\ Waiting \in Seq(Match)
         /\ completions \in Seq(Reported) /\ Tried \in Seq(Reported) /\ Told \in Seq(Reported)
         /\ reports \in Seq(Reported)
  <1>1. /\ completed \in Seq(Match) /\ extracted \in Seq(Match) /\ queue \in Seq(Match)
        /\ completions \in Seq(Reported) /\ reports \in Seq(Reported)
        /\ saving = None \/ saving \in Match \X {"taken", "saved", "failed"}
    BY TrailTyped DEF IInv
  <1>2. Taken \in Seq(Match)
    BY <1>1 DEF Taken
  <1>3. Tried \in Seq(Reported)
    <2>1. saving # None /\ saving[2] # "taken" => saving \in Reported
      BY <1>1 DEF Reported, Verdicts
    <2> QED
      BY <2>1 DEF Tried
  <1>4. Waiting \in Seq(Match) /\ Told \in Seq(Reported)
    BY <1>1, <1>2, <1>3, ConcatProperties DEF Waiting, Told
  <1> QED
    BY <1>1, <1>2, <1>3, <1>4

\* The head of a sequence moves to the end of the one before it.
LEMMA MovedOn ==
  ASSUME NEW S, NEW s \in Seq(S), NEW t \in Seq(S), t # <<>>
  PROVE  /\ Append(s, Head(t)) \o Tail(t) = s \o t
         /\ <<Head(t)>> \o Tail(t) = t
         /\ Append(s, Head(t)) = s \o <<Head(t)>>
  <1>1. Head(t) \in S /\ Tail(t) \in Seq(S) /\ <<Head(t)>> \in Seq(S)
    BY HeadTailProperties
  <1>2. <<Head(t)>> \o Tail(t) = t
    <2>1. Len(t) \in Nat \ {0}
      BY EmptySeq
    <2>2. SubSeq(t, 1, Len(t)) = <<t[1]>> \o SubSeq(t, 2, Len(t))
      BY <2>1, SubSeqRecursiveFirst
    <2>3. Head(t) = t[1]
      OBVIOUS
    <2> QED
      BY <2>2, <2>3, SubSeqFull, TailIsSubSeq
  <1>3. Append(s, Head(t)) = s \o <<Head(t)>>
    BY <1>1, AppendIsConcat
  <1> QED
    BY <1>1, <1>2, <1>3, ConcatAssociative

\* Three sequences are one however they are put together.
LEMMA OneOfThree ==
  ASSUME NEW S, NEW s \in Seq(S), NEW t \in Seq(S), NEW u \in Seq(S)
  PROVE  s \o t \o u = s \o (t \o u) /\ s \o t \in Seq(S)
  BY ConcatAssociative, ConcatProperties

\* What the worker has taken is the first that waits.
LEMMA TakenIsFirst ==
  ASSUME IInv, NEW x \in Match, Taken = <<x>>
  PROVE  /\ Waiting # <<>> /\ Head(Waiting) = x
         /\ Tail(Waiting) = <<>> \o queue \o extracted \o completed
  <1>0. queue \in Seq(Match) /\ extracted \in Seq(Match) /\ completed \in Seq(Match)
    BY LedgerTyped
  <1>1. PICK f : f = queue \o extracted
    OBVIOUS
  <1>2. PICK rest : rest = f \o completed
    OBVIOUS
  <1>3. f \in Seq(Match) /\ <<x>> \in Seq(Match) /\ <<>> \o queue = queue
    BY <1>0, <1>1, OneOfThree, ConcatEmptySeq
  <1>4. <<x>> \o queue \o extracted = <<x>> \o f
    BY <1>0, <1>1, <1>3, OneOfThree
  <1>5. <<x>> \o f \o completed = <<x>> \o rest /\ rest \in Seq(Match)
    BY <1>0, <1>2, <1>3, OneOfThree
  <1>6. /\ <<x>> \o queue \o extracted \o completed = <<x>> \o rest
        /\ <<>> \o queue \o extracted \o completed = rest
    BY <1>1, <1>2, <1>3, <1>4, <1>5
  <1>7. <<x>> \o rest # <<>> /\ Head(<<x>> \o rest) = x /\ Tail(<<x>> \o rest) = rest
    <2>1. /\ <<x>> \o rest \in Seq(Match) /\ Len(<<x>> \o rest) = 1 + Len(rest)
          /\ \A i \in 1 .. 1 + Len(rest) :
                 (<<x>> \o rest)[i] = IF i <= 1 THEN x ELSE rest[i - 1]
      BY <1>3, <1>5, ConcatProperties
    <2>2. Len(rest) \in Nat
      BY <1>5, LenProperties
    <2>3. <<x>> \o rest # <<>> /\ Head(<<x>> \o rest) = x
      BY <2>1, <2>2
    <2>4. /\ Tail(<<x>> \o rest) \in Seq(Match) /\ Len(Tail(<<x>> \o rest)) = Len(rest)
          /\ \A i \in 1 .. Len(rest) : Tail(<<x>> \o rest)[i] = (<<x>> \o rest)[i + 1]
      BY <2>1, <2>2, <2>3, HeadTailProperties
    <2>5. \A i \in 1 .. Len(rest) : Tail(<<x>> \o rest)[i] = rest[i]
      BY <2>1, <2>2, <2>4
    <2> QED
      BY <1>5, <2>3, <2>4, <2>5, SeqEqual
  <1> QED
    BY <1>6, <1>7 DEF Waiting

\* Before a match has begun there is none on the way.
LEMMA NothingWaits ==
  ASSUME IInv, NothingBegun
  PROVE  /\ Begun = {} /\ playing = {} /\ db.committed.matches = {}
         /\ queue = <<>> /\ extracted = <<>> /\ completed = <<>> /\ completions = <<>>
         /\ Taken = <<>> /\ Tried = <<>>
  <1>1. Begun = {} /\ playing = {} /\ db.committed.matches = {}
    BY DEF IInv, NothingBegun, Begun, TrailFits, DataFits, WholeRows
  <1>2. Results = {}
    BY <1>1 DEF Results
  <1>3. \A s \in Seq({}) : s = <<>>
    <2>1. ASSUME NEW s \in Seq({}), s # <<>> PROVE FALSE
      BY <2>1, HeadTailProperties
    <2> QED
      BY <2>1
  <1>4. /\ queue = <<>> /\ extracted = <<>> /\ completed = <<>> /\ completions = <<>>
    BY <1>1, <1>2, <1>3 DEF IInv, TrailFits
  <1>5. saving = None
    BY <1>1, <1>2 DEF IInv, TrailFits
  <1> QED
    BY <1>1, <1>4, <1>5 DEF Taken, Tried

\* One lemma for each step that the ledger may see: the matches that are taken
\* over from the tracker are where they were.
LEMMA ExtractIsUnseen ==
  ASSUME IInv, Extract
  PROVE  UNCHANGED Ledger!vars
  <1>1. /\ Calls("Extract") /\ completed' = <<>>
        /\ extracted' = IF runtime = "On" THEN completed ELSE <<>>
        /\ UNCHANGED <<playersOf, playing, queue, saving, completions, reports, db, runtime>>
    BY DEF Extract, poolVars
  <1>2. UpFits(9) \/ DownFits(2)
    BY <1>1, CallAt DEF IInv, UpCalls, UndoServer, Shutdown
  <1>3. extracted = <<>> /\ runtime \in {"Off", "On"}
    BY <1>2 DEF UpFits, DownFits
  <1>4. runtime = "Off" => completed = <<>>
    BY NothingWaits DEF IInv, DataFits, NobodyIsIn
  <1>5. extracted' = completed
    BY <1>1, <1>3, <1>4
  <1>6. Taken' = Taken /\ Tried' = Tried
    BY <1>1 DEF Taken, Tried
  <1>7. Waiting' = Waiting
    <2>1. PICK before : before = Taken \o queue
      OBVIOUS
    <2>2. before \in Seq(Match) /\ before \o completed \in Seq(Match)
      BY <2>1, LedgerTyped, ConcatProperties
    <2>3. before \o extracted = before
      BY <1>3, <2>2, ConcatEmptySeq
    <2>4. before \o completed \o <<>> = before \o completed
      BY <2>2, ConcatEmptySeq
    <2> QED
      BY <1>1, <1>5, <1>6, <2>1, <2>3, <2>4 DEF Waiting
  <1> QED
    BY <1>1, <1>6, <1>7, LedgerUnmoved DEF Told

\* The pool accepts every match that is given to it.
LEMMA EnqueueIsUnseen ==
  ASSUME IInv, Enqueue
  PROVE  UNCHANGED Ledger!vars
  <1>1. /\ Calls("Enqueue")
        /\ UNCHANGED <<playersOf, playing, completed, saving, completions, db, runtime>>
    BY DEF Enqueue
  <1>2. matches = "Running"
    <2>1. UpFits(10) \/ DownFits(3)
      BY <1>1, CallAt DEF IInv, UpCalls, UndoServer, Shutdown
    <2> QED
      BY <2>1 DEF UpFits, DownFits
  <1>3. Taken' = Taken /\ Tried' = Tried
    BY <1>1 DEF Taken, Tried
  <1>4. CASE extracted = <<>>
    <2>1. UNCHANGED <<queue, extracted, reports>>
      BY <1>4 DEF Enqueue
    <2> QED
      BY <1>1, <1>3, <2>1, LedgerUnmoved DEF Waiting, Told
  <1>5. CASE extracted # <<>>
    <2>1. /\ queue' = Append(queue, Head(extracted)) /\ extracted' = Tail(extracted)
          /\ UNCHANGED reports
      BY <1>2, <1>5 DEF Enqueue
    <2>2. PICK before : before = Taken \o queue
      OBVIOUS
    <2>3. before \in Seq(Match) /\ Head(extracted) \in Match /\ <<Head(extracted)>> \in Seq(Match)
      BY <1>5, <2>2, LedgerTyped, ConcatProperties, HeadTailProperties
    <2>4. Taken \o queue' = Append(before, Head(extracted))
      <3>1. Append(queue, Head(extracted)) = queue \o <<Head(extracted)>>
        BY <2>3, LedgerTyped, AppendIsConcat
      <3>2. Append(before, Head(extracted)) = before \o <<Head(extracted)>>
        BY <2>3, AppendIsConcat
      <3>3. Taken \o queue \o <<Head(extracted)>> = Taken \o (queue \o <<Head(extracted)>>)
        <4>1. Taken \in Seq(Match) /\ queue \in Seq(Match)
          BY LedgerTyped
        <4> QED
          BY <2>3, <4>1, OneOfThree
      <3> QED
        BY <2>1, <2>2, <3>1, <3>2, <3>3
    <2>5. Append(before, Head(extracted)) \o Tail(extracted) = before \o extracted
      BY <1>5, <2>3, LedgerTyped, MovedOn
    <2>6. Waiting' = Waiting
      BY <1>1, <1>3, <2>1, <2>2, <2>4, <2>5 DEF Waiting
    <2> QED
      BY <1>1, <1>3, <2>1, <2>6, LedgerUnmoved DEF Told
  <1> QED
    BY <1>4, <1>5

\* The log gets all results but that of the worker.
LEMMA ReportIsReport ==
  ASSUME IInv, Report
  PROVE  [Ledger!Next]_(Ledger!vars)
  <1>1. /\ reports' = reports \o completions /\ completions' = <<>>
        /\ UNCHANGED <<playersOf, playing, completed, extracted, queue, saving, db, runtime>>
    BY DEF Report
  <1>2. Taken' = Taken /\ Tried' = Tried
    BY <1>1 DEF Taken, Tried
  <1>3. Waiting' = Waiting
    BY <1>1, <1>2 DEF Waiting
  <1>4. /\ completions \in Seq(Reported) /\ Tried \in Seq(Reported) /\ reports \in Seq(Reported)
        /\ Told = completions \o Tried /\ Told' = Tried
    BY <1>1, <1>2, LedgerTyped, ConcatEmptySeq DEF Told
  <1>5. CASE completions = <<>>
    <2>1. Told' = Told /\ reports' = reports
      BY <1>1, <1>4, <1>5, ConcatEmptySeq
    <2> QED
      BY <1>1, <1>3, <2>1, LedgerUnmoved
  <1>6. CASE completions # <<>>
    <2>1. PICK n : n = Len(completions)
      OBVIOUS
    <2>2. n \in Nat \ {0} /\ n \in 1 .. Len(completions)
      BY <1>4, <1>6, <2>1, EmptySeq
    <2>3. Len(Told) = n + Len(Tried) /\ Len(Tried) \in Nat
      BY <1>4, <2>1, ConcatProperties, LenProperties
    <2>4. SubSeq(Told, 1, n) = completions
      <3>1. SubSeq(completions \o Tried, 1, n) = SubSeq(completions, 1, n)
        BY <1>4, <2>2, SubSeqOfConcat1
      <3> QED
        BY <1>4, <2>1, <3>1, SubSeqFull
    <2>5. SubSeq(Told, n + 1, Len(Told)) = Tried
      <3>1. CASE Tried = <<>>
        <4>1. Len(Told) < n + 1 /\ Len(Told) \in Int /\ n + 1 \in Int
          BY <2>2, <2>3, <3>1, EmptySeq
        <4> QED
          BY <3>1, <4>1, SubSeqEmpty
      <3>2. CASE Tried # <<>>
        <4>1. Len(Tried) \in Nat \ {0}
          BY <1>4, <3>2, EmptySeq
        <4>2. SubSeq(completions \o Tried, n + 1, n + Len(Tried))
                = SubSeq(Tried, n + 1 - n, n + Len(Tried) - n)
          BY <1>4, <2>1, <2>2, <4>1, SubSeqOfConcat2
        <4>3. n + 1 - n = 1 /\ n + Len(Tried) - n = Len(Tried)
          BY <2>2, <4>1
        <4> QED
          BY <1>4, <2>3, <4>2, <4>3, SubSeqFull
      <3> QED
        BY <3>1, <3>2
    <2>6. Begun' = Begun
      BY <1>1 DEF Begun
    <2>7. Ledger!Report(n)
      BY <1>1, <1>3, <1>4, <2>4, <2>5, <2>6 DEF Ledger!Report, Waiting, Told
    <2>8. n \in 1 .. Len(Told)
      BY <2>2, <2>3
    <2> QED
      BY <2>7, <2>8 DEF Ledger!Next, Told
  <1> QED
    BY <1>5, <1>6

\* Matches end one by one while the server runs, and all together when it stops.
LEMMA EndIsEnd ==
  ASSUME IInv, NEW some \in SUBSET playing, NEW order \in SetToSeqs(some),
         playing' = playing \ some, completed' = completed \o order,
         UNCHANGED <<playersOf, extracted, queue, saving, completions, reports, db, runtime>>
  PROVE  [Ledger!Next]_(Ledger!vars)
  <1>1. Taken' = Taken /\ Told' = Told /\ Begun' = Begun
    BY DEF Taken, Tried, Told, Begun
  <1>2. Waiting' = Waiting \o order
    <2>1. PICK before : before = Taken \o queue \o extracted
      OBVIOUS
    <2>2. Taken \o queue \in Seq(Match)
      BY LedgerTyped, ConcatProperties
    <2>3. before \in Seq(Match)
      BY <2>1, <2>2, LedgerTyped, ConcatProperties
    <2>4. order \in Seq(Match)
      <3>1. some \subseteq Match /\ IsFiniteSet(some)
        BY TrailTyped, FS_Subset DEF IInv
      <3>2. order \in Seq(some)
        BY <3>1, HitsOfList
      <3> QED
        BY <3>1, <3>2
    <2>5. before \o completed \o order = before \o (completed \o order)
      <3>1. completed \in Seq(Match)
        BY LedgerTyped
      <3> QED
        BY <2>3, <2>4, <3>1, OneOfThree
    <2> QED
      BY <1>1, <2>1, <2>5 DEF Waiting
  <1>3. order \in Ledger!SetToSeqs(some)
    BY DEF SetToSeqs, Ledger!SetToSeqs, Cardinality, Ledger!Cardinality
  <1>4. Ledger!End(some)
    BY <1>1, <1>2, <1>3 DEF Ledger!End, Waiting, Told
  <1> QED
    BY <1>4 DEF Ledger!Next

LEMMA StopServerIsEnd ==
  ASSUME IInv, StopServer
  PROVE  [Ledger!Next]_(Ledger!vars)
  <1>1. PICK order \in SetToSeqs(playing) : completed' = completed \o order
    BY DEF StopServer
  <1>2. /\ playing' = playing \ playing /\ playing \in SUBSET playing
        /\ UNCHANGED <<playersOf, extracted, queue, saving, completions, reports, db, runtime>>
    BY DEF StopServer, poolVars
  <1> QED
    BY <1>1, <1>2, EndIsEnd

LEMMA CompleteMatchIsEnd ==
  ASSUME IInv, NEW m \in Match, CompleteMatch(m)
  PROVE  [Ledger!Next]_(Ledger!vars)
  <1>1. /\ m \in playing /\ playing' = playing \ {m} /\ completed' = Append(completed, m)
        /\ UNCHANGED <<playersOf, extracted, queue, saving, completions, reports, db, runtime>>
    BY DEF CompleteMatch, poolVars
  <1>2. <<m>> \in SetToSeqs({m})
    <2>1. Cardinality({m}) = 1
      BY FS_Singleton
    <2>2. <<m>> \in [1 .. 1 -> {m}]
      OBVIOUS
    <2> QED
      BY <2>1, <2>2 DEF SetToSeqs
  <1>3. completed' = completed \o <<m>>
    BY <1>1, LedgerTyped, AppendIsConcat
  <1>4. {m} \in SUBSET playing
    BY <1>1
  <1> QED
    BY <1>1, <1>2, <1>3, <1>4, EndIsEnd

LEMMA BeginMatchIsBegin ==
  ASSUME IInv, NEW m \in Match, BeginMatch(m)
  PROVE  [Ledger!Next]_(Ledger!vars)
  <1>1. /\ server = "Up" /\ playersOf[m] = {} /\ playing' = playing \cup {m}
        /\ UNCHANGED <<completed, extracted, queue, saving, completions, reports, db, runtime>>
    BY DEF BeginMatch, poolVars
  <1>2. PICK players \in (SUBSET LoginsUnderWay({"Admitted"})) \ {{}} :
            playersOf' = [playersOf EXCEPT ![m] = players]
    BY DEF BeginMatch
  <1>3. players # {}
    OBVIOUS
  <1>4. /\ playersOf'[m] # {} /\ \A n \in Match : n # m => playersOf'[n] = playersOf[n]
    BY <1>2, <1>3 DEF IInv, DataFits
  <1>5. Begun' = Begun \cup {m} /\ m \notin Begun
    BY <1>1, <1>4 DEF Begun
  <1>6. runtime # "Stopped"
    BY <1>1, PoolsEndFirst DEF IInv
  <1>7. Taken' = Taken /\ Tried' = Tried
    BY <1>1 DEF Taken, Tried
  <1>8. Ledger!Begin(m)
    BY <1>1, <1>5, <1>6, <1>7 DEF Ledger!Begin
  <1> QED
    BY <1>8 DEF Ledger!Next

\* The worker takes a match before it tries it, and has a result before it tells it.
LEMMA TakeMatchIsUnseen ==
  ASSUME IInv, TakeMatch
  PROVE  UNCHANGED Ledger!vars
  <1>1. /\ queue # <<>> /\ saving = None
        /\ saving' = <<Head(queue), "taken">> /\ queue' = Tail(queue)
        /\ UNCHANGED <<playersOf, playing, completed, extracted, completions, reports, db,
                       runtime>>
    BY DEF TakeMatch, matchVars
  <1>2. Taken = <<>> /\ Tried = <<>> /\ Taken' = <<Head(queue)>> /\ Tried' = <<>>
    <2>1. saving' # None /\ saving'[1] = Head(queue) /\ saving'[2] = "taken"
      BY <1>1 DEF None
    <2> QED
      BY <1>1, <2>1 DEF Taken, Tried
  <1>3. <<Head(queue)>> \o Tail(queue) = queue /\ <<>> \o queue = queue
    <2>1. queue \in Seq(Match)
      BY LedgerTyped
    <2> QED
      BY <1>1, <2>1, MovedOn, ConcatEmptySeq
  <1>4. Taken \o queue = queue /\ (Taken \o queue)' = queue
    BY <1>1, <1>2, <1>3
  <1>5. Waiting' = Waiting
    BY <1>1, <1>4 DEF Waiting
  <1> QED
    BY <1>1, <1>2, <1>5, LedgerUnmoved DEF Told

LEMMA PushCompletionIsUnseen ==
  ASSUME IInv, PushCompletion
  PROVE  UNCHANGED Ledger!vars
  <1>1. /\ saving # None /\ saving[2] # "taken" /\ saving' = None
        /\ completions' = Append(completions, saving)
        /\ UNCHANGED <<playersOf, playing, completed, extracted, queue, reports, db, runtime>>
    BY DEF PushCompletion, matchVars
  <1>2. Taken' = Taken /\ Tried = <<saving>> /\ Tried' = <<>>
    BY <1>1 DEF Taken, Tried
  <1>3. saving \in Reported /\ completions \in Seq(Reported)
    BY <1>1, LedgerTyped, TrailTyped DEF IInv, Reported, Verdicts
  <1>4. Append(completions, saving) = completions \o <<saving>>
    BY <1>3, AppendIsConcat
  <1>5. Append(completions, saving) \o <<>> = Append(completions, saving)
    <2>1. Append(completions, saving) \in Seq(Reported)
      BY <1>3, AppendProperties
    <2> QED
      BY <2>1, ConcatEmptySeq
  <1>6. Told' = Told
    BY <1>1, <1>2, <1>4, <1>5 DEF Told
  <1>7. Waiting' = Waiting
    BY <1>1, <1>2 DEF Waiting
  <1> QED
    BY <1>1, <1>6, <1>7, LedgerUnmoved

\* SaveMatch is the try, whatever became of its transaction.
LEMMA SaveTakenIsTry ==
  ASSUME IInv, SaveTaken
  PROVE  [Ledger!Next]_(Ledger!vars)
  <1>1. /\ saving # None /\ saving[2] = "taken"
        /\ UNCHANGED <<runtime, playersOf, playing, completed, extracted, queue, completions,
                       reports>>
    BY DEF SaveTaken, matchVars
  <1>2. PICK m \in Begun :
            \/ saving' = <<m, "failed">> /\ db'.committed = db.committed
            \/ /\ saving' \in {<<m, "saved">>, <<m, "failed">>}
               /\ playersOf[m] \subseteq db.committed.players
               /\ db'.committed = WithStats(WithMatch(db.committed, m), m, playersOf[m])
    BY SaveTakenEffect DEF IInv
  <1>3. PICK verdict \in {"saved", "failed"} : saving' = <<m, verdict>>
    BY <1>2
  <1>4. saving[1] = m
    <2>1. saving'[1] = saving[1]
      BY DEF SaveTaken
    <2> QED
      BY <1>3, <2>1
  <1>5. /\ db'.committed.matches \in {db.committed.matches, db.committed.matches \cup {m}}
        /\ verdict = "saved" => m \in db'.committed.matches
    <2>1. CASE saving' = <<m, "failed">> /\ db'.committed = db.committed
      BY <1>3, <2>1
    <2>2. CASE /\ playersOf[m] \subseteq db.committed.players
               /\ db'.committed = WithStats(WithMatch(db.committed, m), m, playersOf[m])
      <3>1. db.committed \in Rows
        BY DEF IInv, DataFits, ConnectionFits, Databases
      <3>2. db'.committed.matches = db.committed.matches \cup {m}
        BY <2>2, <3>1, WholeMatchAdded DEF IInv, DataFits
      <3> QED
        BY <3>2
    <2> QED
      BY <1>2, <2>1, <2>2
  <1>6. runtime # "Stopped"
    BY <1>1, PoolsEndFirst DEF IInv
  <1>7. Taken = <<m>> /\ Taken' = <<>> /\ Tried = <<>> /\ Tried' = <<<<m, verdict>>>>
    <2>1. saving' # None /\ saving'[2] # "taken"
      BY <1>3 DEF None
    <2> QED
      BY <1>1, <1>3, <1>4, <2>1 DEF Taken, Tried
  <1>8. Waiting # <<>> /\ Head(Waiting) = m /\ Waiting' = Tail(Waiting)
    <2>1. m \in Match
      BY DEF Begun
    <2>2. Waiting' = <<>> \o queue \o extracted \o completed
      BY <1>1, <1>7 DEF Waiting
    <2> QED
      BY <1>7, <2>1, <2>2, TakenIsFirst
  <1>9. Told' = Append(Told, <<m, verdict>>)
    <2>1. completions \in Seq(Reported) /\ <<m, verdict>> \in Reported
      BY LedgerTyped DEF Begun, Reported, Verdicts
    <2>2. completions \o <<>> = completions
      BY <2>1, ConcatEmptySeq
    <2>3. Append(completions, <<m, verdict>>) = completions \o <<<<m, verdict>>>>
      BY <2>1, AppendIsConcat
    <2> QED
      BY <1>1, <1>7, <2>2, <2>3 DEF Told
  <1>10. Begun' = Begun
    BY <1>1 DEF Begun
  <1>11. Ledger!Try(verdict)
    BY <1>1, <1>5, <1>6, <1>8, <1>9, <1>10 DEF Ledger!Try, Waiting, Told
  <1> QED
    BY <1>11 DEF Ledger!Next

\* A pool is emptied only where no match has begun.
LEMMA EmptyingIsUnseen ==
  ASSUME IInv, StartMatches \/ StopMatches
  PROVE  UNCHANGED Ledger!vars
  <1>1. /\ completions' = <<>> /\ queue' \in {queue, <<>>}
        /\ UNCHANGED <<playersOf, playing, completed, extracted, saving, reports, db, runtime>>
    BY DEF StartMatches, StopMatches, matchVars
  <1>2. Calls("StartMatches") \/ Calls("StopMatches")
    BY DEF StartMatches, StopMatches
  <1>3. NothingBegun
    <2>1. Calls("StartMatches") => UpFits(6)
      BY CallAt DEF IInv, UpCalls, UndoServer, Shutdown
    <2>2. Calls("StopMatches") => UndoFits(2)
      BY CallAt DEF IInv, UpCalls, UndoServer, Shutdown
    <2> QED
      BY <1>2, <2>1, <2>2 DEF UpFits, UndoFits
  <1>4. queue' = queue /\ completions' = completions
    BY <1>1, <1>3, NothingWaits
  <1>5. Taken' = Taken /\ Tried' = Tried
    BY <1>1 DEF Taken, Tried
  <1> QED
    BY <1>1, <1>4, <1>5, LedgerUnmoved DEF Waiting, Told

\* Steps of the database that have nothing to do with matches.
LEMMA DatabaseIsUnseen ==
  ASSUME IInv, StartDatabase \/ \E p \in Player : FindPlayer(p)
  PROVE  UNCHANGED Ledger!vars
  <1>1. UNCHANGED <<playersOf, playing, completed, extracted, queue, saving, completions, reports>>
    BY DEF StartDatabase, FindPlayer, poolVars, matchVars
  <1>2. ConnectionFits(db) /\ db \in Databases
    BY DEF IInv, DataFits, ConnectionFits
  <1>3. ASSUME NEW p \in Player, FindPlayer(p)
        PROVE  db'.committed.matches = db.committed.matches /\ runtime' = runtime
    <2>1. PICK o \in IF runtime = "On" THEN FindOrCreatePlayerByAccountId(db, p)
                     ELSE {Outcome(db, FALSE)} : db' = o.db
      BY <1>3 DEF FindPlayer
    <2>2. runtime' = runtime
      BY <1>3 DEF FindPlayer
    <2>3. CASE runtime = "On"
      BY <1>2, <2>1, <2>2, <2>3, FindPlayerOutcome
    <2>4. CASE runtime # "On"
      BY <2>1, <2>2, <2>4 DEF Outcome
    <2> QED
      BY <2>3, <2>4
  <1>4. ASSUME StartDatabase
        PROVE  /\ db'.committed.matches = db.committed.matches
               /\ runtime' = runtime \/ (runtime = "Off" /\ runtime' = "On")
    <2>1. runtime = "Off"
      <3>1. Calls("StartDatabase")
        BY <1>4 DEF StartDatabase
      <3>2. UpFits(1)
        BY <3>1, CallAt DEF IInv, UpCalls, UndoServer, Shutdown
      <3> QED
        BY <3>2 DEF UpFits
    <2>2. PICK c : c = Close(db)
      OBVIOUS
    <2>3. c \in Databases /\ c.committed = db.committed
      BY <1>2, <2>2 DEF Close, Databases
    <2>4. PICK e : e = [c EXCEPT !.open = TRUE]
      OBVIOUS
    <2>5. e.committed = db.committed
      BY <2>3, <2>4 DEF Databases
    <2>6. \A o \in Open(db) : o.db \in {c, e}
      <3>1. Open(db) = {Outcome(c, FALSE), Outcome(e, TRUE)}
        BY <2>2, <2>4, Zenon DEF Open
      <3> QED
        BY <3>1 DEF Outcome
    <2>7. db' \in {db, c, e} /\ (runtime' = runtime \/ runtime' = "On")
      BY <1>4, <2>6 DEF StartDatabase
    <2> QED
      BY <2>1, <2>3, <2>5, <2>7
  <1>5. db'.committed.matches = db.committed.matches /\ (runtime' = "Stopped" <=> runtime = "Stopped")
    BY <1>3, <1>4
  <1>6. Taken' = Taken /\ Tried' = Tried
    BY <1>1 DEF Taken, Tried
  <1> QED
    BY <1>1, <1>5, <1>6, LedgerUnmoved DEF Waiting, Told

\* The database is closed where no match is left on the way.
LEMMA StopDatabaseIsClose ==
  ASSUME IInv, StopDatabase
  PROVE  [Ledger!Next]_(Ledger!vars)
  <1>1. /\ Calls("StopDatabase") /\ db' = Close(db) /\ runtime' = "Stopped"
        /\ UNCHANGED <<playersOf, playing, completed, extracted, queue, saving, completions,
                       reports>>
    BY DEF StopDatabase, poolVars, matchVars
  <1>2. UndoFits(5) \/ DownFits(11)
    BY <1>1, CallAt DEF IInv, UpCalls, UndoServer, Shutdown
  <1>3. /\ playing = {} /\ Taken = <<>> /\ queue = <<>> /\ extracted = <<>> /\ completed = <<>>
        /\ completions = <<>> /\ Tried = <<>>
    <2>1. CASE UndoFits(5)
      BY <2>1, NothingWaits DEF UndoFits
    <2>2. CASE DownFits(11)
      BY <2>2 DEF DownFits, IInv, PoolsFit, Taken, Tried
    <2> QED
      BY <1>2, <2>1, <2>2
  <1>4. Waiting = <<>> /\ Told = <<>>
    BY <1>3 DEF Waiting, Told
  <1>5. Taken' = Taken /\ Tried' = Tried
    BY <1>1 DEF Taken, Tried
  <1>6. Waiting' = Waiting /\ Told' = Told /\ Begun' = Begun
    BY <1>1, <1>5 DEF Waiting, Told, Begun
  <1>7. db'.committed.matches = db.committed.matches
    BY <1>1 DEF Close, IInv, DataFits, ConnectionFits, Databases
  <1>8. Ledger!Close
    BY <1>1, <1>3, <1>4, <1>6, <1>7 DEF Ledger!Close, Waiting, Told
  <1> QED
    BY <1>8 DEF Ledger!Next

\* All other steps have nothing to do with matches.
LEMMA OthersAreUnseen ==
  ASSUME \/ Configure \/ LoadEntries \/ Validate \/ StartLogger \/ StartAccounts
         \/ StartTransport \/ StartTicks \/ Poll \/ Detach \/ DrainMatches \/ DrainAccounts
         \/ StopAccounts \/ ClearHandler \/ StopLogger \/ Join
         \/ (\E p \in Player : SubmitLogin(p) \/ AdmitLogin(p) \/ FindAccount(p))
         \/ UNCHANGED vars
  PROVE  UNCHANGED Ledger!vars
  <1>1. UNCHANGED <<playersOf, playing, completed, extracted, queue, saving, completions, reports,
                    db, runtime>>
    BY DEF Configure, LoadEntries, Validate, StartLogger, StartAccounts, StartTransport,
       StartTicks, Poll, Detach, DrainMatches, DrainAccounts, StopAccounts, ClearHandler,
       StopLogger, Join, JoinMatches, JoinAccounts, SubmitLogin, AdmitLogin, FindAccount,
       poolVars, matchVars, vars
  <1>2. Taken' = Taken /\ Tried' = Tried
    BY <1>1 DEF Taken, Tried
  <1> QED
    BY <1>1, <1>2, LedgerUnmoved DEF Waiting, Told

\* Every step is one of the ledger, or none that it sees.
LEMMA StepIsLedgers ==
  ASSUME IInv, [Next]_vars
  PROVE  [Ledger!Next]_(Ledger!vars)
  <1>1. ASSUME NEW p \in Player, SubmitLogin(p) \/ AdmitLogin(p) \/ FindAccount(p)
        PROVE  UNCHANGED Ledger!vars
    BY <1>1, OthersAreUnseen
  <1>2. ASSUME NEW p \in Player, FindPlayer(p) PROVE UNCHANGED Ledger!vars
    BY <1>2, DatabaseIsUnseen
  <1>3. CASE StartStep
    BY <1>3, OthersAreUnseen, DatabaseIsUnseen, EmptyingIsUnseen DEF StartStep
  <1>4. CASE MainStep \/ Join
    BY <1>3, <1>4, OthersAreUnseen, ExtractIsUnseen, EnqueueIsUnseen, ReportIsReport,
       StopServerIsEnd, EmptyingIsUnseen, StopDatabaseIsClose DEF MainStep
  <1>5. CASE ServerStep
    BY <1>1, <1>5, BeginMatchIsBegin, CompleteMatchIsEnd DEF ServerStep
  <1>6. CASE AccountWorkerStep
    BY <1>1, <1>2, <1>6 DEF AccountWorkerStep
  <1>7. CASE MatchWorkerStep
    BY <1>7, TakeMatchIsUnseen, SaveTakenIsTry, PushCompletionIsUnseen DEF MatchWorkerStep
  <1>8. CASE UNCHANGED vars
    BY <1>8, OthersAreUnseen
  <1> QED
    BY <1>4, <1>5, <1>6, <1>7, <1>8 DEF Next

\* Whatever fails, matches are tried once and in the order in which they ended, are
\* stored by their own try or never, and have their line in the log, in that order,
\* before the database is closed (GameServerApp::Run, MatchHistoryTaskProcessor).
THEOREM ServerImplementsLedger == Spec => ImplementsLedger
  <1>1. Init => Ledger!Init
    <2> SUFFICES ASSUME Init PROVE Ledger!Init
      OBVIOUS
    <2>1. Begun = {} /\ db.committed.matches = {}
      BY DEF Init, Begun, ClosedDatabase, NoRows
    <2>2. /\ Taken = <<>> /\ Tried = <<>> /\ queue = <<>> /\ extracted = <<>> /\ completed = <<>>
          /\ completions = <<>>
      BY DEF Init, Taken, Tried
    <2>3. <<>> \o <<>> = <<>>
      BY ConcatEmptySeq, EmptySeq
    <2>4. Taken \o queue \o extracted \o completed = <<>> /\ completions \o Tried = <<>>
      BY <2>2, <2>3
    <2> QED
      BY <2>1, <2>4 DEF Init, Ledger!Init
  <1>2. IInv /\ [Next]_vars => [Ledger!Next]_(Ledger!vars)
    BY StepIsLedgers
  <1> QED
    BY <1>1, <1>2, DataHolds, PTL DEF Spec, ImplementsLedger, Ledger!Spec

-----------------------------------------------------------------------------
\* The settings of the server.


\* The provers do not see that a literal is a string.
Literals == {"", "info", "trace", "debug", "warning", "error"}
Strings == STRING \cup Literals
AnyText == [form : {"number", "fraction", "word"}, n : Int, word : Strings]
CInts == -(IntMax + 1) .. IntMax

NetworkSettings ==
    [port : 1 .. ShortMax, workerThreadCount : Nat, recvContextCount : Nat]
SessionSettings == [initialRoomId : CInts, peerTimeout : Int, reconnectGracePeriod : Int]
ReliableUdpSettings == [maxPendingPacketCount : Int, maxResendCount : CInts, resendInterval : Int]
FaultSettings ==
    [enabled : Int, dropRate : Int, duplicateRate : Int, reorderRate : Int, minDelay : Int,
     maxDelay : Int, reorderDelay : Int, randomSeed : Int]
TickSettings == [tickInterval : Int, fixedDeltaSeconds : Int]
GameRuleSettings ==
    [initialPlayerHp : CInts, respawnDelaySeconds : Int, respawnInvincibilitySeconds : Int,
     hitFlashDurationSeconds : Int]
WeaponSettings ==
    [bulletDamage : CInts, bulletSpeed : Int, bulletLifeSeconds : Int, bulletRadius : Int,
     fireCooldownSeconds : Int]
DatabaseSettings ==
    [enabled : Int, connectionString : AnyText, connectionTimeoutSeconds : 1 .. IntMax]
DiagnosticsSettings ==
    [enableStatusLog : Int, statusLogInterval : Int, logLevel : Strings,
     asyncLogWorkerThreadCount : Int]

Settings ==
    [network : NetworkSettings, session : SessionSettings, reliableUdp : ReliableUdpSettings,
     udpFaultSimulation : FaultSettings, tick : TickSettings, gameRule : GameRuleSettings,
     weaponRule : WeaponSettings, database : DatabaseSettings, diagnostics : DiagnosticsSettings]

\* The widths of the types, of which the defaults are within.
LEMMA WidthsTyped ==
    /\ ShortMax \in Nat /\ ShortMax >= 9000
    /\ IntMax \in Nat /\ IntMax >= 10
    /\ LongMax \in Nat /\ Infinity \in Nat /\ TicksPerMs \in Nat /\ TicksPerMs > 0
    /\ LongMax >= 100 + 50 * TicksPerMs
BY WidthAssumption, DefaultAssumption

\* A conversion to a signed type gives a number of that type.
LEMMA WrappedFits ==
    ASSUME NEW n \in Int, NEW max \in Nat
    PROVE  Wrapped(n, max) \in -(max + 1) .. max
<1>1. \A a \in Int, b \in Nat : b > 0 => a % b \in 0 .. b - 1
  OBVIOUS
<1>2. 2 * (max + 1) \in Nat /\ 2 * (max + 1) > 0 /\ n + max + 1 \in Int
  OBVIOUS
<1>3. (n + max + 1) % (2 * (max + 1)) \in 0 .. 2 * (max + 1) - 1
  BY <1>1, <1>2
<1> QED
  BY <1>3 DEF Wrapped

\* It leaves a number of that type as it is.
LEMMA WrappedKeeps ==
    ASSUME NEW max \in Nat, NEW n \in 0 .. max
    PROVE  Wrapped(n, max) = n
<1>1. \A b \in Nat : b > 0 => \A a \in 0 .. b - 1 : a % b = a
  OBVIOUS
<1>2. 2 * (max + 1) \in Nat /\ 2 * (max + 1) > 0 /\ n + max + 1 \in 0 .. 2 * (max + 1) - 1
  OBVIOUS
<1>3. (n + max + 1) % (2 * (max + 1)) = n + max + 1
  BY <1>1, <1>2
<1> QED
  BY <1>3 DEF Wrapped

\* The defaults have the types of the settings.
LEMMA DefaultTyped == Default \in Settings
<1>1. Default.network \in NetworkSettings
  <2>1. 9000 \in 1 .. ShortMax
    BY WidthsTyped
  <2>2. Default.network = [port |-> 9000, workerThreadCount |-> 0, recvContextCount |-> 0]
    BY DEF Default
  <2> QED
    BY <2>1, <2>2 DEF NetworkSettings
<1>2. 1 \in CInts /\ 3 \in CInts /\ 10 \in CInts /\ 5 \in 1 .. IntMax
  BY WidthsTyped DEF CInts
<1>3. Default.session \in SessionSettings /\ Default.reliableUdp \in ReliableUdpSettings
  <2>1. /\ Default.session = [initialRoomId |-> 1, peerTimeout |-> 10, reconnectGracePeriod |-> 30]
        /\ Default.reliableUdp = [maxPendingPacketCount |-> 64, maxResendCount |-> 10,
                                  resendInterval |-> 100]
    BY DEF Default
  <2> QED
    BY <1>2, <2>1 DEF SessionSettings, ReliableUdpSettings
<1>4. Default.udpFaultSimulation \in FaultSettings
  BY DEF Default, FaultSettings
<1>5. Default.tick \in TickSettings
  <2>1. Default.tick = [tickInterval |-> ToDuration(50), fixedDeltaSeconds |-> 50]
    BY DEF Default
  <2>2. ToDuration(50) \in Int
    BY WidthsTyped, WrappedFits DEF ToDuration
  <2> QED
    BY <2>1, <2>2 DEF TickSettings
<1>6. Default.gameRule \in GameRuleSettings /\ Default.weaponRule \in WeaponSettings
  <2>1. /\ Default.gameRule = [initialPlayerHp |-> 3, respawnDelaySeconds |-> 3000,
                      respawnInvincibilitySeconds |-> 1200, hitFlashDurationSeconds |-> 150]
        /\ Default.weaponRule = [bulletDamage |-> 1, bulletSpeed |-> 600000,
                      bulletLifeSeconds |-> 1500, bulletRadius |-> 6000,
                      fireCooldownSeconds |-> 150]
    BY DEF Default
  <2> QED
    BY <1>2, <2>1 DEF GameRuleSettings, WeaponSettings
<1>7. Default.database \in DatabaseSettings
  <2> DEFINE w == Word("")
  <2>1. Default.database = [enabled |-> 0, connectionString |-> w, connectionTimeoutSeconds |-> 5]
    BY DEF Default
  <2>2. w \in AnyText
    BY DEF Word, AnyText, Strings, Literals
  <2> HIDE DEF w
  <2> QED
    BY <1>2, <2>1, <2>2 DEF DatabaseSettings
<1>8. Default.diagnostics \in DiagnosticsSettings
  <2>1. Default.diagnostics = [enableStatusLog |-> 1, statusLogInterval |-> 10,
                               logLevel |-> "info", asyncLogWorkerThreadCount |-> 1]
    BY DEF Default
  <2>2. "info" \in Strings
    BY DEF Strings, Literals
  <2> QED
    BY <2>1, <2>2 DEF DiagnosticsSettings
<1>9. Default = [network |-> Default.network, session |-> Default.session,
                 reliableUdp |-> Default.reliableUdp,
                 udpFaultSimulation |-> Default.udpFaultSimulation, tick |-> Default.tick,
                 gameRule |-> Default.gameRule, weaponRule |-> Default.weaponRule,
                 database |-> Default.database, diagnostics |-> Default.diagnostics]
  BY DEF Default
<1> QED
  BY <1>1, <1>3, <1>4, <1>5, <1>6, <1>7, <1>8, <1>9 DEF Settings

\* What a line or a row may say can be kept as a setting.
LEMMA TextsAreTexts == Text \subseteq AnyText
BY DEF Text, AnyText, Strings

\* A setting keeps its type if what was parsed has it.
LEMMA KeptIsTyped ==
    ASSUME NEW S, NEW values, values \subseteq S, NEW d \in S
    PROVE  Kept(values, d) \in S
<1>1. CASE values = {}
  BY <1>1 DEF Kept
<1>2. CASE values # {}
  <2>1. (CHOOSE v \in values : TRUE) \in values
    BY <1>2
  <2> QED
    BY <1>2, <2>1 DEF Kept
<1> QED
  BY <1>1, <1>2

\* What the parsers return, whatever the text.
LEMMA ParsersTyped ==
    ASSUME NEW text \in Text
    PROVE  /\ TryParseUnsigned(text) \subseteq Nat
           /\ TryParseSigned(text) \subseteq Int
           /\ TryParseMilliseconds(text) \subseteq Int
           /\ \A n \in Int : ToCount(n) \in Int /\ ToInt(n) \in CInts /\ ToDuration(n) \in Int
           /\ TryParseFloat(text) \subseteq Int
           /\ TryParseBool(text) \subseteq Int
           /\ TryParseLogLevel(text) \subseteq Strings
<1>1. text.n \in Int /\ text.form \in {"number", "fraction", "word"} /\ text.word \in STRING
  BY DEF Text
<1>2. TryParseUnsigned(text) \subseteq Nat
  BY <1>1 DEF TryParseUnsigned
<1>3. TryParseSigned(text) \subseteq Int
  BY <1>1 DEF TryParseSigned
<1>4. TryParseMilliseconds(text) \subseteq Int
  BY <1>2 DEF TryParseMilliseconds
<1>5. \A n \in Int : ToCount(n) \in Int /\ ToInt(n) \in CInts /\ ToDuration(n) \in Int
  <2> TAKE n \in Int
  <2>1. n * TicksPerMs \in Int
    BY WidthsTyped
  <2>2. ToCount(n) \in -(LongMax + 1) .. LongMax
    BY WrappedFits, WidthsTyped DEF ToCount
  <2>3. ToDuration(n) \in -(LongMax + 1) .. LongMax
    BY <2>1, WrappedFits, WidthsTyped DEF ToDuration
  <2>4. ToInt(n) \in CInts
    BY WrappedFits, WidthsTyped DEF ToInt, CInts
  <2> QED
    BY <2>2, <2>3, <2>4
<1>6. TryParseFloat(text) \subseteq Int
  BY <1>1, WidthsTyped DEF TryParseFloat
<1>7. TryParseBool(text) \subseteq Int
  BY <1>1 DEF TryParseBool
<1>8. TryParseLogLevel(text) \subseteq Strings
  <2>1. {"trace", "debug", "info", "warning", "error"} \subseteq Strings
    BY DEF Strings, Literals
  <2>2. TryParseLogLevel(text) \subseteq {"trace", "debug", "info", "warning", "error"}
    BY Zenon DEF TryParseLogLevel
  <2> QED
    BY <2>1, <2>2
<1> QED
  BY <1>2, <1>3, <1>4, <1>5, <1>6, <1>7, <1>8

\* A section put in the place of another keeps the types, and the other sections.
LEMMA SectionReplaced ==
    ASSUME NEW c \in Settings
    PROVE  /\ \A s \in NetworkSettings : [c EXCEPT !.network = s] \in Settings
           /\ \A s \in SessionSettings : [c EXCEPT !.session = s] \in Settings
           /\ \A s \in ReliableUdpSettings : [c EXCEPT !.reliableUdp = s] \in Settings
           /\ \A s \in FaultSettings : [c EXCEPT !.udpFaultSimulation = s] \in Settings
           /\ \A s \in TickSettings : [c EXCEPT !.tick = s] \in Settings
           /\ \A s \in GameRuleSettings : [c EXCEPT !.gameRule = s] \in Settings
           /\ \A s \in WeaponSettings : [c EXCEPT !.weaponRule = s] \in Settings
           /\ \A s \in DatabaseSettings : [c EXCEPT !.database = s] \in Settings
           /\ \A s \in DiagnosticsSettings : [c EXCEPT !.diagnostics = s] \in Settings
BY DEF Settings

\* A value of [Network] changes that section, within its types.
LEMMA NetworkValueTyped ==
    ASSUME NEW c \in Settings, NEW key, NEW text \in Text
    PROVE  \E s \in NetworkSettings :
               ApplyNetworkValue(c, key, text) = [c EXCEPT !.network = s]
<1> DEFINE ports == {n \in Positive(TryParseUnsigned(text)) : n <= ShortMax}
           counts == TryParseUnsigned(text)
<1>. PICK s \in NetworkSettings : s = c.network
  BY DEF Settings
<1>1. /\ s.port \in 1 .. ShortMax /\ s.workerThreadCount \in Nat /\ s.recvContextCount \in Nat
  BY DEF NetworkSettings
<1>2. ports \subseteq 1 .. ShortMax /\ counts \subseteq Nat
  BY ParsersTyped, WidthsTyped DEF Positive
<1> HIDE DEF ports, counts
<1>3. Kept(ports, s.port) \in 1 .. ShortMax
  BY <1>1, <1>2, KeptIsTyped, Zenon
<1>4. Kept(counts, s.workerThreadCount) \in Nat /\ Kept(counts, s.recvContextCount) \in Nat
  BY <1>1, <1>2, KeptIsTyped, Zenon
<1>5. /\ \A v \in 1 .. ShortMax : [s EXCEPT !.port = v] \in NetworkSettings
      /\ \A v \in Nat : /\ [s EXCEPT !.workerThreadCount = v] \in NetworkSettings
                        /\ [s EXCEPT !.recvContextCount = v] \in NetworkSettings
  BY DEF NetworkSettings
<1>6. ApplyNetworkValue(c, key, text) \in
        {[c EXCEPT !.network = [s EXCEPT !.port = Kept(ports, s.port)]],
         [c EXCEPT !.network = [s EXCEPT !.workerThreadCount = Kept(counts, s.workerThreadCount)]],
         [c EXCEPT !.network = [s EXCEPT !.recvContextCount = Kept(counts, s.recvContextCount)]],
         c}
  BY DEF ApplyNetworkValue, Settings, NetworkSettings, ports, counts
<1>7. c = [c EXCEPT !.network = s]
  BY DEF Settings
<1> QED
  BY <1>3, <1>4, <1>5, <1>6, <1>7

\* A value of [Session] changes that section, within its types.
LEMMA SessionValueTyped ==
    ASSUME NEW c \in Settings, NEW key, NEW text \in Text
    PROVE  \E s \in SessionSettings :
               ApplySessionValue(c, key, text) = [c EXCEPT !.session = s]
<1> DEFINE ids == {ToInt(n) : n \in Positive(TryParseSigned(text))}
           seconds == {ToCount(n) : n \in Positive(TryParseUnsigned(text))}
<1>. PICK s \in SessionSettings : s = c.session
  BY DEF Settings
<1>1. s.initialRoomId \in CInts /\ s.peerTimeout \in Int /\ s.reconnectGracePeriod \in Int
  BY DEF SessionSettings
<1>2. ids \subseteq CInts /\ seconds \subseteq Int
  BY ParsersTyped DEF Positive
<1> HIDE DEF ids, seconds
<1>3. Kept(ids, s.initialRoomId) \in CInts
  BY <1>1, <1>2, KeptIsTyped, Zenon
<1>4. Kept(seconds, s.peerTimeout) \in Int /\ Kept(seconds, s.reconnectGracePeriod) \in Int
  BY <1>1, <1>2, KeptIsTyped, Zenon
<1>5. /\ \A v \in CInts : [s EXCEPT !.initialRoomId = v] \in SessionSettings
      /\ \A v \in Int : /\ [s EXCEPT !.peerTimeout = v] \in SessionSettings
                        /\ [s EXCEPT !.reconnectGracePeriod = v] \in SessionSettings
  BY DEF SessionSettings
<1>6. ApplySessionValue(c, key, text) \in
        {[c EXCEPT !.session = [s EXCEPT !.initialRoomId = Kept(ids, s.initialRoomId)]],
         [c EXCEPT !.session = [s EXCEPT !.peerTimeout = Kept(seconds, s.peerTimeout)]],
         [c EXCEPT !.session =
            [s EXCEPT !.reconnectGracePeriod = Kept(seconds, s.reconnectGracePeriod)]],
         c}
  BY DEF ApplySessionValue, Settings, SessionSettings, ids, seconds
<1>7. c = [c EXCEPT !.session = s]
  BY DEF Settings
<1> QED
  BY <1>3, <1>4, <1>5, <1>6, <1>7
\* A value of [ReliableUdp] changes that section, within its types.
LEMMA ReliableUdpValueTyped ==
    ASSUME NEW c \in Settings, NEW key, NEW text \in Text
    PROVE  \E s \in ReliableUdpSettings :
               ApplyReliableUdpValue(c, key, text) = [c EXCEPT !.reliableUdp = s]
<1> DEFINE counts == Positive(TryParseUnsigned(text))
           resends == {ToInt(n) : n \in NonNegative(TryParseSigned(text))}
           intervals == Positive(TryParseMilliseconds(text))
<1>. PICK s \in ReliableUdpSettings : s = c.reliableUdp
  BY DEF Settings
<1>1. /\ s.maxPendingPacketCount \in Int
      /\ s.maxResendCount \in CInts
      /\ s.resendInterval \in Int
  BY DEF ReliableUdpSettings
<1>2. counts \subseteq Int /\ resends \subseteq CInts /\ intervals \subseteq Int
  BY ParsersTyped DEF Positive, NonNegative, Rates
<1> HIDE DEF counts, resends, intervals
<1>3. /\ Kept(counts, s.maxPendingPacketCount) \in Int
      /\ Kept(resends, s.maxResendCount) \in CInts
      /\ Kept(intervals, s.resendInterval) \in Int
  BY <1>1, <1>2, KeptIsTyped, Zenon
<1>4. /\ \A v \in Int : /\ [s EXCEPT !.maxPendingPacketCount = v] \in ReliableUdpSettings
                        /\ [s EXCEPT !.resendInterval = v] \in ReliableUdpSettings
      /\ \A v \in CInts : /\ [s EXCEPT !.maxResendCount = v] \in ReliableUdpSettings
  BY DEF ReliableUdpSettings
<1>5. ApplyReliableUdpValue(c, key, text) \in
        {[c EXCEPT !.reliableUdp =
            [s EXCEPT !.maxPendingPacketCount = Kept(counts, s.maxPendingPacketCount)]],
         [c EXCEPT !.reliableUdp =
            [s EXCEPT !.maxResendCount = Kept(resends, s.maxResendCount)]],
         [c EXCEPT !.reliableUdp =
            [s EXCEPT !.resendInterval = Kept(intervals, s.resendInterval)]],
         c}
  BY DEF ApplyReliableUdpValue, Settings, ReliableUdpSettings, counts, resends, intervals
<1>6. c = [c EXCEPT !.reliableUdp = s]
  BY DEF Settings
<1> QED
  BY <1>3, <1>4, <1>5, <1>6

\* A value of [UdpFaultSimulation] changes that section, within its types.
LEMMA UdpFaultSimulationValueTyped ==
    ASSUME NEW c \in Settings, NEW key, NEW text \in Text
    PROVE  \E s \in FaultSettings :
               ApplyUdpFaultSimulationValue(c, key, text) = [c EXCEPT !.udpFaultSimulation = s]
<1> DEFINE flags == TryParseBool(text)
           rates == Rates(TryParseFloat(text))
           delays == TryParseMilliseconds(text)
           seeds == {n \in TryParseUnsigned(text) : n <= UIntMax}
<1>. PICK s \in FaultSettings : s = c.udpFaultSimulation
  BY DEF Settings
<1>1. /\ s.enabled \in Int
      /\ s.dropRate \in Int
      /\ s.duplicateRate \in Int
      /\ s.reorderRate \in Int
      /\ s.minDelay \in Int
      /\ s.maxDelay \in Int
      /\ s.reorderDelay \in Int
      /\ s.randomSeed \in Int
  BY DEF FaultSettings
<1>2. flags \subseteq Int /\ rates \subseteq Int /\ delays \subseteq Int /\ seeds \subseteq Int
  BY ParsersTyped DEF Positive, NonNegative, Rates
<1> HIDE DEF flags, rates, delays, seeds
<1>3. /\ Kept(flags, s.enabled) \in Int
      /\ Kept(rates, s.dropRate) \in Int
      /\ Kept(rates, s.duplicateRate) \in Int
      /\ Kept(rates, s.reorderRate) \in Int
      /\ Kept(delays, s.minDelay) \in Int
      /\ Kept(delays, s.maxDelay) \in Int
      /\ Kept(delays, s.reorderDelay) \in Int
      /\ Kept(seeds, s.randomSeed) \in Int
  BY <1>1, <1>2, KeptIsTyped, Zenon
<1>4. /\ \A v \in Int : /\ [s EXCEPT !.enabled = v] \in FaultSettings
                        /\ [s EXCEPT !.dropRate = v] \in FaultSettings
                        /\ [s EXCEPT !.duplicateRate = v] \in FaultSettings
                        /\ [s EXCEPT !.reorderRate = v] \in FaultSettings
                        /\ [s EXCEPT !.minDelay = v] \in FaultSettings
                        /\ [s EXCEPT !.maxDelay = v] \in FaultSettings
                        /\ [s EXCEPT !.reorderDelay = v] \in FaultSettings
                        /\ [s EXCEPT !.randomSeed = v] \in FaultSettings
  BY DEF FaultSettings
<1>5. ApplyUdpFaultSimulationValue(c, key, text) \in
        {[c EXCEPT !.udpFaultSimulation = [s EXCEPT !.enabled = Kept(flags, s.enabled)]],
         [c EXCEPT !.udpFaultSimulation = [s EXCEPT !.dropRate = Kept(rates, s.dropRate)]],
         [c EXCEPT !.udpFaultSimulation =
            [s EXCEPT !.duplicateRate = Kept(rates, s.duplicateRate)]],
         [c EXCEPT !.udpFaultSimulation =
            [s EXCEPT !.reorderRate = Kept(rates, s.reorderRate)]],
         [c EXCEPT !.udpFaultSimulation = [s EXCEPT !.minDelay = Kept(delays, s.minDelay)]],
         [c EXCEPT !.udpFaultSimulation = [s EXCEPT !.maxDelay = Kept(delays, s.maxDelay)]],
         [c EXCEPT !.udpFaultSimulation =
            [s EXCEPT !.reorderDelay = Kept(delays, s.reorderDelay)]],
         [c EXCEPT !.udpFaultSimulation =
            [s EXCEPT !.randomSeed = Kept(seeds, s.randomSeed)]],
         c}
  BY DEF ApplyUdpFaultSimulationValue, Settings, FaultSettings, flags, rates, delays, seeds
<1>6. c = [c EXCEPT !.udpFaultSimulation = s]
  BY DEF Settings
<1> QED
  BY <1>3, <1>4, <1>5, <1>6

\* A value of [Tick] changes that section, within its types.
LEMMA TickValueTyped ==
    ASSUME NEW c \in Settings, NEW key, NEW text \in Text
    PROVE  \E s \in TickSettings :
               ApplyTickValue(c, key, text) = [c EXCEPT !.tick = s]
<1> DEFINE intervals == {ToDuration(ToCount(n)) : n \in Positive(TryParseUnsigned(text))}
           seconds == Positive(TryParseFloat(text))
<1>. PICK s \in TickSettings : s = c.tick
  BY DEF Settings
<1>1. /\ s.tickInterval \in Int
      /\ s.fixedDeltaSeconds \in Int
  BY DEF TickSettings
<1>2. intervals \subseteq Int /\ seconds \subseteq Int
  BY ParsersTyped DEF Positive, NonNegative, Rates
<1> HIDE DEF intervals, seconds
<1>3. /\ Kept(intervals, s.tickInterval) \in Int
      /\ Kept(seconds, s.fixedDeltaSeconds) \in Int
  BY <1>1, <1>2, KeptIsTyped, Zenon
<1>4. /\ \A v \in Int : /\ [s EXCEPT !.tickInterval = v] \in TickSettings
                        /\ [s EXCEPT !.fixedDeltaSeconds = v] \in TickSettings
  BY DEF TickSettings
<1>5. ApplyTickValue(c, key, text) \in
        {[c EXCEPT !.tick = [s EXCEPT !.tickInterval = Kept(intervals, s.tickInterval)]],
         [c EXCEPT !.tick =
            [s EXCEPT !.fixedDeltaSeconds = Kept(seconds, s.fixedDeltaSeconds)]],
         c}
  BY DEF ApplyTickValue, Settings, TickSettings, intervals, seconds
<1>6. c = [c EXCEPT !.tick = s]
  BY DEF Settings
<1> QED
  BY <1>3, <1>4, <1>5, <1>6

\* A value of [GameRule] changes that section, within its types.
LEMMA GameRuleValueTyped ==
    ASSUME NEW c \in Settings, NEW key, NEW text \in Text
    PROVE  \E s \in GameRuleSettings :
               ApplyGameRuleValue(c, key, text) = [c EXCEPT !.gameRule = s]
<1> DEFINE points == {ToInt(n) : n \in Positive(TryParseSigned(text))}
           seconds == NonNegative(TryParseFloat(text))
<1>. PICK s \in GameRuleSettings : s = c.gameRule
  BY DEF Settings
<1>1. /\ s.initialPlayerHp \in CInts
      /\ s.respawnDelaySeconds \in Int
      /\ s.respawnInvincibilitySeconds \in Int
      /\ s.hitFlashDurationSeconds \in Int
  BY DEF GameRuleSettings
<1>2. points \subseteq CInts /\ seconds \subseteq Int
  BY ParsersTyped DEF Positive, NonNegative, Rates
<1> HIDE DEF points, seconds
<1>3. /\ Kept(points, s.initialPlayerHp) \in CInts
      /\ Kept(seconds, s.respawnDelaySeconds) \in Int
      /\ Kept(seconds, s.respawnInvincibilitySeconds) \in Int
      /\ Kept(seconds, s.hitFlashDurationSeconds) \in Int
  BY <1>1, <1>2, KeptIsTyped, Zenon
<1>4. /\ \A v \in CInts : /\ [s EXCEPT !.initialPlayerHp = v] \in GameRuleSettings
      /\ \A v \in Int : /\ [s EXCEPT !.respawnDelaySeconds = v] \in GameRuleSettings
                        /\ [s EXCEPT !.respawnInvincibilitySeconds = v] \in GameRuleSettings
                        /\ [s EXCEPT !.hitFlashDurationSeconds = v] \in GameRuleSettings
  BY DEF GameRuleSettings
<1>5. ApplyGameRuleValue(c, key, text) \in
        {[c EXCEPT !.gameRule =
            [s EXCEPT !.initialPlayerHp = Kept(points, s.initialPlayerHp)]],
         [c EXCEPT !.gameRule =
            [s EXCEPT !.respawnDelaySeconds = Kept(seconds, s.respawnDelaySeconds)]],
         [c EXCEPT !.gameRule =
            [s EXCEPT !.respawnInvincibilitySeconds = Kept(seconds, s.respawnInvincibilitySeconds)]],
         [c EXCEPT !.gameRule =
            [s EXCEPT !.hitFlashDurationSeconds = Kept(seconds, s.hitFlashDurationSeconds)]],
         c}
  BY DEF ApplyGameRuleValue, Settings, GameRuleSettings, points, seconds
<1>6. c = [c EXCEPT !.gameRule = s]
  BY DEF Settings
<1> QED
  BY <1>3, <1>4, <1>5, <1>6

\* A value of [Weapon.Basic] changes that section, within its types.
LEMMA BasicWeaponRuleValueTyped ==
    ASSUME NEW c \in Settings, NEW key, NEW text \in Text
    PROVE  \E s \in WeaponSettings :
               ApplyBasicWeaponRuleValue(c, key, text) = [c EXCEPT !.weaponRule = s]
<1> DEFINE damages == {ToInt(n) : n \in Positive(TryParseSigned(text))}
           positive == Positive(TryParseFloat(text))
           seconds == NonNegative(TryParseFloat(text))
<1>. PICK s \in WeaponSettings : s = c.weaponRule
  BY DEF Settings
<1>1. /\ s.bulletDamage \in CInts
      /\ s.bulletSpeed \in Int
      /\ s.bulletLifeSeconds \in Int
      /\ s.bulletRadius \in Int
      /\ s.fireCooldownSeconds \in Int
  BY DEF WeaponSettings
<1>2. damages \subseteq CInts /\ positive \subseteq Int /\ seconds \subseteq Int
  BY ParsersTyped DEF Positive, NonNegative, Rates
<1> HIDE DEF damages, positive, seconds
<1>3. /\ Kept(damages, s.bulletDamage) \in CInts
      /\ Kept(positive, s.bulletSpeed) \in Int
      /\ Kept(positive, s.bulletLifeSeconds) \in Int
      /\ Kept(positive, s.bulletRadius) \in Int
      /\ Kept(seconds, s.fireCooldownSeconds) \in Int
  BY <1>1, <1>2, KeptIsTyped, Zenon
<1>4. /\ \A v \in CInts : /\ [s EXCEPT !.bulletDamage = v] \in WeaponSettings
      /\ \A v \in Int : /\ [s EXCEPT !.bulletSpeed = v] \in WeaponSettings
                        /\ [s EXCEPT !.bulletLifeSeconds = v] \in WeaponSettings
                        /\ [s EXCEPT !.bulletRadius = v] \in WeaponSettings
                        /\ [s EXCEPT !.fireCooldownSeconds = v] \in WeaponSettings
  BY DEF WeaponSettings
<1>5. ApplyBasicWeaponRuleValue(c, key, text) \in
        {[c EXCEPT !.weaponRule = [s EXCEPT !.bulletDamage = Kept(damages, s.bulletDamage)]],
         [c EXCEPT !.weaponRule = [s EXCEPT !.bulletSpeed = Kept(positive, s.bulletSpeed)]],
         [c EXCEPT !.weaponRule =
            [s EXCEPT !.bulletLifeSeconds = Kept(positive, s.bulletLifeSeconds)]],
         [c EXCEPT !.weaponRule = [s EXCEPT !.bulletRadius = Kept(positive, s.bulletRadius)]],
         [c EXCEPT !.weaponRule =
            [s EXCEPT !.fireCooldownSeconds = Kept(seconds, s.fireCooldownSeconds)]],
         c}
  BY DEF ApplyBasicWeaponRuleValue, Settings, WeaponSettings, damages, positive, seconds
<1>6. c = [c EXCEPT !.weaponRule = s]
  BY DEF Settings
<1> QED
  BY <1>3, <1>4, <1>5, <1>6

\* A value of [Diagnostics] changes that section, within its types.
LEMMA DiagnosticsValueTyped ==
    ASSUME NEW c \in Settings, NEW key, NEW text \in Text
    PROVE  \E s \in DiagnosticsSettings :
               ApplyDiagnosticsValue(c, key, text) = [c EXCEPT !.diagnostics = s]
<1> DEFINE flags == TryParseBool(text)
           seconds == {ToCount(n) : n \in Positive(TryParseUnsigned(text))}
           levels == TryParseLogLevel(text)
           counts == Positive(TryParseUnsigned(text))
<1>. PICK s \in DiagnosticsSettings : s = c.diagnostics
  BY DEF Settings
<1>1. /\ s.enableStatusLog \in Int
      /\ s.statusLogInterval \in Int
      /\ s.logLevel \in Strings
      /\ s.asyncLogWorkerThreadCount \in Int
  BY DEF DiagnosticsSettings
<1>2. flags \subseteq Int /\ seconds \subseteq Int /\ levels \subseteq Strings
      /\ counts \subseteq Int
  BY ParsersTyped DEF Positive, NonNegative, Rates
<1> HIDE DEF flags, seconds, levels, counts
<1>3. /\ Kept(flags, s.enableStatusLog) \in Int
      /\ Kept(seconds, s.statusLogInterval) \in Int
      /\ Kept(levels, s.logLevel) \in Strings
      /\ Kept(counts, s.asyncLogWorkerThreadCount) \in Int
  BY <1>1, <1>2, KeptIsTyped, Zenon
<1>4. /\ \A v \in Int : /\ [s EXCEPT !.enableStatusLog = v] \in DiagnosticsSettings
                        /\ [s EXCEPT !.statusLogInterval = v] \in DiagnosticsSettings
                        /\ [s EXCEPT !.asyncLogWorkerThreadCount = v] \in DiagnosticsSettings
      /\ \A v \in Strings : /\ [s EXCEPT !.logLevel = v] \in DiagnosticsSettings
  BY DEF DiagnosticsSettings
<1>5. ApplyDiagnosticsValue(c, key, text) \in
        {[c EXCEPT !.diagnostics =
            [s EXCEPT !.enableStatusLog = Kept(flags, s.enableStatusLog)]],
         [c EXCEPT !.diagnostics =
            [s EXCEPT !.statusLogInterval = Kept(seconds, s.statusLogInterval)]],
         [c EXCEPT !.diagnostics = [s EXCEPT !.logLevel = Kept(levels, s.logLevel)]],
         [c EXCEPT !.diagnostics =
            [s EXCEPT !.asyncLogWorkerThreadCount = Kept(counts, s.asyncLogWorkerThreadCount)]],
         c}
  BY DEF ApplyDiagnosticsValue, Settings, DiagnosticsSettings, flags, seconds, levels, counts
<1>6. c = [c EXCEPT !.diagnostics = s]
  BY DEF Settings
<1> QED
  BY <1>3, <1>4, <1>5, <1>6

\* A value of [Database] changes that section, within its types.
LEMMA DatabaseValueTyped ==
    ASSUME NEW c \in Settings, NEW key, NEW text \in Text
    PROVE  \E s \in DatabaseSettings :
               ApplyDatabaseValue(c, key, text) = [c EXCEPT !.database = s]
<1> DEFINE flags == TryParseBool(text)
           seconds == {n \in Positive(TryParseUnsigned(text)) : n <= IntMax}
<1>. PICK s \in DatabaseSettings : s = c.database
  BY DEF Settings
<1>1. s.enabled \in Int /\ s.connectionTimeoutSeconds \in 1 .. IntMax
  BY DEF DatabaseSettings
<1>2. flags \subseteq Int /\ seconds \subseteq 1 .. IntMax /\ text \in AnyText
  BY ParsersTyped, WidthsTyped, TextsAreTexts DEF Positive
<1> HIDE DEF flags, seconds
<1>3. /\ Kept(flags, s.enabled) \in Int
      /\ Kept(seconds, s.connectionTimeoutSeconds) \in 1 .. IntMax
  BY <1>1, <1>2, KeptIsTyped, Zenon
<1>4. /\ \A v \in Int : [s EXCEPT !.enabled = v] \in DatabaseSettings
      /\ \A v \in AnyText : [s EXCEPT !.connectionString = v] \in DatabaseSettings
      /\ \A v \in 1 .. IntMax : [s EXCEPT !.connectionTimeoutSeconds = v] \in DatabaseSettings
  BY DEF DatabaseSettings
<1>5. ApplyDatabaseValue(c, key, text) \in
        {[c EXCEPT !.database = [s EXCEPT !.enabled = Kept(flags, s.enabled)]],
         [c EXCEPT !.database = [s EXCEPT !.connectionString = text]],
         [c EXCEPT !.database = [s EXCEPT !.connectionTimeoutSeconds =
                                    Kept(seconds, s.connectionTimeoutSeconds)]],
         c}
  BY DEF ApplyDatabaseValue, Settings, DatabaseSettings, flags, seconds
<1>6. c = [c EXCEPT !.database = s]
  BY DEF Settings
<1> QED
  BY <1>2, <1>3, <1>4, <1>5, <1>6

\* A value of any section keeps the types; only a value of [Network] changes
\* how the server is reached, and only one of [Database] how it finds its database.
LEMMA ValueKeepsTypes ==
    ASSUME NEW c \in Settings, NEW section, NEW key, NEW text \in Text
    PROVE  /\ ApplyConfigValue(c, section, key, text) \in Settings
           /\ section # "network" =>
                ApplyConfigValue(c, section, key, text).network = c.network
           /\ section # "database" =>
                ApplyConfigValue(c, section, key, text).database = c.database
<1> DEFINE r == ApplyConfigValue(c, section, key, text)
           Fits == /\ r \in Settings
                   /\ section # "network" => r.network = c.network
                   /\ section # "database" => r.database = c.database
<1>1. CASE section = "network"
  <2>1. PICK s \in NetworkSettings : r = [c EXCEPT !.network = s]
    BY <1>1, NetworkValueTyped DEF ApplyConfigValue
  <2>2. [c EXCEPT !.network = s] \in Settings /\ [c EXCEPT !.network = s].database = c.database
    BY SectionReplaced DEF Settings
  <2> QED
    BY <1>1, <2>1, <2>2
<1>2. CASE section = "database"
  <2>1. PICK s \in DatabaseSettings : r = [c EXCEPT !.database = s]
    BY <1>2, DatabaseValueTyped DEF ApplyConfigValue
  <2>2. [c EXCEPT !.database = s] \in Settings /\ [c EXCEPT !.database = s].network = c.network
    BY SectionReplaced DEF Settings
  <2> QED
    BY <1>2, <2>1, <2>2
<1>3. CASE section = "session"
  <2>1. PICK s \in SessionSettings : r = [c EXCEPT !.session = s]
    BY <1>3, SessionValueTyped DEF ApplyConfigValue
  <2>2. [c EXCEPT !.session = s] \in Settings
    BY SectionReplaced
  <2> QED
    BY <2>1, <2>2 DEF Settings
<1>4. CASE section = "reliableudp"
  <2>1. PICK s \in ReliableUdpSettings : r = [c EXCEPT !.reliableUdp = s]
    BY <1>4, ReliableUdpValueTyped DEF ApplyConfigValue
  <2>2. [c EXCEPT !.reliableUdp = s] \in Settings
    BY SectionReplaced
  <2> QED
    BY <2>1, <2>2 DEF Settings
<1>5. CASE section = "udpfaultsimulation"
  <2>1. PICK s \in FaultSettings : r = [c EXCEPT !.udpFaultSimulation = s]
    BY <1>5, UdpFaultSimulationValueTyped DEF ApplyConfigValue
  <2>2. [c EXCEPT !.udpFaultSimulation = s] \in Settings
    BY SectionReplaced
  <2> QED
    BY <2>1, <2>2 DEF Settings
<1>6. CASE section = "tick"
  <2>1. PICK s \in TickSettings : r = [c EXCEPT !.tick = s]
    BY <1>6, TickValueTyped DEF ApplyConfigValue
  <2>2. [c EXCEPT !.tick = s] \in Settings
    BY SectionReplaced
  <2> QED
    BY <2>1, <2>2 DEF Settings
<1>7. CASE section = "gamerule"
  <2>1. PICK s \in GameRuleSettings : r = [c EXCEPT !.gameRule = s]
    BY <1>7, GameRuleValueTyped DEF ApplyConfigValue
  <2>2. [c EXCEPT !.gameRule = s] \in Settings
    BY SectionReplaced
  <2> QED
    BY <2>1, <2>2 DEF Settings
<1>8. CASE section = "weapon.basic"
  <2>1. PICK s \in WeaponSettings : r = [c EXCEPT !.weaponRule = s]
    BY <1>8, BasicWeaponRuleValueTyped DEF ApplyConfigValue
  <2>2. [c EXCEPT !.weaponRule = s] \in Settings
    BY SectionReplaced
  <2> QED
    BY <2>1, <2>2 DEF Settings
<1>9. CASE section = "diagnostics"
  <2>1. PICK s \in DiagnosticsSettings : r = [c EXCEPT !.diagnostics = s]
    BY <1>9, DiagnosticsValueTyped DEF ApplyConfigValue
  <2>2. [c EXCEPT !.diagnostics = s] \in Settings
    BY SectionReplaced
  <2> QED
    BY <2>1, <2>2 DEF Settings
<1>10. CASE section \notin {"network", "session", "reliableudp", "udpfaultsimulation", "tick",
                            "gamerule", "weapon.basic", "database", "diagnostics"}
  BY <1>10 DEF ApplyConfigValue
<1> QED
  BY <1>1, <1>2, <1>3, <1>4, <1>5, <1>6, <1>7, <1>8, <1>9, <1>10

\* The order of the natural numbers is well founded.
LEMMA LessIsWellFounded ==
    \E R : IsWellFoundedOn(R, Nat) /\ \A x, y \in Nat : <<x, y>> \in R <=> x < y
<1>1. IsWellFoundedOn(OpToRel(<, Nat), Nat)
  BY NatLessThanWellFounded, Zenon
<1>2. \A x, y \in Nat : <<x, y>> \in OpToRel(<, Nat) <=> x < y
  BY Zenon DEF OpToRel
<1> QED
  BY <1>1, <1>2

\* A set of naturals has a member below which it has none.
LEMMA MinimalNatural ==
    ASSUME NEW R, IsWellFoundedOn(R, Nat), NEW T, T \subseteq Nat, T # {}
    PROVE  \E x \in T : \A y \in T : ~ (<<y, x>> \in R)
BY WFMin, Zenon

\* A set of naturals that is not empty has a least member.
LEMMA LeastNatural ==
    ASSUME NEW T, T \subseteq Nat, T # {}
    PROVE  \E m \in T : \A n \in T : m <= n
<1>1. PICK R : IsWellFoundedOn(R, Nat) /\ \A x, y \in Nat : <<x, y>> \in R <=> x < y
  BY LessIsWellFounded
<1>2. \E x \in T : \A y \in T : ~ (<<y, x>> \in R)
  BY <1>1, MinimalNatural
<1>. PICK m \in T : \A y \in T : ~ (<<y, m>> \in R)
  BY <1>2
<1>3. \A n \in T : n \in Nat /\ m \in Nat
  OBVIOUS
<1>4. \A n \in T : ~ (n < m)
  BY <1>1, <1>3, Zenon
<1> QED
  BY <1>3, <1>4

\* What holds of 0 and of the successor of whatever it holds of holds of all.
LEMMA Induction ==
    ASSUME NEW S, 0 \in S, \A n \in Nat : n \in S => n + 1 \in S
    PROVE  Nat \subseteq S
<1> SUFFICES ASSUME Nat \ S # {} PROVE FALSE
  OBVIOUS
<1>1. PICK m \in Nat \ S : \A n \in Nat \ S : m <= n
  BY LeastNatural
<1>2. m - 1 \in Nat /\ m - 1 \in S
  BY <1>1
<1> QED
  BY <1>1, <1>2

\* Whatever a line says, the settings keep their types.
LEMMA LineKeepsTypes ==
    ASSUME NEW c \in Settings, NEW s \in Strings, NEW line \in Lines
    PROVE  /\ LoadLine([section |-> s, config |-> c], line).config \in Settings
           /\ LoadLine([section |-> s, config |-> c], line) =
                [section |-> LoadLine([section |-> s, config |-> c], line).section,
                 config |-> LoadLine([section |-> s, config |-> c], line).config]
           /\ LoadLine([section |-> s, config |-> c], line).section \in Strings
<1> DEFINE loaded == [section |-> s, config |-> c]
<1>1. CASE line.form = "section"
  <2>1. line.name \in Strings
    BY <1>1 DEF Lines, Strings
  <2>2. LoadLine(loaded, line) = [section |-> line.name, config |-> c]
    BY <1>1 DEF LoadLine
  <2> QED
    BY <2>1, <2>2
<1>2. CASE line.form = "value"
  <2>1. line.text \in Text
    BY <1>2 DEF Lines
  <2>2. ApplyConfigValue(c, s, line.key, line.text) \in Settings
    BY <2>1, ValueKeepsTypes
  <2>3. LoadLine(loaded, line) \in
          {loaded, [section |-> s, config |-> ApplyConfigValue(c, s, line.key, line.text)]}
    BY <1>2 DEF LoadLine
  <2> QED
    BY <2>2, <2>3
<1>3. line.form \in {"section", "value"}
  BY DEF Lines
<1> QED
  BY <1>1, <1>2, <1>3

States == [section : Strings, config : Settings]
Start == [section |-> "", config |-> Default]

\* The loading is what its definition says, for a file of any length.
LEMMA LoadIsDefined ==
    ASSUME NEW lines, NEW n \in Nat
    PROVE  \E loaded : loaded = [k \in 0 .. n |->
               IF k = 0 THEN Start ELSE LoadLine(loaded[k - 1], lines[k])]
<1> DEFINE Next1(f, k) == IF k = 0 THEN Start ELSE LoadLine(f[k - 1], lines[k])
           S == {m \in Nat : \E f : f = [k \in 0 .. m |-> Next1(f, k)]}
<1>1. 0 \in S
  <2> DEFINE f == [k \in 0 .. 0 |-> Start]
  <2>1. f = [k \in 0 .. 0 |-> Next1(f, k)]
    OBVIOUS
  <2> QED
    BY <2>1
<1>2. ASSUME NEW m \in Nat, m \in S PROVE m + 1 \in S
  <2>1. PICK f : f = [k \in 0 .. m |-> Next1(f, k)]
    BY <1>2
  <2> DEFINE last == LoadLine(f[m], lines[m + 1])
             g == [k \in 0 .. m + 1 |-> IF k = m + 1 THEN last ELSE f[k]]
  <2>2. ASSUME NEW k \in 0 .. m + 1 PROVE g[k] = Next1(g, k)
    <3>1. CASE k = m + 1
      <4>1. g[k] = last /\ k - 1 = m /\ g[m] = f[m] /\ k # 0
        BY <3>1
      <4> QED
        BY <4>1, <3>1
    <3>2. CASE k # m + 1
      <4>1. g[k] = f[k] /\ k \in 0 .. m
        BY <3>2
      <4>2. k # 0 => g[k - 1] = f[k - 1]
        BY <3>2
      <4>3. f[k] = Next1(f, k)
        BY <2>1, <4>1
      <4> QED
        BY <4>1, <4>2, <4>3
    <3> QED
      BY <3>1, <3>2
  <2>3. g = [k \in 0 .. m + 1 |-> Next1(g, k)]
    BY <2>2
  <2> HIDE DEF g
  <2>4. \E f1 : f1 = [k \in 0 .. m + 1 |-> Next1(f1, k)]
    BY <2>3, Zenon
  <2>5. m + 1 \in Nat
    OBVIOUS
  <2> HIDE DEF Next1
  <2> QED
    BY <2>4, <2>5
<1>3. n \in S
  BY <1>1, <1>2, Induction
<1> QED
  BY <1>3

\* The same of a line, for the section and the settings together.
LEMMA LineKeepsStates ==
    ASSUME NEW loaded \in States, NEW line \in Lines
    PROVE  LoadLine(loaded, line) \in States
<1> DEFINE s == loaded.section
           c == loaded.config
<1>1. s \in Strings /\ c \in Settings /\ loaded = [section |-> s, config |-> c]
  BY DEF States
<1> HIDE DEF s, c
<1>2. /\ LoadLine([section |-> s, config |-> c], line).config \in Settings
      /\ LoadLine([section |-> s, config |-> c], line) =
                [section |-> LoadLine([section |-> s, config |-> c], line).section,
                 config |-> LoadLine([section |-> s, config |-> c], line).config]
      /\ LoadLine([section |-> s, config |-> c], line).section \in Strings
  BY <1>1, LineKeepsTypes
<1> DEFINE r == LoadLine([section |-> s, config |-> c], line)
<1>3. /\ r.config \in Settings /\ r.section \in Strings
      /\ r = [section |-> r.section, config |-> r.config]
  BY <1>2
<1> HIDE DEF r
<1>4. r \in States
  BY <1>3 DEF States
<1> QED
  BY <1>1, <1>4 DEF r

\* Whatever a file holds, what is loaded from it has the types of the settings.
LEMMA LoadKeepsTypes ==
    ASSUME NEW lines \in Seq(Lines)
    PROVE  Load(lines) \in Settings
<1> DEFINE n == Len(lines)
           loaded == CHOOSE loaded : loaded = [k \in 0 .. Len(lines) |->
               IF k = 0 THEN Start ELSE LoadLine(loaded[k - 1], lines[k])]
           S == {k \in Nat : k <= n => loaded[k] \in States}
<1>0. n \in Nat
  OBVIOUS
<1>1. Start \in States
  <2>1. "" \in Strings
    BY DEF Strings, Literals
  <2> QED
    BY <2>1, DefaultTyped, Zenon DEF States, Start
<1>2. Load(lines) = loaded[n].config
  BY DEF Load, Start
<1>3. loaded = [k \in 0 .. Len(lines) |->
               IF k = 0 THEN Start ELSE LoadLine(loaded[k - 1], lines[k])]
  <2>1. \E f : f = [k \in 0 .. Len(lines) |->
               IF k = 0 THEN Start ELSE LoadLine(f[k - 1], lines[k])]
    BY <1>0, LoadIsDefined, Zenon
  <2> QED
    BY <2>1, Zenon
<1> HIDE DEF loaded
<1>4. 0 \in S
  BY <1>0, <1>1, <1>3
<1>5. ASSUME NEW k \in Nat, k \in S PROVE k + 1 \in S
  <2> SUFFICES ASSUME k + 1 <= n PROVE loaded[k + 1] \in States
    OBVIOUS
  <2>1. loaded[k] \in States
    BY <1>0, <1>5
  <2>2. loaded[k + 1] = LoadLine(loaded[k], lines[k + 1])
    <3>1. k + 1 \in 0 .. Len(lines) /\ k + 1 # 0 /\ (k + 1) - 1 = k
      BY <1>0
    <3> QED
      BY <1>3, <3>1
  <2>3. lines[k + 1] \in Lines
    BY <1>0
  <2> QED
    BY <2>1, <2>2, <2>3, LineKeepsStates
<1>6. n \in S
  <2>1. Nat \subseteq S
    BY <1>4, <1>5, Induction
  <2> QED
    BY <1>0, <2>1
<1>7. loaded[n] \in States
  BY <1>0, <1>6
<1> QED
  BY <1>2, <1>7 DEF States

\* A row changes neither how the server is reached nor how it finds its database.
LEMMA EntryKeepsTypes ==
    ASSUME NEW c \in Settings, NEW entry \in Entries
    PROVE  /\ ApplyEntry(c, entry) \in Settings
           /\ ApplyEntry(c, entry).network = c.network
           /\ ApplyEntry(c, entry).database = c.database
<1>1. entry.text \in Text
  BY DEF Entries
<1> QED
  BY <1>1, ValueKeepsTypes, ZenonT(60) DEF ApplyEntry

\* The rows are applied as the definition says, however many there are.
LEMMA ApplyIsDefined ==
    ASSUME NEW c \in Settings, NEW entries \in Seq(Entries)
    PROVE  \E f : f = [k \in 0 .. Len(entries) |->
               IF k = 0 THEN c ELSE ApplyEntry(f[k - 1], entries[k])]
<1> DEFINE Next1(f, k) == IF k = 0 THEN c ELSE ApplyEntry(f[k - 1], entries[k])
           S == {m \in Nat : \E f : f = [k \in 0 .. m |-> Next1(f, k)]}
<1>1. 0 \in S
  <2> DEFINE f == [k \in 0 .. 0 |-> c]
  <2>1. f = [k \in 0 .. 0 |-> Next1(f, k)]
    OBVIOUS
  <2> QED
    BY <2>1
<1>2. ASSUME NEW m \in Nat, m \in S PROVE m + 1 \in S
  <2>1. PICK f : f = [k \in 0 .. m |-> Next1(f, k)]
    BY <1>2
  <2> DEFINE last == ApplyEntry(f[m], entries[m + 1])
             g == [k \in 0 .. m + 1 |-> IF k = m + 1 THEN last ELSE f[k]]
  <2>2. ASSUME NEW k \in 0 .. m + 1 PROVE g[k] = Next1(g, k)
    <3>1. CASE k = m + 1
      <4>1. g[k] = last /\ k - 1 = m /\ g[m] = f[m] /\ k # 0
        BY <3>1
      <4> QED
        BY <4>1, <3>1
    <3>2. CASE k # m + 1
      <4>1. g[k] = f[k] /\ k \in 0 .. m
        BY <3>2
      <4>2. k # 0 => g[k - 1] = f[k - 1]
        BY <3>2
      <4>3. f[k] = Next1(f, k)
        BY <2>1, <4>1
      <4> QED
        BY <4>1, <4>2, <4>3
    <3> QED
      BY <3>1, <3>2
  <2>3. g = [k \in 0 .. m + 1 |-> Next1(g, k)]
    BY <2>2
  <2> HIDE DEF g
  <2>4. \E f1 : f1 = [k \in 0 .. m + 1 |-> Next1(f1, k)]
    BY <2>3, Zenon
  <2>5. m + 1 \in Nat
    OBVIOUS
  <2> HIDE DEF Next1
  <2> QED
    BY <2>4, <2>5
<1> HIDE DEF S
<1>3. Len(entries) \in S
  BY <1>1, <1>2, Induction
<1> QED
  BY <1>3 DEF S

\* Settings of which the rows have no say in two sections.
SameReach(c) == {d \in Settings : d.network = c.network /\ d.database = c.database}

\* Whatever the rows hold, they keep the types, and have no say in those sections.
LEMMA EntriesKeepTypes ==
    ASSUME NEW c \in Settings, NEW entries \in Seq(Entries)
    PROVE  ApplyEntries(c, entries) \in SameReach(c)
<1> DEFINE n == Len(entries)
           applied == CHOOSE applied : applied = [k \in 0 .. Len(entries) |->
               IF k = 0 THEN c ELSE ApplyEntry(applied[k - 1], entries[k])]
           S == {k \in Nat : k <= n => applied[k] \in SameReach(c)}
<1>0. n \in Nat
  OBVIOUS
<1>2. ApplyEntries(c, entries) = applied[n]
  BY DEF ApplyEntries
<1>3. applied = [k \in 0 .. Len(entries) |->
               IF k = 0 THEN c ELSE ApplyEntry(applied[k - 1], entries[k])]
  <2>1. \E f : f = [k \in 0 .. Len(entries) |->
               IF k = 0 THEN c ELSE ApplyEntry(f[k - 1], entries[k])]
    BY ApplyIsDefined, Zenon
  <2> QED
    BY <2>1, Zenon
<1> HIDE DEF applied
<1>4. 0 \in S
  BY <1>0, <1>3 DEF SameReach
<1>5. ASSUME NEW k \in Nat, k \in S PROVE k + 1 \in S
  <2> SUFFICES ASSUME k + 1 <= n PROVE applied[k + 1] \in SameReach(c)
    OBVIOUS
  <2>1. applied[k] \in SameReach(c)
    BY <1>0, <1>5
  <2>2. applied[k + 1] = ApplyEntry(applied[k], entries[k + 1])
    <3>1. k + 1 \in 0 .. Len(entries) /\ k + 1 # 0 /\ (k + 1) - 1 = k
      BY <1>0
    <3> QED
      BY <1>3, <3>1
  <2>3. entries[k + 1] \in Entries
    BY <1>0
  <2> QED
    BY <2>1, <2>2, <2>3, EntryKeepsTypes DEF SameReach
<1>6. n \in S
  <2>1. Nat \subseteq S
    BY <1>4, <1>5, Induction
  <2> QED
    BY <1>0, <2>1
<1>7. applied[n] \in SameReach(c)
  BY <1>0, <1>6
<1> QED
  BY <1>2, <1>7

\* What the validators do with a number: nothing to one in its range.
LEMMA NumbersValidated ==
    ASSUME NEW v \in Int, NEW d \in Int
    PROVE  /\ AboveZero(v, d) \in {v, d} /\ (v > 0 => AboveZero(v, d) = v)
           /\ d > 0 => AboveZero(v, d) > 0
           /\ NotBelowZero(v, d) \in {v, d} /\ (v >= 0 => NotBelowZero(v, d) = v)
           /\ d >= 0 => NotBelowZero(v, d) >= 0
           /\ d \in 0 .. 1000 => Rate(v, d) \in 0 .. 1000
           /\ v \in 0 .. 1000 => Rate(v, d) = v
<1>1. Infinity \in Nat /\ Infinity > 1000
  BY WidthAssumption
<1> QED
  BY <1>1 DEF AboveZero, NotBelowZero, Rate

\* A tick is not empty by default.
LEMMA TickIsNotEmpty == ToDuration(50) \in Int /\ ToDuration(50) > 0
<1>1. 50 * TicksPerMs \in 0 .. LongMax /\ 50 * TicksPerMs > 0
  BY WidthsTyped
<1>2. ToDuration(50) = 50 * TicksPerMs
  BY <1>1, WidthsTyped, WrappedKeeps DEF ToDuration
<1> QED
  BY <1>1, <1>2

\* The transport has threads and contexts.
LEMMA NetworkValidated ==
    ASSUME NEW n \in NetworkSettings
    PROVE  /\ ValidatedNetwork(n) \in NetworkSettings
           /\ ValidatedNetwork(n).workerThreadCount > 0
           /\ ValidatedNetwork(n).recvContextCount > 0
           /\ n.workerThreadCount > 0 /\ n.recvContextCount > 0 => ValidatedNetwork(n) = n
<1> DEFINE workers == ResolveWorkerThreadCount(n.workerThreadCount)
           contexts == ResolveRecvContextCount(n.recvContextCount, workers)
<1>1. /\ n.port \in 1 .. ShortMax /\ n.workerThreadCount \in Nat /\ n.recvContextCount \in Nat
      /\ n = [port |-> n.port, workerThreadCount |-> n.workerThreadCount,
              recvContextCount |-> n.recvContextCount]
  BY DEF NetworkSettings
<1>2. workers \in Nat /\ workers > 0 /\ (n.workerThreadCount > 0 => workers = n.workerThreadCount)
  BY <1>1, ThreadAssumption, WidthsTyped DEF ResolveWorkerThreadCount, ULongMax
<1> HIDE DEF workers
<1>3. (2 * workers) % (ULongMax + 1) \in Nat
  <2>1. \A a \in Int, b \in Nat : b > 0 => a % b \in 0 .. b - 1
    OBVIOUS
  <2> QED
    BY <1>2, <2>1, WidthsTyped DEF ULongMax
<1>4. contexts \in Nat /\ contexts > 0 /\ (n.recvContextCount > 0 => contexts = n.recvContextCount)
  BY <1>1, <1>3 DEF ResolveRecvContextCount
<1> HIDE DEF contexts
<1>5. ValidatedNetwork(n) =
        [port |-> n.port, workerThreadCount |-> workers, recvContextCount |-> contexts]
  <2>1. n.port # 0
    BY <1>1
  <2> QED
    BY <2>1 DEF ValidatedNetwork, workers, contexts
<1> QED
  BY <1>1, <1>2, <1>4, <1>5 DEF NetworkSettings

\* Timers and windows are not empty.
LEMMA SessionValidated ==
    ASSUME NEW s \in SessionSettings
    PROVE  /\ ValidatedSession(s) \in SessionSettings
           /\ ValidatedSession(s).initialRoomId \in 1 .. IntMax
           /\ ValidatedSession(s).peerTimeout > 0
           /\ ValidatedSession(s).reconnectGracePeriod > 0
           /\ s.initialRoomId > 0 /\ s.peerTimeout > 0 /\ s.reconnectGracePeriod > 0 =>
                ValidatedSession(s) = s
<1> DEFINE d == Default.session
<1>1. d = [initialRoomId |-> 1, peerTimeout |-> 10, reconnectGracePeriod |-> 30]
  BY DEF Default
<1>2. /\ s.initialRoomId \in CInts /\ s.peerTimeout \in Int /\ s.reconnectGracePeriod \in Int
      /\ s = [initialRoomId |-> s.initialRoomId, peerTimeout |-> s.peerTimeout,
              reconnectGracePeriod |-> s.reconnectGracePeriod]
  BY DEF SessionSettings
<1>3. ValidatedSession(s) = [initialRoomId |-> AboveZero(s.initialRoomId, 1),
                             peerTimeout |-> AboveZero(s.peerTimeout, 10),
                             reconnectGracePeriod |-> AboveZero(s.reconnectGracePeriod, 30)]
  BY <1>1 DEF ValidatedSession
<1>4. AboveZero(s.initialRoomId, 1) \in 1 .. IntMax
  BY <1>2, WidthsTyped DEF AboveZero, CInts
<1>5. \A v \in 1 .. IntMax : v \in CInts
  BY WidthsTyped DEF CInts
<1> QED
  BY <1>2, <1>3, <1>4, <1>5, WidthsTyped DEF SessionSettings, AboveZero, CInts

LEMMA ReliableUdpValidated ==
    ASSUME NEW s \in ReliableUdpSettings
    PROVE  /\ ValidatedReliableUdp(s) \in ReliableUdpSettings
           /\ ValidatedReliableUdp(s).maxPendingPacketCount > 0
           /\ ValidatedReliableUdp(s).maxResendCount \in 0 .. IntMax
           /\ ValidatedReliableUdp(s).resendInterval > 0
           /\ s.maxPendingPacketCount > 0 /\ s.maxResendCount >= 0 /\ s.resendInterval > 0 =>
                ValidatedReliableUdp(s) = s
<1> DEFINE d == Default.reliableUdp
<1>1. d = [maxPendingPacketCount |-> 64, maxResendCount |-> 10, resendInterval |-> 100]
  BY DEF Default
<1>2. /\ s.maxPendingPacketCount \in Int /\ s.maxResendCount \in CInts /\ s.resendInterval \in Int
      /\ s = [maxPendingPacketCount |-> s.maxPendingPacketCount,
              maxResendCount |-> s.maxResendCount, resendInterval |-> s.resendInterval]
  BY DEF ReliableUdpSettings
<1>3. ValidatedReliableUdp(s) =
        [maxPendingPacketCount |-> AboveZero(s.maxPendingPacketCount, 64),
         maxResendCount |-> NotBelowZero(s.maxResendCount, 10),
         resendInterval |-> AboveZero(s.resendInterval, 100)]
  BY <1>1 DEF ValidatedReliableUdp
<1>4. NotBelowZero(s.maxResendCount, 10) \in 0 .. IntMax
  BY <1>2, WidthsTyped DEF NotBelowZero, CInts
<1>5. \A v \in 0 .. IntMax : v \in CInts
  BY WidthsTyped DEF CInts
<1> QED
  BY <1>2, <1>3, <1>4, <1>5, WidthsTyped DEF ReliableUdpSettings, AboveZero, NotBelowZero, CInts

\* Faults are within their range.
LEMMA FaultsValidated ==
    ASSUME NEW s \in FaultSettings
    PROVE  /\ ValidatedFaults(s) \in FaultSettings
           /\ FaultsInRange(ValidatedFaults(s))
           /\ FaultsInRange(s) => ValidatedFaults(s) = s
<1> DEFINE low == NotBelowZero(s.minDelay, 0)
           high == NotBelowZero(s.maxDelay, 0)
           first == IF low > high THEN high ELSE low
           last == IF low > high THEN low ELSE high
           wait == NotBelowZero(s.reorderDelay, 100)
           drop == Rate(s.dropRate, 0)
           double == Rate(s.duplicateRate, 0)
           swap == Rate(s.reorderRate, 0)
<1>1. /\ Default.udpFaultSimulation.dropRate = 0 /\ Default.udpFaultSimulation.duplicateRate = 0
      /\ Default.udpFaultSimulation.reorderRate = 0 /\ Default.udpFaultSimulation.minDelay = 0
      /\ Default.udpFaultSimulation.maxDelay = 0 /\ Default.udpFaultSimulation.reorderDelay = 100
  BY DEF Default
<1>2. /\ s.enabled \in Int /\ s.dropRate \in Int /\ s.duplicateRate \in Int
      /\ s.reorderRate \in Int /\ s.minDelay \in Int /\ s.maxDelay \in Int
      /\ s.reorderDelay \in Int /\ s.randomSeed \in Int
      /\ s = [enabled |-> s.enabled, dropRate |-> s.dropRate, duplicateRate |-> s.duplicateRate,
              reorderRate |-> s.reorderRate, minDelay |-> s.minDelay, maxDelay |-> s.maxDelay,
              reorderDelay |-> s.reorderDelay, randomSeed |-> s.randomSeed]
  BY DEF FaultSettings
<1>3. ValidatedFaults(s) =
        [enabled |-> s.enabled, dropRate |-> drop, duplicateRate |-> double,
         reorderRate |-> swap, minDelay |-> first, maxDelay |-> last,
         reorderDelay |-> wait, randomSeed |-> s.randomSeed]
  BY <1>1 DEF ValidatedFaults
<1>4. /\ drop \in 0 .. 1000 /\ double \in 0 .. 1000 /\ swap \in 0 .. 1000
      /\ s.dropRate \in 0 .. 1000 => drop = s.dropRate
      /\ s.duplicateRate \in 0 .. 1000 => double = s.duplicateRate
      /\ s.reorderRate \in 0 .. 1000 => swap = s.reorderRate
  BY <1>2, NumbersValidated
<1>5. /\ first \in Int /\ last \in Int /\ wait \in Int
      /\ 0 <= first /\ first <= last /\ wait >= 0
      /\ s.reorderDelay >= 0 => wait = s.reorderDelay
      /\ 0 <= s.minDelay /\ s.minDelay <= s.maxDelay => first = s.minDelay /\ last = s.maxDelay
  BY <1>2 DEF NotBelowZero
<1> HIDE DEF first, last, wait, drop, double, swap
<1> DEFINE r == ValidatedFaults(s)
<1>6. r \in FaultSettings
  BY <1>2, <1>3, <1>4, <1>5 DEF FaultSettings
<1>7. FaultsInRange(r)
  <2>1. /\ r.dropRate = drop /\ r.duplicateRate = double /\ r.reorderRate = swap
        /\ r.minDelay = first /\ r.maxDelay = last /\ r.reorderDelay = wait
    BY <1>3
  <2> HIDE DEF r
  <2> QED
    BY <1>4, <1>5, <2>1 DEF FaultsInRange
<1>8. ASSUME FaultsInRange(s) PROVE r = s
  <2>1. /\ drop = s.dropRate /\ double = s.duplicateRate /\ swap = s.reorderRate
        /\ first = s.minDelay /\ last = s.maxDelay /\ wait = s.reorderDelay
    BY <1>4, <1>5, <1>8 DEF FaultsInRange
  <2> QED
    BY <1>2, <1>3, <2>1
<1> QED
  BY <1>6, <1>7, <1>8

LEMMA TickValidated ==
    ASSUME NEW s \in TickSettings
    PROVE  /\ ValidatedTick(s) \in TickSettings
           /\ ValidatedTick(s).tickInterval > 0 /\ ValidatedTick(s).fixedDeltaSeconds > 0
           /\ s.tickInterval > 0 /\ s.fixedDeltaSeconds > 0 => ValidatedTick(s) = s
<1> DEFINE interval == AboveZero(s.tickInterval, ToDuration(50))
           seconds == AboveZero(s.fixedDeltaSeconds, 50)
<1>1. Default.tick.tickInterval = ToDuration(50) /\ Default.tick.fixedDeltaSeconds = 50
  BY DEF Default
<1>2. /\ s.tickInterval \in Int /\ s.fixedDeltaSeconds \in Int
      /\ s = [tickInterval |-> s.tickInterval, fixedDeltaSeconds |-> s.fixedDeltaSeconds]
  BY DEF TickSettings
<1>3. ValidatedTick(s) = [tickInterval |-> interval, fixedDeltaSeconds |-> seconds]
  BY <1>1 DEF ValidatedTick
<1>4. /\ interval \in Int /\ interval > 0 /\ (s.tickInterval > 0 => interval = s.tickInterval)
      /\ seconds \in Int /\ seconds > 0 /\ (s.fixedDeltaSeconds > 0 => seconds = s.fixedDeltaSeconds)
  BY <1>2, TickIsNotEmpty DEF AboveZero
<1> HIDE DEF interval, seconds
<1> QED
  BY <1>2, <1>3, <1>4 DEF TickSettings

LEMMA GameRuleValidated ==
    ASSUME NEW s \in GameRuleSettings
    PROVE  /\ ValidatedGameRule(s) \in GameRuleSettings
           /\ ValidatedGameRule(s).initialPlayerHp \in 1 .. IntMax
           /\ ValidatedGameRule(s).respawnDelaySeconds >= 0
           /\ ValidatedGameRule(s).respawnInvincibilitySeconds >= 0
           /\ ValidatedGameRule(s).hitFlashDurationSeconds >= 0
           /\ /\ s.initialPlayerHp > 0 /\ s.respawnDelaySeconds >= 0
              /\ s.respawnInvincibilitySeconds >= 0 /\ s.hitFlashDurationSeconds >= 0
              => ValidatedGameRule(s) = s
<1> DEFINE points == AboveZero(s.initialPlayerHp, 3)
           delay == NotBelowZero(s.respawnDelaySeconds, 3000)
           cover == NotBelowZero(s.respawnInvincibilitySeconds, 1200)
           flash == NotBelowZero(s.hitFlashDurationSeconds, 150)
<1>1. /\ Default.gameRule.initialPlayerHp = 3 /\ Default.gameRule.respawnDelaySeconds = 3000
      /\ Default.gameRule.respawnInvincibilitySeconds = 1200
      /\ Default.gameRule.hitFlashDurationSeconds = 150
  BY DEF Default
<1>2. /\ s.initialPlayerHp \in CInts /\ s.respawnDelaySeconds \in Int
      /\ s.respawnInvincibilitySeconds \in Int /\ s.hitFlashDurationSeconds \in Int
      /\ s = [initialPlayerHp |-> s.initialPlayerHp,
              respawnDelaySeconds |-> s.respawnDelaySeconds,
              respawnInvincibilitySeconds |-> s.respawnInvincibilitySeconds,
              hitFlashDurationSeconds |-> s.hitFlashDurationSeconds]
  BY DEF GameRuleSettings
<1>3. ValidatedGameRule(s) =
        [initialPlayerHp |-> points, respawnDelaySeconds |-> delay,
         respawnInvincibilitySeconds |-> cover, hitFlashDurationSeconds |-> flash]
  BY <1>1 DEF ValidatedGameRule
<1>4. /\ points \in 1 .. IntMax /\ points \in CInts
      /\ s.initialPlayerHp > 0 => points = s.initialPlayerHp
  BY <1>2, WidthsTyped DEF AboveZero, CInts
<1>5. /\ delay \in Int /\ delay >= 0
      /\ s.respawnDelaySeconds >= 0 => delay = s.respawnDelaySeconds
      /\ cover \in Int /\ cover >= 0
      /\ s.respawnInvincibilitySeconds >= 0 => cover = s.respawnInvincibilitySeconds
      /\ flash \in Int /\ flash >= 0
      /\ s.hitFlashDurationSeconds >= 0 => flash = s.hitFlashDurationSeconds
  BY <1>2 DEF NotBelowZero
<1> HIDE DEF points, delay, cover, flash
<1> QED
  BY <1>2, <1>3, <1>4, <1>5 DEF GameRuleSettings

LEMMA WeaponRuleValidated ==
    ASSUME NEW s \in WeaponSettings
    PROVE  /\ ValidatedWeaponRule(s) \in WeaponSettings
           /\ ValidatedWeaponRule(s).bulletDamage \in 1 .. IntMax
           /\ ValidatedWeaponRule(s).bulletSpeed > 0
           /\ ValidatedWeaponRule(s).bulletLifeSeconds > 0
           /\ ValidatedWeaponRule(s).bulletRadius > 0
           /\ ValidatedWeaponRule(s).fireCooldownSeconds >= 0
           /\ /\ s.bulletDamage > 0 /\ s.bulletSpeed > 0 /\ s.bulletLifeSeconds > 0
              /\ s.bulletRadius > 0 /\ s.fireCooldownSeconds >= 0
              => ValidatedWeaponRule(s) = s
<1> DEFINE damage == AboveZero(s.bulletDamage, 1)
           speed == AboveZero(s.bulletSpeed, 600000)
           life == AboveZero(s.bulletLifeSeconds, 1500)
           radius == AboveZero(s.bulletRadius, 6000)
           cooldown == NotBelowZero(s.fireCooldownSeconds, 150)
<1>1. /\ Default.weaponRule.bulletDamage = 1 /\ Default.weaponRule.bulletSpeed = 600000
      /\ Default.weaponRule.bulletLifeSeconds = 1500 /\ Default.weaponRule.bulletRadius = 6000
      /\ Default.weaponRule.fireCooldownSeconds = 150
  BY DEF Default
<1>2. /\ s.bulletDamage \in CInts /\ s.bulletSpeed \in Int /\ s.bulletLifeSeconds \in Int
      /\ s.bulletRadius \in Int /\ s.fireCooldownSeconds \in Int
      /\ s = [bulletDamage |-> s.bulletDamage, bulletSpeed |-> s.bulletSpeed,
              bulletLifeSeconds |-> s.bulletLifeSeconds, bulletRadius |-> s.bulletRadius,
              fireCooldownSeconds |-> s.fireCooldownSeconds]
  BY DEF WeaponSettings
<1>3. ValidatedWeaponRule(s) =
        [bulletDamage |-> damage, bulletSpeed |-> speed, bulletLifeSeconds |-> life,
         bulletRadius |-> radius, fireCooldownSeconds |-> cooldown]
  BY <1>1 DEF ValidatedWeaponRule
<1>4. /\ damage \in 1 .. IntMax /\ damage \in CInts
      /\ s.bulletDamage > 0 => damage = s.bulletDamage
  BY <1>2, WidthsTyped DEF AboveZero, CInts
<1>5. /\ speed \in Int /\ speed > 0 /\ (s.bulletSpeed > 0 => speed = s.bulletSpeed)
      /\ life \in Int /\ life > 0 /\ (s.bulletLifeSeconds > 0 => life = s.bulletLifeSeconds)
      /\ radius \in Int /\ radius > 0 /\ (s.bulletRadius > 0 => radius = s.bulletRadius)
      /\ cooldown \in Int /\ cooldown >= 0
      /\ s.fireCooldownSeconds >= 0 => cooldown = s.fireCooldownSeconds
  BY <1>2 DEF AboveZero, NotBelowZero
<1> HIDE DEF damage, speed, life, radius, cooldown
<1> QED
  BY <1>2, <1>3, <1>4, <1>5 DEF WeaponSettings

LEMMA DiagnosticsValidated ==
    ASSUME NEW s \in DiagnosticsSettings
    PROVE  /\ ValidatedDiagnostics(s) \in DiagnosticsSettings
           /\ ValidatedDiagnostics(s).statusLogInterval > 0
           /\ ValidatedDiagnostics(s).asyncLogWorkerThreadCount > 0
           /\ s.statusLogInterval > 0 /\ s.asyncLogWorkerThreadCount > 0 =>
                ValidatedDiagnostics(s) = s
<1> DEFINE interval == AboveZero(s.statusLogInterval, 10)
           workers == AboveZero(s.asyncLogWorkerThreadCount, 1)
<1>1. /\ Default.diagnostics.statusLogInterval = 10
      /\ Default.diagnostics.asyncLogWorkerThreadCount = 1
  BY DEF Default
<1>2. /\ s.enableStatusLog \in Int /\ s.statusLogInterval \in Int /\ s.logLevel \in Strings
      /\ s.asyncLogWorkerThreadCount \in Int
      /\ s = [enableStatusLog |-> s.enableStatusLog, statusLogInterval |-> s.statusLogInterval,
              logLevel |-> s.logLevel,
              asyncLogWorkerThreadCount |-> s.asyncLogWorkerThreadCount]
  BY DEF DiagnosticsSettings
<1>3. ValidatedDiagnostics(s) =
        [enableStatusLog |-> s.enableStatusLog, statusLogInterval |-> interval,
         logLevel |-> s.logLevel, asyncLogWorkerThreadCount |-> workers]
  BY <1>1 DEF ValidatedDiagnostics
<1>4. /\ interval \in Int /\ interval > 0
      /\ s.statusLogInterval > 0 => interval = s.statusLogInterval
      /\ workers \in Int /\ workers > 0
      /\ s.asyncLogWorkerThreadCount > 0 => workers = s.asyncLogWorkerThreadCount
  BY <1>2 DEF AboveZero
<1> HIDE DEF interval, workers
<1> QED
  BY <1>2, <1>3, <1>4 DEF DiagnosticsSettings

\* Sections within their reach are settings within their reach.
LEMMA PartsAreUsable ==
    ASSUME NEW c,
           c.network.port \in 1 .. ShortMax, c.network.workerThreadCount > 0,
           c.network.recvContextCount > 0,
           c.session.initialRoomId \in 1 .. IntMax, c.session.peerTimeout > 0,
           c.session.reconnectGracePeriod > 0,
           c.reliableUdp.maxPendingPacketCount > 0, c.reliableUdp.resendInterval > 0,
           c.reliableUdp.maxResendCount \in 0 .. IntMax,
           FaultsInRange(c.udpFaultSimulation),
           c.tick.tickInterval > 0, c.tick.fixedDeltaSeconds > 0,
           c.gameRule.initialPlayerHp \in 1 .. IntMax, c.gameRule.respawnDelaySeconds >= 0,
           c.gameRule.respawnInvincibilitySeconds >= 0, c.gameRule.hitFlashDurationSeconds >= 0,
           c.weaponRule.bulletDamage \in 1 .. IntMax, c.weaponRule.bulletSpeed > 0,
           c.weaponRule.bulletLifeSeconds > 0, c.weaponRule.bulletRadius > 0,
           c.weaponRule.fireCooldownSeconds >= 0,
           c.diagnostics.statusLogInterval > 0, c.diagnostics.asyncLogWorkerThreadCount > 0,
           c.database.connectionTimeoutSeconds \in 1 .. IntMax
    PROVE  Usable(c)
BY Zenon DEF Usable

\* The validator makes settings usable.
LEMMA ValidatedIsUsable ==
    ASSUME NEW c \in Settings
    PROVE  Validated(c) \in Settings /\ Usable(Validated(c))
<1>1. /\ c.network \in NetworkSettings /\ c.session \in SessionSettings
      /\ c.reliableUdp \in ReliableUdpSettings /\ c.udpFaultSimulation \in FaultSettings
      /\ c.tick \in TickSettings /\ c.gameRule \in GameRuleSettings
      /\ c.weaponRule \in WeaponSettings /\ c.database \in DatabaseSettings
      /\ c.diagnostics \in DiagnosticsSettings
  BY DEF Settings
<1>. PICK network : network = ValidatedNetwork(c.network)
  OBVIOUS
<1>. PICK session : session = ValidatedSession(c.session)
  OBVIOUS
<1>. PICK reliable : reliable = ValidatedReliableUdp(c.reliableUdp)
  OBVIOUS
<1>. PICK faults : faults = ValidatedFaults(c.udpFaultSimulation)
  OBVIOUS
<1>. PICK tick : tick = ValidatedTick(c.tick)
  OBVIOUS
<1>. PICK rule : rule = ValidatedGameRule(c.gameRule)
  OBVIOUS
<1>. PICK weapon : weapon = ValidatedWeaponRule(c.weaponRule)
  OBVIOUS
<1>. PICK database : database = c.database
  OBVIOUS
<1>. PICK diagnostics : diagnostics = ValidatedDiagnostics(c.diagnostics)
  OBVIOUS
<1>. PICK v : v = Validated(c)
  OBVIOUS
<1>2. v = [network |-> network, session |-> session, reliableUdp |-> reliable,
           udpFaultSimulation |-> faults, tick |-> tick, gameRule |-> rule,
           weaponRule |-> weapon, database |-> database, diagnostics |-> diagnostics]
  BY DEF Validated
<1>3. /\ network \in NetworkSettings /\ session \in SessionSettings
      /\ reliable \in ReliableUdpSettings /\ faults \in FaultSettings
      /\ tick \in TickSettings /\ rule \in GameRuleSettings
      /\ weapon \in WeaponSettings /\ database \in DatabaseSettings
      /\ diagnostics \in DiagnosticsSettings
  BY <1>1, NetworkValidated, SessionValidated, ReliableUdpValidated, FaultsValidated,
     TickValidated, GameRuleValidated, WeaponRuleValidated, DiagnosticsValidated
<1>4. v \in Settings
  BY <1>2, <1>3 DEF Settings
<1>5. /\ v.network = network /\ v.session = session /\ v.reliableUdp = reliable
      /\ v.udpFaultSimulation = faults /\ v.tick = tick /\ v.gameRule = rule
      /\ v.weaponRule = weapon /\ v.database = database /\ v.diagnostics = diagnostics
  BY <1>2
<1>6. /\ network.port \in 1 .. ShortMax
      /\ network.workerThreadCount > 0 /\ network.recvContextCount > 0
  BY <1>1, <1>3, NetworkValidated DEF NetworkSettings
<1>7. /\ session.initialRoomId \in 1 .. IntMax
      /\ session.peerTimeout > 0 /\ session.reconnectGracePeriod > 0
  BY <1>1, SessionValidated
<1>8. /\ reliable.maxPendingPacketCount > 0 /\ reliable.resendInterval > 0
      /\ reliable.maxResendCount \in 0 .. IntMax
  BY <1>1, ReliableUdpValidated
<1>9. FaultsInRange(faults)
  BY <1>1, FaultsValidated
<1>10. tick.tickInterval > 0 /\ tick.fixedDeltaSeconds > 0
  BY <1>1, TickValidated
<1>11. /\ rule.initialPlayerHp \in 1 .. IntMax /\ rule.respawnDelaySeconds >= 0
       /\ rule.respawnInvincibilitySeconds >= 0 /\ rule.hitFlashDurationSeconds >= 0
  BY <1>1, GameRuleValidated
<1>12. /\ weapon.bulletDamage \in 1 .. IntMax /\ weapon.bulletSpeed > 0
       /\ weapon.bulletLifeSeconds > 0 /\ weapon.bulletRadius > 0
       /\ weapon.fireCooldownSeconds >= 0
  BY <1>1, WeaponRuleValidated
<1>13. diagnostics.statusLogInterval > 0 /\ diagnostics.asyncLogWorkerThreadCount > 0
  BY <1>1, DiagnosticsValidated
<1>14. database.connectionTimeoutSeconds \in 1 .. IntMax
  BY <1>1 DEF DatabaseSettings
<1>15. Usable(v)
  <2>1. v.network.port \in 1 .. ShortMax /\ v.network.workerThreadCount > 0
        /\ v.network.recvContextCount > 0
    BY <1>5, <1>6
  <2>2. v.session.initialRoomId \in 1 .. IntMax /\ v.session.peerTimeout > 0
        /\ v.session.reconnectGracePeriod > 0
    BY <1>5, <1>7
  <2>3. v.reliableUdp.maxPendingPacketCount > 0 /\ v.reliableUdp.resendInterval > 0
        /\ v.reliableUdp.maxResendCount \in 0 .. IntMax
    BY <1>5, <1>8
  <2>4. FaultsInRange(v.udpFaultSimulation)
    BY <1>5, <1>9
  <2>5. v.tick.tickInterval > 0 /\ v.tick.fixedDeltaSeconds > 0
    BY <1>5, <1>10
  <2>6. /\ v.gameRule.initialPlayerHp \in 1 .. IntMax /\ v.gameRule.respawnDelaySeconds >= 0
        /\ v.gameRule.respawnInvincibilitySeconds >= 0
        /\ v.gameRule.hitFlashDurationSeconds >= 0
    BY <1>5, <1>11
  <2>7. /\ v.weaponRule.bulletDamage \in 1 .. IntMax /\ v.weaponRule.bulletSpeed > 0
        /\ v.weaponRule.bulletLifeSeconds > 0 /\ v.weaponRule.bulletRadius > 0
        /\ v.weaponRule.fireCooldownSeconds >= 0
    BY <1>5, <1>12
  <2>8. v.diagnostics.statusLogInterval > 0 /\ v.diagnostics.asyncLogWorkerThreadCount > 0
    BY <1>5, <1>13
  <2>9. v.database.connectionTimeoutSeconds \in 1 .. IntMax
    BY <1>5, <1>14
  <2> QED
    BY <2>1, <2>2, <2>3, <2>4, <2>5, <2>6, <2>7, <2>8, <2>9, PartsAreUsable
<1> QED
  BY <1>4, <1>15

\* It leaves usable settings as they are.
LEMMA UsableIsKept ==
    ASSUME NEW c \in Settings, Usable(c)
    PROVE  Validated(c) = c
<1>. PICK network \in NetworkSettings : network = c.network
  BY DEF Settings
<1>. PICK session \in SessionSettings : session = c.session
  BY DEF Settings
<1>. PICK reliable \in ReliableUdpSettings : reliable = c.reliableUdp
  BY DEF Settings
<1>. PICK faults \in FaultSettings : faults = c.udpFaultSimulation
  BY DEF Settings
<1>. PICK tick \in TickSettings : tick = c.tick
  BY DEF Settings
<1>. PICK rule \in GameRuleSettings : rule = c.gameRule
  BY DEF Settings
<1>. PICK weapon \in WeaponSettings : weapon = c.weaponRule
  BY DEF Settings
<1>. PICK database : database = c.database
  OBVIOUS
<1>. PICK diagnostics \in DiagnosticsSettings : diagnostics = c.diagnostics
  BY DEF Settings
<1>1. c = [network |-> network, session |-> session, reliableUdp |-> reliable,
           udpFaultSimulation |-> faults, tick |-> tick, gameRule |-> rule,
           weaponRule |-> weapon, database |-> database, diagnostics |-> diagnostics]
  BY DEF Settings
<1>2. ValidatedNetwork(network) = network
  <2>1. network.workerThreadCount > 0 /\ network.recvContextCount > 0
    BY Zenon DEF Usable
  <2> QED
    BY <2>1, NetworkValidated
<1>3. ValidatedSession(session) = session
  <2>1. \A i \in 1 .. IntMax : i > 0
    BY WidthsTyped
  <2>2. session.initialRoomId > 0 /\ session.peerTimeout > 0 /\ session.reconnectGracePeriod > 0
    BY <2>1, Zenon DEF Usable
  <2> QED
    BY <2>2, SessionValidated
<1>4. ValidatedReliableUdp(reliable) = reliable
  <2>1. \A i \in 0 .. IntMax : i >= 0
    BY WidthsTyped
  <2>2. /\ reliable.maxPendingPacketCount > 0 /\ reliable.maxResendCount >= 0
        /\ reliable.resendInterval > 0
    BY <2>1, Zenon DEF Usable
  <2> QED
    BY <2>2, ReliableUdpValidated
<1>5. ValidatedFaults(faults) = faults
  <2>1. FaultsInRange(faults)
    BY Zenon DEF Usable
  <2> QED
    BY <2>1, FaultsValidated
<1>6. ValidatedTick(tick) = tick
  <2>1. tick.tickInterval > 0 /\ tick.fixedDeltaSeconds > 0
    BY Zenon DEF Usable
  <2> QED
    BY <2>1, TickValidated
<1>7. ValidatedGameRule(rule) = rule
  <2>1. \A i \in 1 .. IntMax : i > 0
    BY WidthsTyped
  <2>2. /\ rule.initialPlayerHp > 0 /\ rule.respawnDelaySeconds >= 0
        /\ rule.respawnInvincibilitySeconds >= 0 /\ rule.hitFlashDurationSeconds >= 0
    BY <2>1, Zenon DEF Usable
  <2> QED
    BY <2>2, GameRuleValidated
<1>8. ValidatedWeaponRule(weapon) = weapon
  <2>1. \A i \in 1 .. IntMax : i > 0
    BY WidthsTyped
  <2>2. /\ weapon.bulletDamage > 0 /\ weapon.bulletSpeed > 0 /\ weapon.bulletLifeSeconds > 0
        /\ weapon.bulletRadius > 0 /\ weapon.fireCooldownSeconds >= 0
    BY <2>1, Zenon DEF Usable
  <2> QED
    BY <2>2, WeaponRuleValidated
<1>9. ValidatedDiagnostics(diagnostics) = diagnostics
  <2>1. diagnostics.statusLogInterval > 0 /\ diagnostics.asyncLogWorkerThreadCount > 0
    BY Zenon DEF Usable
  <2> QED
    BY <2>1, DiagnosticsValidated
<1>10. Validated(c) =
         [network |-> ValidatedNetwork(network), session |-> ValidatedSession(session),
          reliableUdp |-> ValidatedReliableUdp(reliable),
          udpFaultSimulation |-> ValidatedFaults(faults), tick |-> ValidatedTick(tick),
          gameRule |-> ValidatedGameRule(rule), weaponRule |-> ValidatedWeaponRule(weapon),
          database |-> database, diagnostics |-> ValidatedDiagnostics(diagnostics)]
  BY Zenon DEF Validated
<1> QED
  BY <1>1, <1>2, <1>3, <1>4, <1>5, <1>6, <1>7, <1>8, <1>9, <1>10, Zenon

-----------------------------------------------------------------------------
\* The configuration on its way to the subsystems.

EarlyCalls == {"StartDatabase", "LoadEntries", "Validate"}
LateCalls == {"StartLogger", "StartAccounts", "StartMatches", "StartTransport", "StartTicks"}

NextIsIn(calls) == todo # <<>> /\ Head(todo) \in calls

\* How the server is to be reached, by its file and its command line.
Asked ==
    LET loaded == Load(sources.file)
    IN  [loaded.network EXCEPT !.port = IF sources.port # 0 THEN sources.port ELSE loaded.network.port]

\* Before the validator, and after it.
AsRead == config.network = Asked /\ config.database = Load(sources.file).database

Prepared ==
    /\ Usable(config) /\ Validated(config) = config
    /\ config.network = ValidatedNetwork(Asked)
    /\ config.database = Load(sources.file).database

\* The invariant of the configuration.
ConfigFits ==
    /\ sources.file \in Seq(Lines) /\ sources.port \in 0 .. ShortMax
    /\ config \in Settings
    /\ NextIsIn(EarlyCalls) => AsRead
    /\ NextIsIn(LateCalls) => Prepared

\* A file and a port give settings of the types.
LEMMA ReadIsTyped ==
  ASSUME NEW file \in Seq(Lines), NEW port \in 0 .. ShortMax
  PROVE  /\ [Load(file) EXCEPT !.network.port = IF port # 0 THEN port ELSE @] \in Settings
         /\ [Load(file) EXCEPT !.network.port = IF port # 0 THEN port ELSE @].network =
               [Load(file).network EXCEPT !.port = IF port # 0 THEN port ELSE Load(file).network.port]
         /\ [Load(file) EXCEPT !.network.port = IF port # 0 THEN port ELSE @].database
               = Load(file).database
  <1>. PICK c \in Settings : c = Load(file)
    BY LoadKeepsTypes
  <1>1. c.network \in NetworkSettings /\ c.network.port \in 1 .. ShortMax
    BY DEF Settings, NetworkSettings
  <1>. PICK p \in 1 .. ShortMax : p = IF port # 0 THEN port ELSE c.network.port
    BY <1>1, WidthsTyped
  <1>2. [c.network EXCEPT !.port = p] \in NetworkSettings
    BY <1>1 DEF NetworkSettings
  <1>3. [c EXCEPT !.network.port = p] = [c EXCEPT !.network = [c.network EXCEPT !.port = p]]
    BY DEF Settings
  <1>4. [c EXCEPT !.network.port = p] \in Settings
    BY <1>2, <1>3, SectionReplaced
  <1>5. /\ [c EXCEPT !.network.port = p].network = [c.network EXCEPT !.port = p]
        /\ [c EXCEPT !.network.port = p].database = c.database
    BY DEF Settings
  <1> QED
    BY <1>4, <1>5

\* The i-th call of the way up is the next one when the others are left.
LEMMA UpHeads ==
  ASSUME NEW i \in 1 .. 12
  PROVE  From(UpCalls, i) # <<>> /\ Head(From(UpCalls, i)) = UpCalls[i]
  <1>1. UpCalls \in Seq(CallNames) /\ i \in 1 .. Len(UpCalls)
    BY CallLists
  <1> QED
    BY <1>1, NextCall

\* After another call than those of the start, none of these is next.
LEMMA NoStartFollows ==
  ASSUME ControlFits, NEW name \in CallNames \ (EarlyCalls \cup LateCalls \cup {"Configure"}),
         Calls(name)
  PROVE  Tail(todo) # <<>> => Head(Tail(todo)) \notin EarlyCalls \cup LateCalls
  <1>1. ASSUME NEW i \in 1 .. 12, UpCalls[i] = name, Tail(todo) = From(UpCalls, i + 1)
        PROVE  Tail(todo) # <<>> => Head(Tail(todo)) \notin EarlyCalls \cup LateCalls
    <2>1. i \in 9 .. 12
      BY <1>1 DEF UpCalls, EarlyCalls, LateCalls
    <2>2. CASE i = 12
      <3>1. Tail(todo) = <<>>
        <4>1. From(UpCalls, Len(UpCalls) + 1) = <<>>
          BY CallLists, FirstAndNoCall
        <4>2. Len(UpCalls) + 1 = i + 1
          BY <2>2, CallLists
        <4> QED
          BY <1>1, <4>1, <4>2, Zenon
      <3> QED
        BY <3>1
    <2>3. CASE i \in 9 .. 11
      <3>. PICK k \in 10 .. 12 : k = i + 1
        BY <2>3
      <3>1. Tail(todo) = From(UpCalls, k)
        BY <1>1, Zenon
      <3>2. Head(From(UpCalls, k)) = UpCalls[k]
        BY UpHeads
      <3>3. UpCalls[k] \notin EarlyCalls \cup LateCalls
        BY DEF UpCalls, EarlyCalls, LateCalls
      <3> QED
        BY <3>1, <3>2, <3>3
    <2> QED
      BY <2>1, <2>2, <2>3
  <1>2. ASSUME NEW i \in 1 .. 6, Tail(todo) = From(UndoServer, i + 1)
        PROVE  Tail(todo) # <<>> => Head(Tail(todo)) \notin EarlyCalls \cup LateCalls
    <2>1. CASE i = 6
      BY <1>2, <2>1, ListsEnd
    <2>2. CASE i \in 1 .. 5
      <3>1. UndoServer \in Seq(CallNames) /\ i + 1 \in 1 .. Len(UndoServer) /\ i + 1 \in 2 .. 6
        BY <2>2, CallLists
      <3>2. Head(Tail(todo)) = UndoServer[i + 1]
        BY <1>2, <3>1, NextCall
      <3> QED
        BY <3>1, <3>2 DEF UndoServer, EarlyCalls, LateCalls
    <2> QED
      BY <2>1, <2>2
  <1>3. ASSUME NEW i \in 1 .. 12, Tail(todo) = From(Shutdown, i + 1)
        PROVE  Tail(todo) # <<>> => Head(Tail(todo)) \notin EarlyCalls \cup LateCalls
    <2>1. CASE i = 12
      BY <1>3, <2>1, ListsEnd
    <2>2. CASE i \in 1 .. 11
      <3>1. Shutdown \in Seq(CallNames) /\ i + 1 \in 1 .. Len(Shutdown) /\ i + 1 \in 2 .. 12
        BY <2>2, CallLists
      <3>2. Head(Tail(todo)) = Shutdown[i + 1]
        BY <1>3, <3>1, NextCall
      <3> QED
        BY <3>1, <3>2, SMTT(40) DEF Shutdown, EarlyCalls, LateCalls
    <2> QED
      BY <2>1, <2>2
  <1>4. name # "Configure"
    OBVIOUS
  <1> QED
    BY <1>1, <1>2, <1>3, <1>4, CallAt, ListsEnd

\* A step that leaves the configuration, and does not go back to the start.
LEMMA ConfigStays ==
  ASSUME ConfigFits, UNCHANGED <<sources, config>>,
         UNCHANGED todo \/ ~ NextIsIn(EarlyCalls \cup LateCalls)'
  PROVE  ConfigFits'
  <1>1. CASE UNCHANGED todo
    BY <1>1 DEF ConfigFits, NextIsIn, AsRead, Prepared, Asked
  <1>2. CASE ~ NextIsIn(EarlyCalls \cup LateCalls)'
    <2>1. ~ NextIsIn(EarlyCalls)' /\ ~ NextIsIn(LateCalls)'
      BY <1>2 DEF NextIsIn
    <2> QED
      BY <2>1 DEF ConfigFits
  <1> QED
    BY <1>1, <1>2

\* The lists that replace what is left do not lead back to the start.
LEMMA ListsLeadOn ==
  ASSUME \/ todo' \in {<<>>, <<"StopDatabase">>, <<"StopDatabase", "StopLogger">>,
                       <<"StopAccounts", "Clear", "StopDatabase", "StopLogger">>}
         \/ todo' \in {UndoServer, Loop, Shutdown}
  PROVE  ~ NextIsIn(EarlyCalls \cup LateCalls)'
  <1>1. CASE todo' = UndoServer
    BY <1>1 DEF UndoServer, NextIsIn, EarlyCalls, LateCalls
  <1>2. CASE todo' = Loop
    BY <1>2 DEF Loop, NextIsIn, EarlyCalls, LateCalls
  <1>3. CASE todo' = Shutdown
    BY <1>3 DEF Shutdown, NextIsIn, EarlyCalls, LateCalls
  <1>4. CASE todo' \in {<<>>, <<"StopDatabase">>, <<"StopDatabase", "StopLogger">>,
                        <<"StopAccounts", "Clear", "StopDatabase", "StopLogger">>}
    BY <1>4 DEF NextIsIn, EarlyCalls, LateCalls
  <1> QED
    BY <1>1, <1>2, <1>3, <1>4

\* From a call of the start to the one after it.
LEMMA ConfigMovesOn ==
  ASSUME NEW i \in 1 .. 7, todo' = From(UpCalls, i + 1)
  PROVE  /\ NextIsIn(EarlyCalls)' <=> i \in 1 .. 2
         /\ NextIsIn(LateCalls)' <=> i \in 3 .. 7
  <1>1. todo' # <<>> /\ Head(todo') = UpCalls[i + 1] /\ i + 1 \in 2 .. 8
    BY UpHeads
  <1> QED
    BY <1>1 DEF NextIsIn, UpCalls, EarlyCalls, LateCalls

LEMMA ConfigureReads ==
  ASSUME ControlFits, ConfigFits, Configure
  PROVE  ConfigFits'
  <1>. PICK file \in Files, port \in Ports :
           /\ sources' = [file |-> file, port |-> port]
           /\ config' = [Load(file) EXCEPT !.network.port = IF port # 0 THEN port ELSE @]
    BY DEF Configure
  <1>1. file \in Seq(Lines) /\ port \in 0 .. ShortMax
    BY AppAssumption
  <1>2. todo' = From(UpCalls, 1)
    BY CallLists, OtherLists DEF Configure
  <1>3. Head(todo') = "StartDatabase"
    BY <1>2, UpHeads DEF UpCalls
  <1>4. ~ NextIsIn(LateCalls)'
    BY <1>3 DEF NextIsIn, LateCalls
  <1>5. config' \in Settings /\ AsRead'
    BY <1>1, ReadIsTyped DEF AsRead, Asked
  <1>6. sources'.file = file /\ sources'.port = port
    OBVIOUS
  <1> QED
    BY <1>1, <1>4, <1>5, <1>6 DEF ConfigFits

LEMMA StartDatabaseKeepsConfig ==
  ASSUME ControlFits, ConfigFits, StartDatabase
  PROVE  ConfigFits'
  <1>0. Calls("StartDatabase")
    BY DEF StartDatabase
  <1>1. UpFits(1) /\ Tail(todo) = From(UpCalls, 2)
    BY <1>0, CallAt DEF UpCalls, UndoServer, Shutdown
  <1>2. UNCHANGED <<sources, config>> /\ NextIsIn(EarlyCalls)
    BY <1>0 DEF StartDatabase, appVars, Calls, NextIsIn, EarlyCalls
  <1>3. CASE todo' = Tail(todo)
    <2>1. ~ NextIsIn(LateCalls)'
      <3>1. todo' = From(UpCalls, 1 + 1)
        BY <1>1, <1>3
      <3> QED
        BY <3>1, ConfigMovesOn
    <2> QED
      BY <1>2, <2>1 DEF ConfigFits, AsRead, Asked
  <1>4. CASE todo' = <<>>
    BY <1>2, <1>4, ListsLeadOn, ConfigStays
  <1> QED
    BY <1>3, <1>4, Zenon DEF StartDatabase, Goes, Fails

LEMMA LoadEntriesKeepsConfig ==
  ASSUME ControlFits, ConfigFits, LoadEntries
  PROVE  ConfigFits'
  <1>1. UpFits(2) /\ Tail(todo) = From(UpCalls, 3)
    BY CallAt DEF LoadEntries, UpCalls, UndoServer, Shutdown
  <1>2. UNCHANGED sources /\ NextIsIn(EarlyCalls)
    BY DEF LoadEntries, Calls, NextIsIn, EarlyCalls
  <1>3. ASSUME todo' = Tail(todo), config' \in SameReach(config) PROVE ConfigFits'
    <2>1. ~ NextIsIn(LateCalls)'
      <3>1. todo' = From(UpCalls, 2 + 1)
        BY <1>1, <1>3
      <3> QED
        BY <3>1, ConfigMovesOn
    <2>2. config' \in Settings /\ AsRead'
      BY <1>2, <1>3 DEF ConfigFits, SameReach, AsRead, Asked
    <2> QED
      BY <1>2, <2>1, <2>2 DEF ConfigFits
  <1>4. CASE todo' = <<"StopDatabase">> /\ UNCHANGED config
    BY <1>2, <1>4, ListsLeadOn, ConfigStays
  <1>5. config \in SameReach(config)
    BY DEF ConfigFits, SameReach
  <1>6. ASSUME NEW entries \in EntryLists PROVE ApplyEntries(config, entries) \in SameReach(config)
    <2>1. entries \in Seq(Entries) /\ config \in Settings
      BY AppAssumption DEF ConfigFits
    <2> QED
      BY <2>1, EntriesKeepTypes
  <1> QED
    BY <1>3, <1>4, <1>5, <1>6 DEF LoadEntries, Goes, Fails

LEMMA ValidatePrepares ==
  ASSUME ControlFits, ConfigFits, Validate
  PROVE  ConfigFits'
  <1>1. UpFits(3) /\ Tail(todo) = From(UpCalls, 4)
    BY CallAt DEF Validate, UpCalls, UndoServer, Shutdown
  <1>2. UNCHANGED sources /\ NextIsIn(EarlyCalls) /\ config' = Validated(config)
    BY DEF Validate, Calls, NextIsIn, EarlyCalls
  <1>3. ~ NextIsIn(EarlyCalls)'
    <2>1. todo' = From(UpCalls, 3 + 1)
      BY <1>1 DEF Validate, Goes
    <2> QED
      BY <2>1, ConfigMovesOn
  <1>4. config' \in Settings /\ Usable(config') /\ Validated(config') = config'
    BY <1>2, ValidatedIsUsable, UsableIsKept DEF ConfigFits
  <1>5. /\ config'.network = ValidatedNetwork(Asked)
        /\ config'.database = Load(sources.file).database
    BY <1>2 DEF Validated, ConfigFits, AsRead
  <1>6. Prepared'
    BY <1>2, <1>4, <1>5 DEF Prepared, Asked
  <1> QED
    BY <1>2, <1>3, <1>4, <1>6 DEF ConfigFits

\* A later call of the start finds and leaves the settings as they are.
LEMMA LateCallsKeepConfig ==
  ASSUME ConfigFits, NEW i \in 4 .. 7, NextIsIn(LateCalls), UNCHANGED <<sources, config>>,
         todo' = From(UpCalls, i + 1)
  PROVE  ConfigFits'
  <1>1. ~ NextIsIn(EarlyCalls)'
    BY ConfigMovesOn
  <1> QED
    BY <1>1 DEF ConfigFits, Prepared, Asked

LEMMA StartLoggerKeepsConfig ==
  ASSUME ControlFits, ConfigFits, StartLogger
  PROVE  ConfigFits'
  <1>1. UpFits(4) /\ Tail(todo) = From(UpCalls, 4 + 1)
    BY CallAt DEF StartLogger, UpCalls, UndoServer, Shutdown
  <1>2. UNCHANGED <<sources, config>> /\ NextIsIn(LateCalls)
    BY DEF StartLogger, Calls, NextIsIn, LateCalls
  <1>3. CASE todo' = Tail(todo)
    BY <1>1, <1>2, <1>3, LateCallsKeepConfig
  <1>4. CASE todo' = <<"StopDatabase">>
    BY <1>2, <1>4, ListsLeadOn, ConfigStays
  <1> QED
    BY <1>3, <1>4 DEF StartLogger, Goes, Fails

LEMMA StartAccountsKeepsConfig ==
  ASSUME ControlFits, ConfigFits, StartAccounts
  PROVE  ConfigFits'
  <1>1. UpFits(5) /\ Tail(todo) = From(UpCalls, 5 + 1)
    BY CallAt DEF StartAccounts, UpCalls, UndoServer, Shutdown
  <1>2. UNCHANGED <<sources, config>> /\ NextIsIn(LateCalls)
    BY DEF StartAccounts, appVars, Calls, NextIsIn, LateCalls
  <1>3. CASE todo' = Tail(todo)
    BY <1>1, <1>2, <1>3, LateCallsKeepConfig
  <1>4. CASE todo' = <<"StopDatabase", "StopLogger">>
    BY <1>2, <1>4, ListsLeadOn, ConfigStays
  <1> QED
    BY <1>3, <1>4 DEF StartAccounts, Goes, Fails

LEMMA StartMatchesKeepsConfig ==
  ASSUME ControlFits, ConfigFits, StartMatches
  PROVE  ConfigFits'
  <1>1. UpFits(6) /\ Tail(todo) = From(UpCalls, 6 + 1)
    BY CallAt DEF StartMatches, UpCalls, UndoServer, Shutdown
  <1>2. UNCHANGED <<sources, config>> /\ NextIsIn(LateCalls)
    BY DEF StartMatches, Calls, NextIsIn, LateCalls
  <1>3. CASE todo' = Tail(todo)
    BY <1>1, <1>2, <1>3, LateCallsKeepConfig
  <1>4. CASE todo' = <<"StopAccounts", "Clear", "StopDatabase", "StopLogger">>
    BY <1>2, <1>4, ListsLeadOn, ConfigStays
  <1> QED
    BY <1>3, <1>4 DEF StartMatches, Goes, Fails

LEMMA StartTransportKeepsConfig ==
  ASSUME ControlFits, ConfigFits, StartTransport
  PROVE  ConfigFits'
  <1>1. UpFits(7) /\ Tail(todo) = From(UpCalls, 7 + 1)
    BY CallAt DEF StartTransport, UpCalls, UndoServer, Shutdown
  <1>2. UNCHANGED sources /\ NextIsIn(LateCalls) /\ config' = Validated(config)
    BY DEF StartTransport, Calls, NextIsIn, LateCalls
  <1>3. UNCHANGED config
    BY <1>2 DEF ConfigFits, Prepared
  <1>4. CASE todo' = Tail(todo)
    BY <1>1, <1>2, <1>3, <1>4, LateCallsKeepConfig
  <1>5. CASE todo' = UndoServer
    BY <1>2, <1>3, <1>5, ListsLeadOn, ConfigStays
  <1> QED
    BY <1>4, <1>5 DEF StartTransport, Goes, Fails

LEMMA StartTicksDropsConfig ==
  ASSUME ControlFits, ConfigFits, StartTicks
  PROVE  ConfigFits'
  <1>1. UpFits(8) /\ Tail(todo) = From(UpCalls, 9)
    BY CallAt DEF StartTicks, UpCalls, UndoServer, Shutdown
  <1>2. todo' = Loop \/ todo' = UndoServer
    BY <1>1, OtherLists DEF StartTicks, Goes, Fails
  <1>3. ~ NextIsIn(EarlyCalls)' /\ ~ NextIsIn(LateCalls)'
    <2>1. ~ NextIsIn(EarlyCalls \cup LateCalls)'
      BY <1>2, ListsLeadOn
    <2> QED
      BY <2>1 DEF NextIsIn
  <1>4. config' = Default /\ sources' = [file |-> <<>>, port |-> 0]
    BY DEF StartTicks
  <1>5. sources'.file \in Seq(Lines) /\ sources'.port \in 0 .. ShortMax
    BY <1>4, WidthsTyped
  <1> QED
    BY <1>3, <1>4, <1>5, DefaultTyped DEF ConfigFits

\* The main thread goes on from another call, or repeats it.
LEMMA OtherCallsLeadOn ==
  ASSUME ControlFits, MainStep \/ Join, ~ StartStep
  PROVE  UNCHANGED <<sources, config>> /\ (UNCHANGED todo \/ ~ NextIsIn(EarlyCalls \cup LateCalls)')
  <1> DEFINE names == {"Extract", "Enqueue", "Report", "Poll", "StopServer", "DrainMatches",
                       "JoinMatches", "Detach", "DrainAccounts", "JoinAccounts", "Clear",
                       "StopMatches", "StopAccounts", "StopDatabase", "StopLogger"}
  <1>1. UNCHANGED <<sources, config>>
    BY DEF MainStep, Join, Extract, Enqueue, Report, Poll, StopServer, Detach, DrainMatches,
       DrainAccounts, StopMatches, StopAccounts, ClearHandler, StopDatabase, StopLogger,
       JoinMatches, JoinAccounts, appVars
  <1>2. \/ UNCHANGED todo
        \/ todo' \in {Loop, Shutdown}
        \/ \E name \in names : Calls(name) /\ todo' = Tail(todo)
    BY DEF MainStep, Join, Extract, Enqueue, Report, Poll, StopServer, Detach, DrainMatches,
       DrainAccounts, StopMatches, StopAccounts, ClearHandler, StopDatabase, StopLogger,
       JoinMatches, JoinAccounts, Goes
  <1>3. ASSUME NEW name \in names, Calls(name), todo' = Tail(todo)
        PROVE  ~ NextIsIn(EarlyCalls \cup LateCalls)'
    <2>1. name \in CallNames \ (EarlyCalls \cup LateCalls \cup {"Configure"})
      BY DEF CallNames, EarlyCalls, LateCalls
    <2> QED
      BY <1>3, <2>1, NoStartFollows DEF NextIsIn
  <1> QED
    BY <1>1, <1>2, <1>3, ListsLeadOn

\* The invariant of the configuration holds.
LEMMA ConfigStarts == Init => ConfigFits
  <1> SUFFICES ASSUME Init PROVE ConfigFits
    OBVIOUS
  <1>1. config = Default /\ sources = [file |-> <<>>, port |-> 0] /\ todo = <<"Configure">>
    BY DEF Init
  <1>2. sources.file \in Seq(Lines) /\ sources.port \in 0 .. ShortMax
    BY <1>1, WidthsTyped
  <1>3. ~ NextIsIn(EarlyCalls) /\ ~ NextIsIn(LateCalls)
    BY <1>1 DEF NextIsIn, EarlyCalls, LateCalls
  <1> QED
    BY <1>1, <1>2, <1>3, DefaultTyped DEF ConfigFits

LEMMA ConfigStepsFit ==
  ASSUME ControlFits, ConfigFits, [Next]_vars
  PROVE  ConfigFits'
  <1>1. CASE StartStep
    BY <1>1, ConfigureReads, StartDatabaseKeepsConfig, LoadEntriesKeepsConfig, ValidatePrepares,
       StartLoggerKeepsConfig, StartAccountsKeepsConfig, StartMatchesKeepsConfig,
       StartTransportKeepsConfig, StartTicksDropsConfig DEF StartStep
  <1>2. CASE (MainStep \/ Join) /\ ~ StartStep
    BY <1>2, OtherCallsLeadOn, ConfigStays
  <1>3. CASE ServerStep \/ AccountWorkerStep \/ MatchWorkerStep
    <2>1. UNCHANGED <<todo, sources, config>>
      BY <1>3 DEF ServerStep, AccountWorkerStep, MatchWorkerStep, SubmitLogin, AdmitLogin,
         BeginMatch, CompleteMatch, FindAccount, FindPlayer, TakeMatch, SaveTaken,
         PushCompletion, appVars
    <2> QED
      BY <2>1, ConfigStays
  <1>4. CASE UNCHANGED vars
    BY <1>4, ConfigStays DEF vars, appVars
  <1> QED
    BY <1>1, <1>2, <1>3, <1>4 DEF Next

\* Whatever the file, the rows and the command line say, every subsystem of the
\* server is started with settings within its reach, which validating them again
\* would not change, and the rows have no say in how the server is reached and
\* finds its database.
THEOREM ServerStartsWithUsableSettings == Spec => []ConfigIsUsable
  <1>1. ConfigFits => ConfigIsUsable
    BY DEF ConfigFits, ConfigIsUsable, NextIsIn, LateCalls, Prepared, Asked
  <1>2. Init => ControlFits /\ PoolsFit /\ ConfigFits
    BY Starts, ConfigStarts
  <1>3. ControlFits /\ PoolsFit /\ ConfigFits /\ [Next]_vars
           => (ControlFits /\ PoolsFit /\ ConfigFits)'
    BY StepsFit, ConfigStepsFit
  <1> QED
    BY <1>1, <1>2, <1>3, PTL DEF Spec
=============================================================================
