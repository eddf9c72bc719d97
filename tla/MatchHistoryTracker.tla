------------------------- MODULE MatchHistoryTracker ------------------------
(***************************************************************************)
(* The active matches of Server/Game/MatchHistoryTracker.cpp: one for each *)
(* room that has players, with the players now in it (activePlayerSet) and *)
(* the players that have statistics in it (playerStatsTable), who stay     *)
(* when they leave.  A room without a match has both sets empty.           *)
(***************************************************************************)
EXTENDS Identities

Matches == [Room -> [active : SUBSET Account, stats : SUBSET Account]]

NoMatch == [active |-> {}, stats |-> {}]

NoMatches == [room \in Room |-> NoMatch]

EnterPlayer(match, room, account) ==
    [r \in Room |->
        IF r = room /\ account \notin match[r].active
        THEN [active |-> match[r].active \cup {account},
              stats  |-> match[r].stats \cup {account}]
        ELSE match[r]]

\* Mutant: the match that loses its last player goes on.
LeavePlayersOpen(match, gone) ==
    [r \in Room |-> [active |-> match[r].active \ gone[r], stats |-> match[r].stats]]

\* LeavePlayer of each account of gone[r], for every room r: the match that
\* loses its last player is completed and leaves the table.
LeavePlayers(match, gone) ==
    [r \in Room |->
        LET left == match[r].active \ gone[r]
        IN  IF left = match[r].active THEN match[r]
            ELSE IF left = {} THEN NoMatch
            ELSE [active |-> left, stats |-> match[r].stats]]

LeavePlayer(match, room, account) ==
    LeavePlayers(match, [r \in Room |-> IF r = room THEN {account} ELSE {}])

\* RecordKill finds the statistics of both players.
CanRecordKill(match, room, killer, victim) ==
    {killer, victim} \subseteq match[room].stats
=============================================================================
