---------------------------- MODULE MatchLedger -----------------------------
(***************************************************************************)
(* What the server promises of its matches, whatever threads, pools and    *)
(* transactions they go through: each is tried once, in the order in which *)
(* they ended; only its own try may store it, and nothing removes it; the  *)
(* log has the results in the order of the tries, calls a match saved only *)
(* if it is stored, and is complete when the ledger is closed.             *)
(***************************************************************************)
EXTENDS Integers, Sequences, SequencesExt

CONSTANT Match

VARIABLES
    begun,      \* the matches that have begun
    playing,    \* those of them that have not ended
    waiting,    \* those that ended and were not tried, the oldest first
    stored,     \* those that are in the database
    results,    \* what came of the tries and is not in the log
    log,
    closed

vars == <<begun, playing, waiting, stored, results, log, closed>>

Init ==
    /\ begun = {} /\ playing = {} /\ waiting = <<>>
    /\ stored = {}
    /\ results = <<>> /\ log = <<>>
    /\ closed = FALSE

Begin(m) ==
    /\ ~ closed /\ m \notin begun
    /\ begun' = begun \cup {m}
    /\ playing' = playing \cup {m}
    /\ UNCHANGED <<waiting, stored, results, log, closed>>

\* Matches that end at the same time do so in any order.
End(some) ==
    /\ some \subseteq playing
    /\ playing' = playing \ some
    /\ \E order \in SetToSeqs(some) : waiting' = waiting \o order
    /\ UNCHANGED <<begun, stored, results, log, closed>>

\* Whoever tries may not learn that the match was stored.
Try(verdict) ==
    /\ ~ closed /\ waiting # <<>>
    /\ waiting' = Tail(waiting)
    /\ stored' \in {stored, stored \cup {Head(waiting)}}
    /\ verdict = "saved" => Head(waiting) \in stored'
    /\ results' = Append(results, <<Head(waiting), verdict>>)
    /\ UNCHANGED <<begun, playing, log, closed>>

Report(n) ==
    /\ log' = log \o SubSeq(results, 1, n)
    /\ results' = SubSeq(results, n + 1, Len(results))
    /\ UNCHANGED <<begun, playing, waiting, stored, closed>>

Close ==
    /\ playing = {} /\ waiting = <<>> /\ results = <<>>
    /\ closed' = TRUE
    /\ UNCHANGED <<begun, playing, waiting, stored, results, log>>

Next ==
    \/ \E m \in Match : Begin(m)
    \/ \E some \in SUBSET playing : End(some)
    \/ \E verdict \in {"saved", "failed"} : Try(verdict)
    \/ \E n \in 1 .. Len(results) : Report(n)
    \/ Close

Spec == Init /\ [][Next]_vars
=============================================================================
