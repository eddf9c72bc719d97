--------------------------- MODULE ReceiveHistory ---------------------------
(***************************************************************************)
(* The two receive histories of a session, the acknowledgement tracker and *)
(* the replay guard, driven by one stream of arriving sequences.  The      *)
(* sender counts without wrapping; the receivers see the count modulo the  *)
(* width.  A packet may be lost, repeated, or overtaken by packets up to   *)
(* Horizon later, so every arrival is within half the range of the latest. *)
(***************************************************************************)
EXTENDS AckTracker, ReplayGuard, FiniteSets

CONSTANT Horizon      \* how far behind the latest count a packet may arrive

ASSUME HorizonAssumption ==
    /\ Horizon \in Nat
    /\ Horizon < HalfRange
    /\ AckBits <= Horizon
    /\ ReplayBits <= Horizon

VARIABLES
    ackTracker,   \* the ReliableAckTracker
    guard,        \* the PacketReplayGuard
    seen,         \* ghost: ages (latest count - count) of the counts received
    verdict,      \* the last arrival: what the receivers said, and the truth
    widthShifted  \* ghost: a shift by the whole width has happened

historyVars == <<ackTracker, guard, seen, verdict, widthShifted>>

Ages == 0 .. Horizon

\* What the tracker and the replay guard say of an arrival; how far it was
\* behind the latest; and whether it really came for the first time.
Verdicts == [data   : {"New", "Duplicate"},
             replay : {"New", "Duplicate", "TooOld"},
             age    : Ages,
             truth  : {"New", "Duplicate"}]

HistoryTypeOK ==
    /\ ackTracker \in Trackers
    /\ guard \in Guards
    /\ seen \in SUBSET Ages
    /\ verdict \in Verdicts
    /\ widthShifted \in BOOLEAN

HistoryInit ==
    /\ ackTracker = EmptyTracker
    /\ guard = EmptyGuard
    /\ seen = {}
    /\ verdict = [data |-> "New", replay |-> "New", age |-> 0, truth |-> "New"]
    /\ widthShifted = FALSE

\* The receivers handle seq, whose count is `age` behind the latest count.
Judge(seq, age, truth) ==
    /\ ackTracker' \in ObserveOutcomes(ackTracker, seq)
    /\ guard' = ObserveReplay(guard, seq)
    /\ verdict' = [data   |-> IF TrackerHas(ackTracker, seq) THEN "Duplicate" ELSE "New",
                   replay |-> ReplayStatus(guard, seq),
                   age    |-> age,
                   truth  |-> truth]
    /\ widthShifted' = (widthShifted \/ ShiftsByWidth(ackTracker, seq))

ReceiveFirst(seq) ==
    /\ seen = {}
    /\ Judge(seq, 0, "New")
    /\ seen' = {0}

ReceiveAhead(jump) ==
    /\ seen # {}
    /\ Judge((ackTracker.latest + jump) % Modulus, 0, "New")
    /\ seen' = {0} \cup ({a + jump : a \in seen} \cap Ages)

ReceiveBehind(age) ==
    /\ seen # {}
    /\ Judge((ackTracker.latest - age) % Modulus, age,
             IF age \in seen THEN "Duplicate" ELSE "New")
    /\ seen' = seen \cup {age}

HistoryNext ==
    \/ \E seq \in Sequence : ReceiveFirst(seq)
    \/ \E jump \in 1 .. HalfRange - 1 : ReceiveAhead(jump)
    \/ \E age \in Ages : ReceiveBehind(age)

HistorySpec == HistoryInit /\ [][HistoryNext]_historyVars

-----------------------------------------------------------------------------
\* The bit field names exactly the received ones of the AckBits sequences
\* before the latest, across wrap-around, as the acknowledgement header says
\* of it; as long as no observation shifted the field by its whole width.
AckBitsMatchHistory ==
    ~ widthShifted => ackTracker.bits = seen \cap (1 .. AckBits)

\* The replay window is the history of the last ReplayBits sequences, and it
\* has the tracker's latest sequence: both receivers follow the same count.
ReplayWindowMatchesHistory ==
    /\ guard.bits = seen \cap (0 .. ReplayBits - 1)
    /\ guard.hasAny = ackTracker.hasAny
    /\ guard.latest = ackTracker.latest

\* Both receivers, each with its own shifts and widths, keep the history of one
\* stream (ReliableAckTracker, PacketReplayGuard).
HistoriesAreTrue == AckBitsMatchHistory /\ ReplayWindowMatchesHistory

\* The replay guard never passes a packet twice, never calls a first arrival
\* inside the window a duplicate, and calls too old just what is outside it.
\* The tracker hands a repeated packet on as new only from outside its field.
VerdictsAreTrue ==
    /\ verdict.replay = "New" => verdict.truth = "New"
    /\ verdict.replay = "Duplicate" => verdict.truth = "Duplicate"
    /\ verdict.replay = "TooOld" <=> verdict.age >= ReplayBits
    /\ ~ widthShifted /\ verdict.age <= AckBits => verdict.data = verdict.truth
=============================================================================
