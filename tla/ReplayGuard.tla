----------------------------- MODULE ReplayGuard ----------------------------
(***************************************************************************)
(* PacketReplayGuard of Common/Net/Auth: the window of the most recent     *)
(* authentication sequences, with which the server drops an authenticated  *)
(* packet it has already seen.  The bit field is the set of the distances  *)
(* d < ReplayBits whose bit d is set; bit 0 is the latest sequence.        *)
(***************************************************************************)
EXTENDS SequenceNumber

CONSTANT ReplayBits   \* replayWindowBitCount: 256

ASSUME ReplayBitsAssumption ==
    ReplayBits \in Nat \ {0} /\ ReplayBits < HalfRange

Guards == [latest : Sequence, bits : SUBSET (0 .. ReplayBits - 1), hasAny : BOOLEAN]

EmptyGuard == [latest |-> 0, bits |-> {}, hasAny |-> FALSE]

\* Mutant: the distance after the last bit still counts as inside.
ReplayStatusWide(guard, seq) ==
    LET behind == Distance(seq, guard.latest)
    IN  IF ~ guard.hasAny THEN "New"
        ELSE IF seq = guard.latest THEN "Duplicate"
        ELSE IF IsSequenceNewer(seq, guard.latest) THEN "New"
        ELSE IF behind > ReplayBits THEN "TooOld"
        ELSE IF behind \in guard.bits THEN "Duplicate"
        ELSE "New"

\* The status Observe returns.
ReplayStatus(guard, seq) ==
    LET behind == Distance(seq, guard.latest)
    IN  IF ~ guard.hasAny THEN "New"
        ELSE IF seq = guard.latest THEN "Duplicate"
        ELSE IF IsSequenceNewer(seq, guard.latest) THEN "New"
        ELSE IF behind >= ReplayBits THEN "TooOld"
        ELSE IF behind \in guard.bits THEN "Duplicate"
        ELSE "New"

\* The guard Observe leaves behind.
ObserveReplay(guard, seq) ==
    LET ahead   == Distance(guard.latest, seq)
        behind  == Distance(seq, guard.latest)
        shifted == {b + ahead : b \in guard.bits} \cap (0 .. ReplayBits - 1)
    IN  IF ReplayStatus(guard, seq) # "New"
          THEN guard
        ELSE IF ~ guard.hasAny
          THEN [latest |-> seq, bits |-> {0}, hasAny |-> TRUE]
        ELSE IF IsSequenceNewer(seq, guard.latest)
          THEN [latest |-> seq, bits |-> shifted \cup {0}, hasAny |-> TRUE]
        ELSE [latest |-> guard.latest, bits |-> guard.bits \cup {behind}, hasAny |-> TRUE]
=============================================================================
