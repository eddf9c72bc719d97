----------------------------- MODULE AckTracker -----------------------------
(***************************************************************************)
(* ReliableAckTracker of Common/Net/Reliable/ReliableUdpProtocol.h, the    *)
(* receive history behind the acknowledgements of reliable packets.        *)
(*                                                                         *)
(* The bit field is the set of the distances d, 1 <= d <= AckBits, whose   *)
(* bit d - 1 is set: the sequence d before the latest one was received.    *)
(***************************************************************************)
EXTENDS SequenceNumber

CONSTANT AckBits      \* reliableAckBitCount: 32, the width of the bit field

ASSUME AckBitsAssumption == AckBits \in Nat \ {0} /\ AckBits < HalfRange

Trackers == [latest : Sequence, bits : SUBSET (1 .. AckBits), hasAny : BOOLEAN]

EmptyTracker == [latest |-> 0, bits |-> {}, hasAny |-> FALSE]

\* Mutant: bit d is looked up for the distance d, instead of bit d - 1.
IsSequenceAckedNextBit(seq, ack, bits) ==
    \/ seq = ack
    \/ ~ IsSequenceNewer(seq, ack) /\ Distance(seq, ack) + 1 \in bits

\* What an acknowledgement (ack, bits) says of seq, at either end of the link.
IsSequenceAcked(seq, ack, bits) ==
    \/ seq = ack
    \/ /\ ~ IsSequenceNewer(seq, ack)
       /\ Distance(seq, ack) \in 1 .. AckBits
       /\ Distance(seq, ack) \in bits

TrackerHas(tracker, seq) ==
    tracker.hasAny /\ IsSequenceAcked(seq, tracker.latest, tracker.bits)

\* The bit field shifted left by distance <= AckBits. A shift by the whole
\* width is undefined in C++: the build may clear the field, or, where the
\* machine masks the count as x86 does, leave it as it was.
ShiftOutcomes(bits, distance) ==
    IF distance < AckBits
    THEN {{b + distance : b \in bits} \cap (1 .. AckBits)}
    ELSE {{}, bits}

\* Mutant: an arrival behind the latest sequence is not recorded.
ObserveOutcomesAheadOnly(tracker, seq) ==
    LET ahead == Distance(tracker.latest, seq)
    IN  IF tracker.hasAny /\ ~ IsSequenceNewer(seq, tracker.latest)
        THEN {tracker}
        ELSE {[latest |-> seq, bits |-> bits, hasAny |-> TRUE] :
                bits \in IF ahead > AckBits \/ ~ tracker.hasAny
                         THEN {{}}
                         ELSE {shifted \cup {ahead} :
                                 shifted \in ShiftOutcomes(tracker.bits, ahead)}}

\* The trackers ObserveReceivedSequence may leave behind.
ObserveOutcomes(tracker, seq) ==
    LET ahead  == Distance(tracker.latest, seq)
        behind == Distance(seq, tracker.latest)
    IN  IF ~ tracker.hasAny
          THEN {[latest |-> seq, bits |-> {}, hasAny |-> TRUE]}
        ELSE IF seq = tracker.latest
          THEN {tracker}
        ELSE IF IsSequenceNewer(seq, tracker.latest)
          THEN {[latest |-> seq, bits |-> bits, hasAny |-> TRUE] :
                  bits \in IF ahead > AckBits
                           THEN {{}}
                           ELSE {shifted \cup {ahead} :
                                   shifted \in ShiftOutcomes(tracker.bits, ahead)}}
        ELSE IF behind \in 1 .. AckBits
          THEN {[latest |-> tracker.latest, bits |-> tracker.bits \cup {behind}, hasAny |-> TRUE]}
        ELSE {tracker}

\* The observation that shifts a non-empty field by its whole width.
ShiftsByWidth(tracker, seq) ==
    /\ tracker.hasAny
    /\ IsSequenceNewer(seq, tracker.latest)
    /\ Distance(tracker.latest, seq) = AckBits
    /\ tracker.bits # {}
=============================================================================
