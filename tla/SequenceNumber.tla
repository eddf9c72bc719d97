--------------------------- MODULE SequenceNumber ---------------------------
(***************************************************************************)
(* The wrapping sequence numbers of Common/Net/SequenceNumber.h: every     *)
(* sequence of the program (reliable packets, authenticated packets, input *)
(* commands, server ticks) is an unsigned number compared with             *)
(* IsSequenceNewer and subtracted modulo the width of its type.            *)
(***************************************************************************)
EXTENDS Integers

CONSTANT HalfRange    \* sequenceNumberHalfRange: 2^31 for the 32-bit type

ASSUME HalfRangeAssumption == HalfRange \in Nat \ {0}

Modulus == 2 * HalfRange

Sequence == 0 .. Modulus - 1

\* Neither of two numbers exactly HalfRange apart is newer than the other.
IsSequenceNewer(lhs, rhs) ==
    \/ lhs > rhs /\ lhs - rhs < HalfRange
    \/ lhs < rhs /\ rhs - lhs > HalfRange

\* later - earlier on the unsigned type.
Distance(earlier, later) == (later - earlier) % Modulus

Increment(seq) == (seq + 1) % Modulus
=============================================================================
