-------------------------- MODULE AckTracker_proofs --------------------------
(***************************************************************************)
(* The theorems of the two specifications that share the ack tracker: a    *)
(* session's two receive histories over one stream of wrapping sequences   *)
(* (ReceiveHistory), for every width of the sequences, every size of the   *)
(* two windows and every bound on how late a packet arrives; and the two   *)
(* ends of a reliable session over a lossy network (ReliableUdp), for      *)
(* every size of the window, number of resends and count of packets short  *)
(* of the wrap.                                                            *)
(***************************************************************************)
EXTENDS ReceiveHistory, ReliableUdp, FiniteSetTheorems, TLAPS

-----------------------------------------------------------------------------
\* Wrapping arithmetic: a step of less than half the range is seen as such.

LEMMA AheadIsNewer ==
    ASSUME NEW latest \in Sequence, NEW jump \in 1 .. HalfRange - 1
    PROVE  LET seq == (latest + jump) % Modulus IN
             /\ seq \in Sequence
             /\ seq # latest
             /\ IsSequenceNewer(seq, latest)
             /\ Distance(latest, seq) = jump
<1> DEFINE seq == (latest + jump) % Modulus
<1>0. Modulus \in Nat \ {0} /\ HalfRange \in Nat \ {0} /\ Modulus = 2 * HalfRange
  BY HalfRangeAssumption DEF Modulus
<1>1. CASE latest + jump < Modulus
  <2>1. seq = latest + jump
    BY <1>0, <1>1 DEF Sequence
  <2>2. Distance(latest, seq) = jump
    BY <1>0, <2>1 DEF Sequence, Distance
  <2> QED BY <1>0, <1>1, <2>1, <2>2 DEF Sequence, IsSequenceNewer
<1>2. CASE latest + jump >= Modulus
  <2>1. seq = latest + jump - Modulus
    BY <1>0, <1>2 DEF Sequence
  <2>2. Distance(latest, seq) = jump
    BY <1>0, <1>2, <2>1 DEF Sequence, Distance
  <2> QED BY <1>0, <1>2, <2>1, <2>2 DEF Sequence, IsSequenceNewer
<1> QED BY <1>0, <1>1, <1>2 DEF Sequence

LEMMA BehindIsOlder ==
    ASSUME NEW latest \in Sequence, NEW age \in 1 .. HalfRange - 1
    PROVE  LET seq == (latest - age) % Modulus IN
             /\ seq \in Sequence
             /\ seq # latest
             /\ ~ IsSequenceNewer(seq, latest)
             /\ Distance(seq, latest) = age
<1> DEFINE seq == (latest - age) % Modulus
<1>0. Modulus \in Nat \ {0} /\ HalfRange \in Nat \ {0} /\ Modulus = 2 * HalfRange
  BY HalfRangeAssumption DEF Modulus
<1>1. CASE latest >= age
  <2>1. seq = latest - age
    BY <1>0, <1>1 DEF Sequence
  <2>2. Distance(seq, latest) = age
    BY <1>0, <2>1 DEF Sequence, Distance
  <2> QED BY <1>0, <1>1, <2>1, <2>2 DEF Sequence, IsSequenceNewer
<1>2. CASE latest < age
  <2>1. seq = latest - age + Modulus
    BY <1>0, <1>2 DEF Sequence
  <2>2. Distance(seq, latest) = age
    BY <1>0, <1>2, <2>1 DEF Sequence, Distance
  <2> QED BY <1>0, <1>2, <2>1, <2>2 DEF Sequence, IsSequenceNewer
<1> QED BY <1>0, <1>1, <1>2 DEF Sequence

LEMMA AgeZeroIsLatest ==
    ASSUME NEW latest \in Sequence
    PROVE  (latest - 0) % Modulus = latest
  BY HalfRangeAssumption DEF Sequence, Modulus

-----------------------------------------------------------------------------
\* The inductive invariant: the windows are the history (AckBitsMatchHistory,
\* ReplayWindowMatchesHistory), a receiver that has a latest sequence has it
\* in its history, and one that has none has no history.
HistoryStarts ==
    /\ ackTracker.hasAny <=> seen # {}
    /\ seen # {} => 0 \in seen

HistoryInv ==
    /\ HistoryTypeOK
    /\ HistoryStarts
    /\ AckBitsMatchHistory
    /\ ReplayWindowMatchesHistory
    /\ VerdictsAreTrue

\* The constants' bounds, as the leaves below use them.
LEMMA HistoryBounds ==
    /\ HalfRange \in Nat \ {0} /\ AckBits \in Nat \ {0} /\ ReplayBits \in Nat \ {0}
    /\ AckBits < HalfRange /\ ReplayBits < HalfRange
    /\ Horizon \in Nat /\ Horizon < HalfRange
    /\ AckBits <= Horizon /\ ReplayBits <= Horizon
  BY HalfRangeAssumption, AckBitsAssumption, ReplayBitsAssumption, HorizonAssumption

LEMMA HistoryInitInv == HistoryInit => HistoryInv
<1> SUFFICES ASSUME HistoryInit PROVE HistoryInv OBVIOUS
<1>1. 0 \in Sequence
  BY HistoryBounds DEF Sequence, Modulus
<1>2. HistoryTypeOK
  <2>1. ackTracker \in Trackers /\ guard \in Guards
    BY <1>1 DEF HistoryInit, Trackers, Guards, EmptyTracker, EmptyGuard
  <2>2. verdict \in Verdicts
    BY HistoryBounds DEF HistoryInit, Verdicts, Ages
  <2>3. seen \in SUBSET Ages /\ widthShifted \in BOOLEAN
    BY DEF HistoryInit
  <2> QED BY <2>1, <2>2, <2>3 DEF HistoryTypeOK
<1>3. HistoryStarts /\ AckBitsMatchHistory /\ ReplayWindowMatchesHistory
  BY DEF HistoryInit, EmptyTracker, EmptyGuard, HistoryStarts, AckBitsMatchHistory,
         ReplayWindowMatchesHistory
<1>4. VerdictsAreTrue
  BY HistoryBounds DEF HistoryInit, VerdictsAreTrue
<1> QED BY <1>2, <1>3, <1>4 DEF HistoryInv

LEMMA FirstPreserves ==
    ASSUME HistoryInv, NEW seq \in Sequence, ReceiveFirst(seq)
    PROVE  HistoryInv'
<1> USE HistoryBounds
<1>1. ~ ackTracker.hasAny /\ ~ guard.hasAny
  BY DEF HistoryInv, HistoryTypeOK, ReceiveFirst, HistoryStarts, ReplayWindowMatchesHistory,
         Trackers, Guards
<1>2. ackTracker' = [latest |-> seq, bits |-> {}, hasAny |-> TRUE]
  BY <1>1 DEF ReceiveFirst, Judge, ObserveOutcomes
<1>3. guard' = [latest |-> seq, bits |-> {0}, hasAny |-> TRUE]
  BY <1>1 DEF ReceiveFirst, Judge, ObserveReplay, ReplayStatus
<1>4. verdict' = [data |-> "New", replay |-> "New", age |-> 0, truth |-> "New"]
  BY <1>1 DEF ReceiveFirst, Judge, ReplayStatus, TrackerHas
<1>5. seen' = {0}
  BY DEF ReceiveFirst
<1>6. widthShifted' \in BOOLEAN
  BY <1>1 DEF ReceiveFirst, Judge, ShiftsByWidth, HistoryInv, HistoryTypeOK
<1>7. HistoryTypeOK'
  BY <1>2, <1>3, <1>4, <1>5, <1>6 DEF HistoryTypeOK, Trackers, Guards, Verdicts, Ages
<1>8. (HistoryStarts /\ AckBitsMatchHistory /\ ReplayWindowMatchesHistory)'
  BY <1>2, <1>3, <1>5 DEF HistoryStarts, AckBitsMatchHistory, ReplayWindowMatchesHistory
<1>9. VerdictsAreTrue'
  BY <1>4 DEF VerdictsAreTrue
<1> QED BY <1>7, <1>8, <1>9 DEF HistoryInv

\* The next count is `jump` ahead of the latest: both windows shift by jump.
LEMMA AheadPreserves ==
    ASSUME HistoryInv, NEW jump \in 1 .. HalfRange - 1, ReceiveAhead(jump)
    PROVE  HistoryInv'
<1> USE HistoryBounds
<1> DEFINE seq == (ackTracker.latest + jump) % Modulus
<1>1. /\ ackTracker \in Trackers /\ guard \in Guards /\ seen \in SUBSET Ages
      /\ widthShifted \in BOOLEAN
  BY DEF HistoryInv, HistoryTypeOK
<1>2. ackTracker.hasAny /\ guard.hasAny /\ guard.latest = ackTracker.latest /\ 0 \in seen
  BY <1>1 DEF HistoryInv, ReceiveAhead, HistoryStarts, ReplayWindowMatchesHistory
<1>3. /\ ackTracker.latest \in Sequence
      /\ ackTracker.bits \in SUBSET (1 .. AckBits)
      /\ guard.bits = seen \cap (0 .. ReplayBits - 1)
      /\ ~ widthShifted => ackTracker.bits = seen \cap (1 .. AckBits)
  BY <1>1 DEF Trackers, HistoryInv, ReplayWindowMatchesHistory, AckBitsMatchHistory
<1>4. /\ seq \in Sequence
      /\ seq # ackTracker.latest
      /\ IsSequenceNewer(seq, ackTracker.latest)
      /\ Distance(ackTracker.latest, seq) = jump
  BY <1>3, AheadIsNewer
<1>5. seen' = {0} \cup ({a + jump : a \in seen} \cap Ages)
  BY DEF ReceiveAhead
<1>6. guard' = [latest |-> seq,
                bits   |-> ({b + jump : b \in guard.bits} \cap (0 .. ReplayBits - 1)) \cup {0},
                hasAny |-> TRUE]
  BY <1>2, <1>4 DEF ReceiveAhead, Judge, ObserveReplay, ReplayStatus
<1>7. /\ ackTracker'.latest = seq
      /\ ackTracker'.hasAny = TRUE
      /\ ackTracker'.bits \in IF jump > AckBits THEN {{}}
                          ELSE {shifted \cup {jump} :
                                  shifted \in ShiftOutcomes(ackTracker.bits, jump)}
      /\ ackTracker' = [latest |-> ackTracker'.latest, bits |-> ackTracker'.bits,
                     hasAny |-> ackTracker'.hasAny]
  <2> DEFINE fields == IF jump > AckBits THEN {{}}
                       ELSE {shifted \cup {jump} :
                               shifted \in ShiftOutcomes(ackTracker.bits, jump)}
  <2>1. ackTracker' \in {[latest |-> seq, bits |-> field, hasAny |-> TRUE] : field \in fields}
    BY <1>2, <1>4 DEF ReceiveAhead, Judge, ObserveOutcomes
  <2>2. PICK field \in fields : ackTracker' = [latest |-> seq, bits |-> field, hasAny |-> TRUE]
    BY <2>1
  <2> QED BY <2>2
<1>8. verdict' = [data |-> "New", replay |-> "New", age |-> 0, truth |-> "New"]
  <2>1. ~ TrackerHas(ackTracker, seq)
    BY <1>4 DEF TrackerHas, IsSequenceAcked
  <2>2. ReplayStatus(guard, seq) = "New"
    BY <1>2, <1>4 DEF ReplayStatus
  <2> QED BY <2>1, <2>2 DEF ReceiveAhead, Judge
<1>9. widthShifted' = (widthShifted \/ (jump = AckBits /\ ackTracker.bits # {}))
  BY <1>2, <1>4 DEF ReceiveAhead, Judge, ShiftsByWidth
<1>10. (AckBitsMatchHistory /\ ackTracker.bits \in SUBSET (1 .. AckBits))'
  <2>1. CASE jump > AckBits
    <3>1. ackTracker'.bits = {}
      BY <1>7, <2>1
    <3>2. seen' \cap (1 .. AckBits) = {}
      BY <1>1, <1>5, <2>1 DEF Ages
    <3> QED BY <3>1, <3>2 DEF AckBitsMatchHistory
  <2>2. CASE jump < AckBits
    <3>1. ackTracker'.bits =
            ({b + jump : b \in ackTracker.bits} \cap (1 .. AckBits)) \cup {jump}
      BY <1>7, <2>2 DEF ShiftOutcomes
    <3>2. ackTracker'.bits \in SUBSET (1 .. AckBits)
      BY <1>3, <2>2, <3>1
    <3>3. ASSUME ackTracker.bits = seen \cap (1 .. AckBits)
          PROVE  ackTracker'.bits = seen' \cap (1 .. AckBits)
      BY <1>1, <1>2, <1>5, <2>2, <3>1, <3>3 DEF Ages
    <3>4. ~ widthShifted' => ~ widthShifted
      BY <1>9
    <3> QED BY <1>3, <3>2, <3>3, <3>4 DEF AckBitsMatchHistory
  <2>3. CASE jump = AckBits
    <3>1. PICK shifted \in {{}, ackTracker.bits} : ackTracker'.bits = shifted \cup {jump}
      BY <1>7, <2>3 DEF ShiftOutcomes
    <3>2. ~ widthShifted' => ackTracker.bits = {} /\ ~ widthShifted
      BY <1>9, <2>3
    <3> QED BY <1>1, <1>2, <1>3, <1>5, <2>3, <3>1, <3>2 DEF AckBitsMatchHistory, Ages
  <2> QED BY <2>1, <2>2, <2>3
<1>11. (HistoryStarts /\ ReplayWindowMatchesHistory)'
  <2>1. 0 \in seen'
    BY <1>5
  <2>2. guard'.bits = seen' \cap (0 .. ReplayBits - 1)
    BY <1>1, <1>3, <1>5, <1>6 DEF Ages
  <2>3. guard'.hasAny = ackTracker'.hasAny /\ guard'.latest = ackTracker'.latest
    BY <1>6, <1>7
  <2> QED BY <1>7, <2>1, <2>2, <2>3 DEF HistoryStarts, ReplayWindowMatchesHistory
<1>12. HistoryTypeOK'
  <2>1. ackTracker' \in Trackers
    BY <1>4, <1>7, <1>10 DEF Trackers
  <2>2. guard' \in Guards
    BY <1>4, <1>6 DEF Guards
  <2>3. seen' \in SUBSET Ages /\ verdict' \in Verdicts /\ widthShifted' \in BOOLEAN
    BY <1>5, <1>8, <1>9 DEF Ages, Verdicts
  <2> QED BY <2>1, <2>2, <2>3 DEF HistoryTypeOK
<1>13. VerdictsAreTrue'
  BY <1>8 DEF VerdictsAreTrue
<1> QED BY <1>10, <1>11, <1>12, <1>13 DEF HistoryInv

\* A packet `age` behind the latest: the windows only gain its bit.
LEMMA BehindPreserves ==
    ASSUME HistoryInv, NEW age \in Ages, ReceiveBehind(age)
    PROVE  HistoryInv'
<1> USE HistoryBounds
<1> DEFINE seq == (ackTracker.latest - age) % Modulus
           truth == IF age \in seen THEN "Duplicate" ELSE "New"
<1>1. /\ ackTracker \in Trackers /\ guard \in Guards /\ seen \in SUBSET Ages
      /\ widthShifted \in BOOLEAN
  BY DEF HistoryInv, HistoryTypeOK
<1>2. ackTracker.hasAny /\ guard.hasAny /\ guard.latest = ackTracker.latest /\ 0 \in seen
  BY <1>1 DEF HistoryInv, ReceiveBehind, HistoryStarts, ReplayWindowMatchesHistory
<1>3. /\ ackTracker.latest \in Sequence
      /\ ackTracker.bits \in SUBSET (1 .. AckBits)
      /\ guard.bits = seen \cap (0 .. ReplayBits - 1)
      /\ ~ widthShifted => ackTracker.bits = seen \cap (1 .. AckBits)
  BY <1>1 DEF Trackers, HistoryInv, ReplayWindowMatchesHistory, AckBitsMatchHistory
<1>4. seen' = seen \cup {age}
  BY DEF ReceiveBehind
<1>5. verdict' = [data   |-> IF TrackerHas(ackTracker, seq) THEN "Duplicate" ELSE "New",
                  replay |-> ReplayStatus(guard, seq),
                  age    |-> age,
                  truth  |-> truth]
  BY DEF ReceiveBehind, Judge
<1>6. CASE age = 0
  <2>1. seq = ackTracker.latest
    BY <1>3, <1>6, AgeZeroIsLatest
  <2>2. ackTracker' = ackTracker
    BY <1>2, <2>1 DEF ReceiveBehind, Judge, ObserveOutcomes
  <2>3. ReplayStatus(guard, seq) = "Duplicate" /\ guard' = guard
    BY <1>2, <2>1 DEF ReceiveBehind, Judge, ObserveReplay, ReplayStatus
  <2>4. seen' = seen
    BY <1>2, <1>4, <1>6
  <2>5. widthShifted' = widthShifted
    <3>1. ~ ShiftsByWidth(ackTracker, seq)
      BY <1>3, <2>1 DEF ShiftsByWidth, IsSequenceNewer, Sequence
    <3> QED BY <3>1, <1>1 DEF ReceiveBehind, Judge
  <2>6. verdict' = [data |-> "Duplicate", replay |-> "Duplicate", age |-> 0,
                    truth |-> "Duplicate"]
    BY <1>2, <1>5, <1>6, <2>1, <2>3 DEF TrackerHas, IsSequenceAcked
  <2>7. HistoryTypeOK'
    BY <1>1, <2>2, <2>3, <2>4, <2>5, <2>6 DEF HistoryTypeOK, Verdicts, Ages
  <2>8. VerdictsAreTrue'
    BY <2>6 DEF VerdictsAreTrue
  <2> QED BY <2>2, <2>3, <2>4, <2>5, <2>7, <2>8
          DEF HistoryInv, HistoryStarts, AckBitsMatchHistory, ReplayWindowMatchesHistory
<1>7. CASE age # 0
  <2>1. age \in 1 .. HalfRange - 1
    BY <1>7 DEF Ages
  <2>2. /\ seq \in Sequence
        /\ seq # ackTracker.latest
        /\ ~ IsSequenceNewer(seq, ackTracker.latest)
        /\ Distance(seq, ackTracker.latest) = age
    BY <1>3, <2>1, BehindIsOlder
  <2>3. ackTracker' = IF age \in 1 .. AckBits
                   THEN [latest |-> ackTracker.latest, bits |-> ackTracker.bits \cup {age},
                         hasAny |-> TRUE]
                   ELSE ackTracker
    BY <1>2, <2>2 DEF ReceiveBehind, Judge, ObserveOutcomes
  <2>4. ReplayStatus(guard, seq) = IF age >= ReplayBits THEN "TooOld"
                                   ELSE IF age \in guard.bits THEN "Duplicate"
                                   ELSE "New"
    BY <1>2, <2>2 DEF ReplayStatus
  <2>5. guard' = IF age >= ReplayBits \/ age \in guard.bits
                 THEN guard
                 ELSE [latest |-> guard.latest, bits |-> guard.bits \cup {age},
                       hasAny |-> TRUE]
    BY <1>2, <2>2, <2>4 DEF ReceiveBehind, Judge, ObserveReplay
  <2>6. widthShifted' = widthShifted
    <3>1. ~ ShiftsByWidth(ackTracker, seq)
      BY <2>2 DEF ShiftsByWidth
    <3> QED BY <3>1, <1>1 DEF ReceiveBehind, Judge
  <2>7. /\ ackTracker'.latest = ackTracker.latest /\ ackTracker'.hasAny = ackTracker.hasAny
        /\ guard'.latest = guard.latest /\ guard'.hasAny = guard.hasAny
    BY <1>2, <2>3, <2>5
  <2>8. guard'.bits = seen' \cap (0 .. ReplayBits - 1)
    <3>1. CASE age >= ReplayBits \/ age \in guard.bits
      BY <1>1, <1>3, <1>4, <2>1, <2>5, <3>1
    <3>2. CASE ~ (age >= ReplayBits \/ age \in guard.bits)
      <4>1. guard'.bits = guard.bits \cup {age}
        BY <2>5, <3>2
      <4> QED BY <1>3, <1>4, <2>1, <3>2, <4>1
    <3> QED BY <3>1, <3>2
  <2>9. AckBitsMatchHistory'
    <3>1. CASE age \in 1 .. AckBits
      <4>1. ackTracker'.bits = ackTracker.bits \cup {age}
        BY <2>3, <3>1
      <4> QED BY <1>3, <1>4, <2>6, <3>1, <4>1 DEF AckBitsMatchHistory
    <3>2. CASE age \notin 1 .. AckBits
      BY <1>3, <1>4, <2>3, <2>6, <3>2 DEF AckBitsMatchHistory
    <3> QED BY <3>1, <3>2
  <2>10. (HistoryStarts /\ ReplayWindowMatchesHistory)'
    BY <1>2, <1>4, <2>7, <2>8 DEF HistoryStarts, ReplayWindowMatchesHistory
  <2>11. HistoryTypeOK'
    <3>1. ackTracker' \in Trackers
      BY <1>1, <2>3 DEF Trackers
    <3>2. guard' \in Guards
      <4>1. age < ReplayBits => age \in 0 .. ReplayBits - 1
        BY <2>1
      <4> QED BY <1>1, <2>1, <2>5, <4>1 DEF Guards
    <3>3. ReplayStatus(guard, seq) \in {"New", "Duplicate", "TooOld"}
      BY <2>4
    <3>4. verdict' \in Verdicts
      BY <1>5, <3>3 DEF Verdicts
    <3>5. seen' \in SUBSET Ages /\ widthShifted' \in BOOLEAN
      BY <1>1, <1>4, <2>6
    <3> QED BY <3>1, <3>2, <3>4, <3>5 DEF HistoryTypeOK
  <2>12. VerdictsAreTrue'
    <3>1. /\ verdict'.replay = ReplayStatus(guard, seq)
          /\ verdict'.age = age
          /\ verdict'.truth = IF age \in seen THEN "Duplicate" ELSE "New"
          /\ verdict'.data = IF TrackerHas(ackTracker, seq) THEN "Duplicate" ELSE "New"
      BY <1>5
    <3>2. age < ReplayBits => (age \in guard.bits <=> age \in seen)
      BY <1>3, <2>1
    <3>3. TrackerHas(ackTracker, seq) <=> age \in 1 .. AckBits /\ age \in ackTracker.bits
      BY <1>2, <2>2 DEF TrackerHas, IsSequenceAcked
    <3>4. ASSUME ~ widthShifted', verdict'.age <= AckBits
          PROVE  verdict'.data = verdict'.truth
      <4>1. ~ widthShifted
        BY <2>6, <3>4, Zenon
      <4>2. TrackerHas(ackTracker, seq) <=> age \in seen
        BY <1>3, <2>1, <3>1, <3>3, <3>4, <4>1
      <4> QED BY <3>1, <4>2, Zenon
    <3>5. verdict'.replay = "New" => verdict'.truth = "New"
      BY <2>1, <2>4, <3>1, <3>2
    <3>6. verdict'.replay = "Duplicate" => verdict'.truth = "Duplicate"
      BY <1>3, <2>4, <3>1
    <3>7. verdict'.replay = "TooOld" <=> verdict'.age >= ReplayBits
      BY <2>4, <3>1
    <3> QED BY <3>4, <3>5, <3>6, <3>7, Zenon DEF VerdictsAreTrue
  <2> QED BY <2>9, <2>10, <2>11, <2>12 DEF HistoryInv
<1> QED BY <1>6, <1>7

LEMMA HistoryNextInv == HistoryInv /\ [HistoryNext]_historyVars => HistoryInv'
<1> SUFFICES ASSUME HistoryInv, [HistoryNext]_historyVars PROVE HistoryInv'
  OBVIOUS
<1>1. ASSUME NEW seq \in Sequence, ReceiveFirst(seq) PROVE HistoryInv'
  BY <1>1, FirstPreserves
<1>2. ASSUME NEW jump \in 1 .. HalfRange - 1, ReceiveAhead(jump) PROVE HistoryInv'
  BY <1>2, AheadPreserves
<1>3. ASSUME NEW age \in Ages, ReceiveBehind(age) PROVE HistoryInv'
  BY <1>3, BehindPreserves
<1>4. CASE UNCHANGED historyVars
  BY <1>4 DEF historyVars, HistoryInv, HistoryTypeOK, HistoryStarts, AckBitsMatchHistory,
              ReplayWindowMatchesHistory, VerdictsAreTrue
<1> QED BY <1>1, <1>2, <1>3, <1>4 DEF HistoryNext

\* The receivers keep the history, in every behaviour.
THEOREM HistoryInvHolds == HistorySpec => []HistoryInv
  BY HistoryInitInv, HistoryNextInv, PTL DEF HistorySpec

\* Every value the receivers hold has the width of its type.
THEOREM HistoryTyped == HistorySpec => []HistoryTypeOK
<1>1. HistoryInv => HistoryTypeOK
  BY DEF HistoryInv
<1> QED BY <1>1, HistoryInvHolds, PTL

\* The acknowledgement bit field names exactly the received ones of the
\* sequences before the latest, unless a shift by its whole width happened, and
\* the replay window of the guard is the history of its last sequences.
THEOREM FieldsAreHistories == HistorySpec => []HistoriesAreTrue
<1>1. HistoryInv => HistoriesAreTrue
  BY DEF HistoryInv, HistoriesAreTrue
<1> QED BY <1>1, HistoryInvHolds, PTL

\* No authenticated packet passes the replay guard twice, none that came for
\* the first time within the window is dropped, and the tracker's new-data
\* answer is right for every packet its field reaches.
THEOREM VerdictsHold == HistorySpec => []VerdictsAreTrue
<1>1. HistoryInv => VerdictsAreTrue
  BY DEF HistoryInv
<1> QED BY <1>1, HistoryInvHolds, PTL

-----------------------------------------------------------------------------
\* The numbers a session counts with never wrap within the bound.

Small == 0 .. HalfRange - 2

LEMMA SessionBounds ==
  /\ HalfRange \in Nat \ {0} /\ AckBits \in Nat \ {0} /\ AckBits < HalfRange
  /\ MaxPending \in Nat \ {0} /\ MaxResend \in [Side -> Nat]
  /\ \A s \in Side : MaxSequence[s] \in Nat /\ MaxSequence[s] <= HalfRange - 2
  BY HalfRangeAssumption, AckBitsAssumption, ReliableAssumption

LEMMA OtherSide ==
  \A s \in Side : /\ Other(s) \in Side /\ Other(Other(s)) = s /\ Other(s) # s
                  /\ \A t \in Side : t = s \/ t = Other(s)
  BY DEF Side, Other

LEMMA SmallSequences ==
  ASSUME NEW a \in Small, NEW b \in Small
  PROVE  /\ a \in Sequence
         /\ IsSequenceNewer(a, b) <=> a > b
         /\ a <= b => Distance(a, b) = b - a
         /\ Increment(a) = a + 1
  <1>1. HalfRange \in Nat /\ Modulus = 2 * HalfRange /\ Modulus \in Nat \ {0}
    BY SessionBounds DEF Modulus
  <1>2. a < Modulus - 1 /\ b < Modulus /\ a \in Nat /\ b \in Nat
    BY <1>1 DEF Small
  <1>3. a <= b => (b - a) % Modulus = b - a
    BY <1>1, <1>2
  <1>4. (a + 1) % Modulus = a + 1
    BY <1>1, <1>2
  <1> QED
    BY <1>1, <1>2, <1>3, <1>4 DEF Sequence, IsSequenceNewer, Distance, Increment, Small

\* What an acknowledgement says of a sequence, without wrapping.
LEMMA SmallAcked ==
  ASSUME NEW q \in Small, NEW ack \in Small, NEW bits
  PROVE  IsSequenceAcked(q, ack, bits)
           <=> q = ack \/ (ack - q \in 1 .. AckBits /\ ack - q \in bits)
  <1>1. IsSequenceNewer(q, ack) <=> q > ack
    BY SmallSequences
  <1>2. q <= ack => Distance(q, ack) = ack - q
    BY SmallSequences
  <1> QED
    BY <1>1, <1>2, SessionBounds DEF IsSequenceAcked, Small

\* The tracker is exact: it has the newest of the received sequences, and the
\* bits of just those received that are at most AckBits before it.
Follows(tr, received) ==
    /\ tr.hasAny = FALSE => tr.latest = 0 /\ tr.bits = {} /\ received = {}
    /\ tr.hasAny = TRUE => tr.latest \in received /\ \A q \in received : q <= tr.latest
    /\ \A d \in 1 .. AckBits : d \in tr.bits <=> tr.latest - d \in received

LEMMA ObserveTyped ==
  ASSUME NEW tr \in Trackers, tr.latest \in Small, NEW seq \in Small \ {0},
         NEW observed \in ObserveOutcomes(tr, seq)
  PROVE  /\ observed \in Trackers
         /\ observed.hasAny = TRUE
         /\ observed.latest = tr.latest \/ observed.latest = seq
         /\ tr.hasAny = TRUE => observed.latest >= tr.latest
  <1>1. /\ seq \in Sequence
        /\ IsSequenceNewer(seq, tr.latest) <=> seq > tr.latest
    BY SmallSequences
  <1>2. PICK latest \in Small : latest = tr.latest
    OBVIOUS
  <1>3. CASE tr.hasAny = FALSE
    <2>1. observed = [latest |-> seq, bits |-> {}, hasAny |-> TRUE]
      BY <1>3 DEF ObserveOutcomes
    <2> QED
      BY <1>1, <1>3, <2>1 DEF Trackers
  <1>4. CASE tr.hasAny = TRUE /\ seq > latest
    <2>1. Distance(latest, seq) = seq - latest
      BY <1>4, SmallSequences DEF Small
    <2>2. PICK bits : /\ observed = [latest |-> seq, bits |-> bits, hasAny |-> TRUE]
                      /\ bits \in IF seq - latest > AckBits THEN {{}}
                                  ELSE {shifted \cup {seq - latest} :
                                          shifted \in ShiftOutcomes(tr.bits, seq - latest)}
      BY <1>1, <1>2, <1>4, <2>1 DEF ObserveOutcomes, Small
    <2>3. bits \subseteq 1 .. AckBits
      BY <1>2, <1>4, <2>2, SessionBounds DEF ShiftOutcomes, Trackers, Small
    <2> QED
      BY <1>1, <1>2, <1>4, <2>2, <2>3 DEF Trackers, Small
  <1>5. CASE tr.hasAny = TRUE /\ ~ seq > latest
    <2>1. \/ observed = tr
          \/ \E d \in 1 .. AckBits :
                observed = [latest |-> tr.latest, bits |-> tr.bits \cup {d}, hasAny |-> TRUE]
      BY <1>1, <1>2, <1>5 DEF ObserveOutcomes
    <2>2. ASSUME NEW d \in 1 .. AckBits,
                 observed = [latest |-> tr.latest, bits |-> tr.bits \cup {d}, hasAny |-> TRUE]
          PROVE  observed \in Trackers /\ observed.hasAny = TRUE /\ observed.latest = latest
      BY <1>2, <2>2 DEF Trackers
    <2>3. CASE observed = tr
      BY <1>2, <1>5, <2>3 DEF Small
    <2>4. CASE observed # tr
      <3>1. PICK d \in 1 .. AckBits :
              observed = [latest |-> tr.latest, bits |-> tr.bits \cup {d}, hasAny |-> TRUE]
        BY <2>1, <2>4
      <3>2. observed \in Trackers /\ observed.hasAny = TRUE /\ observed.latest = latest
        BY <2>2, <3>1
      <3> QED
        BY <1>2, <3>2 DEF Small
    <2> QED
      BY <2>3, <2>4
  <1> QED
    BY <1>2, <1>3, <1>4, <1>5 DEF Trackers

\* An exact tracker stays exact, unless the arrival shifts its field by the
\* whole width.
LEMMA ObserveFollows ==
  ASSUME NEW tr \in Trackers, tr.latest \in Small, NEW seq \in Small \ {0},
         NEW observed \in ObserveOutcomes(tr, seq), ~ ShiftsByWidth(tr, seq),
         NEW received \in SUBSET (Small \ {0}), Follows(tr, received)
  PROVE  Follows(observed, received \cup {seq})
  <1>1. /\ IsSequenceNewer(seq, tr.latest) <=> seq > tr.latest
        /\ seq <= tr.latest => Distance(seq, tr.latest) = tr.latest - seq
        /\ tr.latest <= seq => Distance(tr.latest, seq) = seq - tr.latest
    BY SmallSequences
  <1>2. PICK latest \in Small : latest = tr.latest
    OBVIOUS
  <1>3. PICK old \in SUBSET (1 .. AckBits) : old = tr.bits
    BY DEF Trackers
  <1>4. CASE tr.hasAny = FALSE
    <2>1. observed = [latest |-> seq, bits |-> {}, hasAny |-> TRUE]
      BY <1>4 DEF ObserveOutcomes
    <2>2. received = {}
      BY <1>4 DEF Follows
    <2> QED
      BY <2>1, <2>2, SessionBounds DEF Follows, Small
  <1>5. CASE tr.hasAny = TRUE
    <2>1. latest \in received /\ \A q \in received : q <= latest
      BY <1>2, <1>5 DEF Follows
    <2>2. \A d \in 1 .. AckBits : d \in old <=> latest - d \in received
      BY <1>2, <1>3 DEF Follows
    <2>3. CASE seq > latest
      <3>1. PICK ahead \in Nat \ {0} : ahead = seq - latest
        BY <2>3 DEF Small
      <3>2. PICK bits : /\ observed = [latest |-> seq, bits |-> bits, hasAny |-> TRUE]
                        /\ bits \in IF ahead > AckBits THEN {{}}
                                    ELSE {shifted \cup {ahead} :
                                            shifted \in ShiftOutcomes(old, ahead)}
        BY <1>1, <1>2, <1>3, <1>5, <2>3, <3>1 DEF ObserveOutcomes, Small
      <3>3. \A q \in received \cup {seq} : q <= seq
        BY <2>1, <2>3 DEF Small
      <3>4. \A d \in 1 .. AckBits : d \in bits <=> seq - d \in received \cup {seq}
        <4>1. CASE ahead > AckBits
          <5>1. \A d \in 1 .. AckBits : seq - d > latest /\ seq - d # seq
            BY <3>1, <4>1, SessionBounds DEF Small
          <5>2. \A d \in 1 .. AckBits : seq - d \notin received
            BY <2>1, <5>1, SessionBounds DEF Small
          <5> QED
            BY <3>2, <4>1, <5>1, <5>2
        <4>2. CASE ahead < AckBits
          <5>1. bits = ({b + ahead : b \in old} \cap (1 .. AckBits)) \cup {ahead}
            BY <3>2, <4>2, SessionBounds DEF ShiftOutcomes
          <5>2. ASSUME NEW d \in 1 .. AckBits
                PROVE  d \in bits <=> seq - d \in received \cup {seq}
            <6>1. CASE d = ahead
              BY <2>1, <3>1, <5>1, <6>1 DEF Small
            <6>2. CASE d < ahead
              <7>1. d \notin bits
                BY <5>1, <6>2, SessionBounds
              <7>2. seq - d > latest /\ seq - d # seq
                BY <3>1, <6>2, SessionBounds DEF Small
              <7> QED
                BY <2>1, <7>1, <7>2, SessionBounds DEF Small
            <6>3. CASE d > ahead
              <7>1. PICK b \in 1 .. AckBits : b = d - ahead
                BY <3>1, <6>3, SessionBounds
              <7>2. d \in bits <=> b \in old
                BY <3>1, <5>1, <6>3, <7>1, SessionBounds
              <7>3. seq - d = latest - b /\ seq - d # seq
                BY <3>1, <7>1, SessionBounds DEF Small
              <7> QED
                BY <2>2, <7>2, <7>3
            <6> QED
              BY <3>1, <6>1, <6>2, <6>3, SessionBounds
          <5> QED
            BY <5>2
        <4>3. CASE ahead = AckBits
          <5>1. old = {}
            BY <1>1, <1>2, <1>3, <1>5, <2>3, <3>1, <4>3 DEF ShiftsByWidth, Small
          <5>2. bits = {ahead}
            BY <3>2, <4>3, <5>1, SessionBounds DEF ShiftOutcomes
          <5>3. ASSUME NEW d \in 1 .. AckBits
                PROVE  d \in bits <=> seq - d \in received \cup {seq}
            <6>1. CASE d = ahead
              BY <2>1, <3>1, <5>2, <6>1 DEF Small
            <6>2. CASE d < ahead
              <7>1. seq - d > latest /\ seq - d # seq
                BY <3>1, <6>2, SessionBounds DEF Small
              <7> QED
                BY <2>1, <5>2, <6>2, <7>1, SessionBounds DEF Small
            <6> QED
              BY <4>3, <6>1, <6>2, SessionBounds
          <5> QED
            BY <5>3
        <4> QED
          BY <3>1, <4>1, <4>2, <4>3, SessionBounds
      <3> QED
        BY <3>2, <3>3, <3>4 DEF Follows
    <2>4. CASE seq = latest
      <3>1. observed = tr
        BY <1>2, <1>5, <2>4 DEF ObserveOutcomes
      <3>2. received \cup {seq} = received
        BY <2>1, <2>4
      <3> QED
        BY <3>1, <3>2
    <2>5. CASE seq < latest
      <3>1. PICK behind \in Nat \ {0} : behind = latest - seq
        BY <2>5 DEF Small
      <3>2. observed = IF behind <= AckBits
                       THEN [latest |-> latest, bits |-> old \cup {behind}, hasAny |-> TRUE]
                       ELSE tr
        BY <1>1, <1>2, <1>3, <1>5, <2>5, <3>1, SessionBounds DEF ObserveOutcomes, Small
      <3>3. observed.latest = latest /\ observed.hasAny = TRUE
        BY <1>2, <1>5, <3>2
      <3>4. \A d \in 1 .. AckBits : d \in observed.bits <=> d \in old \/ d = behind
        BY <1>3, <3>1, <3>2, SessionBounds
      <3>5. \A d \in 1 .. AckBits : latest - d = seq <=> d = behind
        BY <3>1, SessionBounds DEF Small
      <3>6. \A q \in received \cup {seq} : q <= latest
        BY <2>1, <2>5 DEF Small
      <3> QED
        BY <2>1, <2>2, <3>3, <3>4, <3>5, <3>6 DEF Follows
    <2> QED
      BY <2>3, <2>4, <2>5 DEF Small
  <1> QED
    BY <1>4, <1>5 DEF Trackers

\* What an exact tracker says of an arrival: it was received before, or else
\* it is new or lies further back than the field reaches.
LEMMA FollowsHas ==
  ASSUME NEW tr \in Trackers, tr.latest \in Small, NEW seq \in Small \ {0},
         NEW received \in SUBSET (Small \ {0}), Follows(tr, received)
  PROVE  /\ TrackerHas(tr, seq) => seq \in received
         /\ seq \in received /\ ~ TrackerHas(tr, seq) => tr.latest - seq > AckBits
  <1>1. PICK latest \in Small : latest = tr.latest
    OBVIOUS
  <1>2. TrackerHas(tr, seq) <=> /\ tr.hasAny
                                /\ seq = latest \/ (latest - seq \in 1 .. AckBits
                                                    /\ latest - seq \in tr.bits)
    BY <1>1, SmallAcked DEF TrackerHas
  <1>3. ASSUME TrackerHas(tr, seq) PROVE seq \in received
    <2>1. tr.hasAny = TRUE
      BY <1>2, <1>3 DEF Trackers
    <2>2. CASE seq = latest
      BY <1>1, <2>1, <2>2 DEF Follows
    <2>3. CASE latest - seq \in 1 .. AckBits /\ latest - seq \in tr.bits
      <3>1. PICK d \in 1 .. AckBits : d = latest - seq
        BY <2>3
      <3>2. latest - d \in received
        BY <1>1, <2>3, <3>1 DEF Follows
      <3> QED
        BY <3>1, <3>2, SessionBounds DEF Small
    <2> QED
      BY <1>2, <1>3, <2>2, <2>3
  <1>4. ASSUME seq \in received, ~ TrackerHas(tr, seq) PROVE latest - seq > AckBits
    <2>1. tr.hasAny = TRUE
      BY <1>4 DEF Follows, Trackers
    <2>2. seq <= latest /\ seq # latest
      BY <1>1, <1>2, <1>4, <2>1 DEF Follows, Small
    <2>3. ASSUME latest - seq <= AckBits PROVE FALSE
      <3>1. PICK d \in 1 .. AckBits : d = latest - seq
        BY <2>2, <2>3, SessionBounds DEF Small
      <3>2. latest - d = seq
        BY <3>1, SessionBounds DEF Small
      <3>3. d \in tr.bits
        BY <1>1, <1>4, <3>2 DEF Follows
      <3> QED
        BY <1>2, <1>4, <2>1, <3>1, <3>3
    <2> QED
      BY <2>3, SessionBounds DEF Small
  <1> QED
    BY <1>1, <1>3, <1>4

-----------------------------------------------------------------------------
\* The inductive invariant of the session.

Delivered(side) == {q \in 1 .. MaxSequence[side] : delivered[side][q] > 0}

SidesTyped ==
    /\ next \in [Side -> Nat]
    /\ \A s \in Side : next[s] \in 1 .. MaxSequence[s] + 1
    /\ DOMAIN delivered = Side
    /\ \A s \in Side : delivered[s] \in [1 .. MaxSequence[s] -> 0 .. 2]
    /\ abandoned \in [Side -> SUBSET Nat]
    /\ overflowed \in [Side -> BOOLEAN]
    /\ owesAck \in BOOLEAN
    /\ session \in {"Open", "Closing", "Closed"}

\* Only sequences that were taken wait for an acknowledgement.
WindowsFit ==
    /\ DOMAIN pending = Side
    /\ \A s \in Side :
          /\ DOMAIN pending[s] \subseteq Sent(s)
          /\ Cardinality(DOMAIN pending[s]) <= MaxPending
          /\ \A q \in DOMAIN pending[s] : pending[s][q] \in 0 .. MaxResend[s]

\* The tracker of a side is exact about what the other side has sent, until it
\* shifts its field by the whole width.
TrackersFollow ==
    /\ tracker \in [Side -> Trackers]
    /\ \A s \in Side : tracker[Other(s)].latest \in 0 .. next[s] - 1
    /\ \A s \in Side : overflowed[Other(s)] = FALSE => Follows(tracker[Other(s)], Delivered(s))

\* However old a packet is, what it acknowledges was received.
IsTrueAck(m) ==
    /\ m.to \in Side
    /\ m.ack \in 0 .. next[m.to] - 1
    /\ m.bits \subseteq 1 .. AckBits
    /\ m.kind = "Data" => m.seq \in Sent(Other(m.to))
    /\ overflowed[Other(m.to)] = FALSE =>
          \A q \in Sent(m.to) : q = m.ack \/ m.ack - q \in m.bits => delivered[m.to][q] > 0

NetIsTrue == \A m \in net : IsTrueAck(m)

SettledReached ==
    \A s \in Side : \A q \in Sent(s) \ (DOMAIN pending[s] \cup abandoned[s]) :
        delivered[s][q] > 0 \/ overflowed[Other(s)] = TRUE

RepeatsReached ==
    \A s \in Side : \A q \in 1 .. MaxSequence[s] :
        delivered[s][q] > 1 => tracker[Other(s)].latest - q > AckBits \/ overflowed[Other(s)] = TRUE

SessionInv == /\ SidesTyped /\ WindowsFit /\ TrackersFollow /\ NetIsTrue
              /\ SettledReached /\ RepeatsReached

LEMMA SentIsSmall ==
  ASSUME SidesTyped, NEW s \in Side
  PROVE  /\ Sent(s) \subseteq Small \ {0} /\ Sent(s) \subseteq 1 .. MaxSequence[s]
         /\ 0 .. next[s] - 1 \subseteq Small
         /\ next[s] \in Nat \ {0} /\ Delivered(s) \subseteq Small \ {0}
         /\ IsFiniteSet(Sent(s))
  <1>1. next[s] \in Nat \ {0} /\ next[s] <= MaxSequence[s] + 1 /\ next[s] - 1 \in Int
    BY SessionBounds DEF SidesTyped
  <1>2. IsFiniteSet(1 .. next[s] - 1)
    BY <1>1, FS_Interval
  <1> QED
    BY <1>1, <1>2, SessionBounds DEF Sent, Small, Delivered

LEMMA SessionInit == Init => SessionInv
  <1> SUFFICES ASSUME Init PROVE SessionInv
    OBVIOUS
  <1>1. /\ next \in [Side -> Nat] /\ \A s \in Side : next[s] = 1
        /\ DOMAIN pending = Side /\ \A s \in Side : DOMAIN pending[s] = {}
        /\ \A s \in Side : tracker[s] = EmptyTracker
        /\ net = {} /\ \A s \in Side : overflowed[s] = FALSE
    BY DEF Init, EmptyTable
  <1>2. EmptyTracker \in Trackers
    BY SessionBounds DEF EmptyTracker, Trackers, Sequence, Modulus
  <1>3. SidesTyped
    <2>1. /\ DOMAIN delivered = Side
          /\ \A s \in Side : delivered[s] \in [1 .. MaxSequence[s] -> 0 .. 2]
          /\ abandoned \in [Side -> SUBSET Nat] /\ overflowed \in [Side -> BOOLEAN]
          /\ owesAck \in BOOLEAN /\ session \in {"Open", "Closing", "Closed"}
      <3>1. /\ DOMAIN delivered = Side
            /\ \A s \in Side : delivered[s] \in [1 .. MaxSequence[s] -> 0 .. 2]
        BY DEF Init
      <3>2. abandoned \in [Side -> SUBSET Nat] /\ overflowed \in [Side -> BOOLEAN]
        BY DEF Init
      <3>3. owesAck \in BOOLEAN /\ session \in {"Open", "Closing", "Closed"}
        BY DEF Init
      <3> QED
        BY <3>1, <3>2, <3>3
    <2> QED
      BY <1>1, <2>1, SessionBounds DEF SidesTyped
  <1>4. WindowsFit
    <2>1. Cardinality({}) = 0
      BY FS_EmptySet
    <2> QED
      BY <1>1, <2>1, SessionBounds DEF WindowsFit
  <1>5. \A s \in Side : Sent(s) = {} /\ Delivered(s) = {}
    <2>1. \A s \in Side : \A q \in 1 .. MaxSequence[s] : delivered[s][q] = 0
      BY DEF Init
    <2> QED
      BY <1>1, <2>1 DEF Sent, Delivered
  <1>6. TrackersFollow
    <2>1. Follows(EmptyTracker, {})
      BY DEF Follows, EmptyTracker
    <2>2. tracker \in [Side -> Trackers]
      BY <1>2 DEF Init
    <2>3. ASSUME NEW s \in Side
          PROVE  tracker[Other(s)] = EmptyTracker /\ next[s] = 1
      BY <1>1, OtherSide
    <2>4. EmptyTracker.latest = 0
      BY DEF EmptyTracker
    <2>5. \A s \in Side : tracker[Other(s)].latest \in 0 .. next[s] - 1
      BY <2>3, <2>4
    <2> QED
      BY <1>5, <2>1, <2>2, <2>3, <2>5 DEF TrackersFollow
  <1>7. NetIsTrue /\ SettledReached /\ RepeatsReached
    <2>1. \A s \in Side : \A q \in 1 .. MaxSequence[s] : delivered[s][q] = 0
      BY DEF Init
    <2> QED
      BY <1>1, <1>5, <2>1 DEF NetIsTrue, SettledReached, RepeatsReached
  <1> QED
    BY <1>3, <1>4, <1>6, <1>7 DEF SessionInv

\* A true acknowledgement settles only what was delivered.
LEMMA UnackedFacts ==
  ASSUME SessionInv, NEW m \in net, NEW side \in Side, side = m.to
  PROVE  /\ DOMAIN Unacked(side, m) \subseteq DOMAIN pending[side]
         /\ \A q \in DOMAIN Unacked(side, m) : Unacked(side, m)[q] = pending[side][q]
         /\ \A q \in DOMAIN pending[side] \ DOMAIN Unacked(side, m) :
               delivered[side][q] > 0 \/ overflowed[Other(side)] = TRUE
  <1>1. IsTrueAck(m) /\ SidesTyped /\ WindowsFit
    BY DEF SessionInv, NetIsTrue
  <1>2. DOMAIN pending[side] \subseteq Sent(side)
    BY <1>1 DEF WindowsFit
  <1>3. PICK ack \in Small : ack = m.ack
    BY <1>1, SentIsSmall DEF IsTrueAck
  <1>4. ASSUME NEW q \in DOMAIN pending[side], IsSequenceAcked(q, m.ack, m.bits)
        PROVE  delivered[side][q] > 0 \/ overflowed[Other(side)] = TRUE
    <2>1. q \in Small
      BY <1>1, <1>2, SentIsSmall
    <2>2. q = ack \/ ack - q \in m.bits
      BY <1>3, <1>4, <2>1, SmallAcked
    <2>3. overflowed[Other(side)] \in BOOLEAN
      BY <1>1, OtherSide DEF SidesTyped
    <2> QED
      BY <1>1, <1>2, <1>3, <2>2, <2>3 DEF IsTrueAck
  <1>5. DOMAIN Unacked(side, m)
          = IF CanProcessAck(side, m.ack)
            THEN DOMAIN pending[side]
                   \ {q \in DOMAIN pending[side] : IsSequenceAcked(q, m.ack, m.bits)}
            ELSE DOMAIN pending[side]
    BY DEF Unacked, Drop, Restrict
  <1>6. \A q \in DOMAIN Unacked(side, m) : Unacked(side, m)[q] = pending[side][q]
    BY DEF Unacked, Drop, Restrict
  <1> QED
    BY <1>4, <1>5, <1>6

\* A window that only loses entries, or counts a resend, fits.
LEMMA ShrunkWindow ==
  ASSUME SidesTyped, WindowsFit, NEW side \in Side, NEW window,
         DOMAIN window \subseteq DOMAIN pending[side],
         \A q \in DOMAIN window : window[q] \in 0 .. MaxResend[side],
         pending' = [pending EXCEPT ![side] = window], UNCHANGED next
  PROVE  WindowsFit'
  <1>1. DOMAIN pending[side] \subseteq Sent(side) /\ Cardinality(DOMAIN pending[side]) <= MaxPending
    BY DEF WindowsFit
  <1>2. IsFiniteSet(DOMAIN pending[side])
    BY <1>1, SentIsSmall, FS_Subset
  <1>3. /\ Cardinality(DOMAIN window) <= Cardinality(DOMAIN pending[side])
        /\ IsFiniteSet(DOMAIN window)
    BY <1>2, FS_Subset
  <1>4. Cardinality(DOMAIN window) \in Nat /\ Cardinality(DOMAIN pending[side]) \in Nat
    BY <1>2, <1>3, FS_CardinalityType
  <1>5. Cardinality(DOMAIN window) <= MaxPending
    BY <1>1, <1>3, <1>4, SessionBounds
  <1>6. /\ DOMAIN pending' = Side /\ pending'[side] = window
        /\ \A s \in Side : s # side => pending'[s] = pending[s]
    BY DEF WindowsFit
  <1>7. \A s \in Side : Sent(s)' = Sent(s)
    BY DEF Sent
  <1> QED
    BY <1>1, <1>5, <1>6, <1>7 DEF WindowsFit

\* What a tracker names was received.
LEMMA FollowsNames ==
  ASSUME NEW tr \in Trackers, tr.latest \in Small, NEW received, Follows(tr, received),
         NEW q \in Small \ {0}, q = tr.latest \/ tr.latest - q \in tr.bits
  PROVE  q \in received
  <1>1. CASE q = tr.latest
    BY <1>1 DEF Follows, Trackers
  <1>2. CASE tr.latest - q \in tr.bits
    <2>1. PICK d \in 1 .. AckBits : d = tr.latest - q /\ d \in tr.bits
      BY <1>2 DEF Trackers
    <2>2. tr.latest - d = q
      BY <2>1, SessionBounds DEF Small
    <2> QED
      BY <2>1, <2>2 DEF Follows
  <1> QED
    BY <1>1, <1>2

\* The direction in which sequences, deliveries and overflows change.
Onward ==
    \A s \in Side :
        /\ next'[s] \in Nat /\ next'[s] >= next[s]
        /\ \A q \in 1 .. MaxSequence[s] : delivered[s][q] > 0 => delivered'[s][q] > 0
        /\ overflowed[s] = TRUE => overflowed'[s] = TRUE

LEMMA TrueAckStays ==
  ASSUME SidesTyped, Onward, NEW m, IsTrueAck(m)
  PROVE  IsTrueAck(m)'
  <1>1. PICK side \in Side : side = m.to
    BY DEF IsTrueAck
  <1>2. Other(side) \in Side
    BY OtherSide
  <1>3. PICK ack \in Nat : ack = m.ack /\ ack <= next[side] - 1
    BY <1>1 DEF IsTrueAck, SidesTyped
  <1>4. next[side] \in Nat /\ next'[side] \in Nat /\ next'[side] >= next[side]
    BY DEF SidesTyped, Onward
  <1>5. (m.ack \in 0 .. next[m.to] - 1)'
    BY <1>1, <1>3, <1>4
  <1>6. (m.kind = "Data" => m.seq \in Sent(Other(m.to)))'
    <2>1. /\ next[Other(side)] \in Nat /\ next'[Other(side)] \in Nat
          /\ next'[Other(side)] >= next[Other(side)]
      BY <1>2 DEF SidesTyped, Onward
    <2> QED
      BY <1>1, <2>1 DEF IsTrueAck, Sent
  <1>7. ASSUME overflowed'[Other(side)] = FALSE, NEW q \in 1 .. next'[side] - 1,
               q = ack \/ ack - q \in m.bits
        PROVE  delivered'[side][q] > 0
    <2>1. overflowed[Other(side)] = FALSE
      BY <1>2, <1>7 DEF Onward, SidesTyped
    <2>2. q <= ack
      BY <1>1, <1>3, <1>4, <1>7, SessionBounds DEF IsTrueAck
    <2>3. q \in Sent(side)
      BY <1>3, <1>4, <2>2 DEF Sent
    <2>4. delivered[side][q] > 0
      BY <1>1, <1>3, <1>7, <2>1, <2>3 DEF IsTrueAck
    <2> QED
      BY <2>3, <2>4, SentIsSmall DEF Onward
  <1> QED
    BY <1>1, <1>3, <1>5, <1>6, <1>7 DEF IsTrueAck, Sent

\* A side that sends what its tracker then says sends the truth.
LEMMA NewAckIsTrue ==
  ASSUME SidesTyped', TrackersFollow', NEW side \in Side, NEW m,
         m.to = Other(side), m.ack = tracker'[side].latest, m.bits = tracker'[side].bits,
         m.kind = "Data" => m.seq \in Sent(side)'
  PROVE  IsTrueAck(m)'
  <1>1. PICK other \in Side : other = Other(side) /\ side = Other(other)
    BY OtherSide
  <1>2. /\ tracker'[side] \in Trackers
        /\ tracker'[side].latest \in 0 .. next'[other] - 1
        /\ overflowed'[side] = FALSE => Follows(tracker'[side], Delivered(other)')
    BY <1>1 DEF TrackersFollow
  <1>3. /\ Sent(other)' \subseteq Small \ {0} /\ Sent(other)' \subseteq 1 .. MaxSequence[other]
        /\ tracker'[side].latest \in Small
    BY <1>2, SessionBounds DEF SidesTyped, Sent, Small
  <1>4. ASSUME overflowed'[side] = FALSE, NEW q \in Sent(other)',
               q = m.ack \/ m.ack - q \in m.bits
        PROVE  delivered'[other][q] > 0
    <2>1. q \in Delivered(other)'
      BY <1>2, <1>3, <1>4, FollowsNames
    <2> QED
      BY <2>1 DEF Delivered
  <1>5. m.bits \subseteq 1 .. AckBits
    BY <1>2 DEF Trackers
  <1> QED
    BY <1>1, <1>2, <1>4, <1>5 DEF IsTrueAck

LEMMA TakeSequenceKeeps ==
  ASSUME SessionInv, NEW side \in Side, TakeSequence(side),
         session' \in {"Open", "Closing", "Closed"}
  PROVE  SessionInv'
  <1> USE DEF SessionInv
  <1>1. PICK seq \in 1 .. MaxSequence[side] : seq = next[side]
    BY SentIsSmall, SessionBounds DEF TakeSequence
  <1>2. seq \in Small /\ Increment(seq) = seq + 1
    <2>1. seq \in Small
      BY SessionBounds DEF Small
    <2> QED
      BY <2>1, SmallSequences
  <1>3. /\ next' = [next EXCEPT ![side] = seq + 1]
        /\ UNCHANGED <<tracker, owesAck, delivered, overflowed>>
    BY <1>1, <1>2 DEF TakeSequence
  <1>4. /\ next'[side] = seq + 1
        /\ \A s \in Side : s # side => next'[s] = next[s]
        /\ next' \in [Side -> Nat]
    BY <1>1, <1>3 DEF SidesTyped
  <1>5. \/ /\ CanRegisterSentPacket(side)
           /\ pending' = [pending EXCEPT ![side] = Put(pending[side], seq, 0)]
           /\ net' = net \cup {Data(side, seq, tracker[side])}
           /\ UNCHANGED abandoned
        \/ /\ abandoned' = [abandoned EXCEPT ![side] = abandoned[side] \cup {seq}]
           /\ UNCHANGED <<pending, net>>
    BY <1>1 DEF TakeSequence
  <1>6. /\ Sent(side)' = Sent(side) \cup {seq}
        /\ \A s \in Side : s # side => Sent(s)' = Sent(s)
    BY <1>1, <1>4, SessionBounds DEF Sent
  <1>7. SidesTyped'
    <2>1. ASSUME NEW s \in Side PROVE next'[s] \in 1 .. MaxSequence[s] + 1
      <3>1. CASE s = side
        BY <1>1, <1>4, <3>1, SessionBounds
      <3>2. CASE s # side
        BY <1>4, <3>2 DEF SidesTyped
      <3> QED
        BY <3>1, <3>2
    <2>2. abandoned' \in [Side -> SUBSET Nat]
      BY <1>1, <1>5 DEF SidesTyped
    <2> QED
      BY <1>3, <1>4, <2>1, <2>2 DEF SidesTyped
  <1>8. Onward
    BY <1>1, <1>3, <1>4 DEF Onward, SidesTyped
  <1>9. TrackersFollow'
    <2>1. \A s \in Side : Delivered(s)' = Delivered(s)
      BY <1>3 DEF Delivered
    <2>2. ASSUME NEW s \in Side
          PROVE  tracker[Other(s)].latest \in 0 .. next'[s] - 1
      <3>1. tracker[Other(s)].latest \in 0 .. next[s] - 1
        BY DEF TrackersFollow
      <3>2. next'[s] \in Nat /\ next[s] \in Nat /\ next[s] <= next'[s]
        BY <1>8 DEF Onward, SidesTyped
      <3> QED
        BY <3>1, <3>2
    <2> QED
      BY <1>3, <2>1, <2>2 DEF TrackersFollow
  <1>10. WindowsFit'
    <2>1. CASE UNCHANGED pending
      BY <1>6, <2>1 DEF WindowsFit
    <2>2. CASE /\ CanRegisterSentPacket(side)
               /\ pending' = [pending EXCEPT ![side] = Put(pending[side], seq, 0)]
      <3>1. /\ DOMAIN pending' = Side
            /\ \A s \in Side : s # side => pending'[s] = pending[s]
            /\ pending'[side] = Put(pending[side], seq, 0)
        BY <2>2 DEF WindowsFit
      <3>2. /\ DOMAIN pending'[side] = DOMAIN pending[side] \cup {seq}
            /\ \A q \in DOMAIN pending'[side] :
                  pending'[side][q] = IF q = seq THEN 0 ELSE pending[side][q]
        BY <3>1 DEF Put
      <3>3. IsFiniteSet(DOMAIN pending[side])
        BY SentIsSmall, FS_Subset DEF WindowsFit
      <3>4. /\ Cardinality(DOMAIN pending[side]) \in Nat
            /\ \/ Cardinality(DOMAIN pending[side] \cup {seq}) = Cardinality(DOMAIN pending[side])
               \/ Cardinality(DOMAIN pending[side] \cup {seq})
                    = Cardinality(DOMAIN pending[side]) + 1
        BY <3>3, FS_AddElement, FS_CardinalityType
      <3>5. Cardinality(DOMAIN pending'[side]) <= MaxPending
        BY <2>2, <3>2, <3>4, SessionBounds DEF CanRegisterSentPacket
      <3>6. \A q \in DOMAIN pending'[side] : pending'[side][q] \in 0 .. MaxResend[side]
        BY <3>2, SessionBounds DEF WindowsFit
      <3>7. DOMAIN pending'[side] \subseteq Sent(side)'
        BY <1>6, <3>2 DEF WindowsFit
      <3> QED
        BY <1>6, <3>1, <3>5, <3>6, <3>7 DEF WindowsFit
    <2> QED
      BY <1>5, <2>1, <2>2
  <1>11. NetIsTrue'
    <2>1. ASSUME NEW m \in net PROVE IsTrueAck(m)'
      BY <1>8, TrueAckStays DEF NetIsTrue
    <2>2. PICK m : m = Data(side, seq, tracker[side])
      OBVIOUS
    <2>3. /\ m.to = Other(side) /\ m.ack = tracker[side].latest /\ m.bits = tracker[side].bits
          /\ m.seq = seq /\ m.kind = "Data"
      BY <2>2 DEF Data
    <2>4. IsTrueAck(m)'
      BY <1>3, <1>6, <1>7, <1>9, <2>3, NewAckIsTrue
    <2> QED
      BY <1>5, <2>1, <2>2, <2>4 DEF NetIsTrue
  <1>12. SettledReached'
    <2>1. ASSUME NEW s \in Side, NEW q \in Sent(s)', q \notin DOMAIN pending'[s],
                 q \notin abandoned'[s]
          PROVE  q \in Sent(s) /\ q \notin DOMAIN pending[s] /\ q \notin abandoned[s]
      <3>1. CASE UNCHANGED abandoned /\ pending' = [pending EXCEPT ![side] = Put(pending[side], seq, 0)]
        <4>1. /\ \A t \in Side : t # side => pending'[t] = pending[t]
              /\ DOMAIN pending'[side] = DOMAIN pending[side] \cup {seq}
          BY <3>1 DEF WindowsFit, Put
        <4> QED
          BY <1>6, <2>1, <3>1, <4>1
      <3>2. CASE /\ abandoned' = [abandoned EXCEPT ![side] = abandoned[side] \cup {seq}]
                 /\ UNCHANGED pending
        <4>1. /\ \A t \in Side : t # side => abandoned'[t] = abandoned[t]
              /\ abandoned'[side] = abandoned[side] \cup {seq}
          BY <3>2 DEF SidesTyped
        <4> QED
          BY <1>6, <2>1, <3>2, <4>1
      <3> QED
        BY <1>5, <3>1, <3>2
    <2> QED
      BY <1>3, <2>1 DEF SettledReached
  <1>13. RepeatsReached'
    BY <1>3 DEF RepeatsReached
  <1> QED
    BY <1>7, <1>9, <1>10, <1>11, <1>12, <1>13

\* What a step does to the windows of both sides, when some of one side's
\* packets are settled by an acknowledgement or given up.
LEMMA SettledKeeps ==
  ASSUME SidesTyped, WindowsFit, SettledReached, Onward, NEW side \in Side, NEW window, NEW gone,
         UNCHANGED next, pending' = [pending EXCEPT ![side] = window],
         abandoned' = [abandoned EXCEPT ![side] = abandoned[side] \cup gone],
         \A q \in DOMAIN pending[side] \ (DOMAIN window \cup gone) :
            delivered[side][q] > 0 \/ overflowed[Other(side)] = TRUE
  PROVE  SettledReached'
  <1>1. /\ pending'[side] = window /\ abandoned'[side] = abandoned[side] \cup gone
        /\ \A s \in Side : s # side => pending'[s] = pending[s] /\ abandoned'[s] = abandoned[s]
    BY DEF SidesTyped, WindowsFit
  <1>2. ASSUME NEW s \in Side, NEW q \in Sent(s)', q \notin DOMAIN pending'[s],
               q \notin abandoned'[s], overflowed'[Other(s)] # TRUE
        PROVE  delivered'[s][q] > 0
    <2>1. q \in Sent(s) /\ q \in 1 .. MaxSequence[s]
      BY <1>2, SentIsSmall DEF Sent
    <2>2. overflowed[Other(s)] # TRUE
      BY <1>2, OtherSide DEF Onward
    <2>3. delivered[s][q] > 0 \/ overflowed[Other(s)] = TRUE
      <3>1. CASE s = side
        BY <1>1, <1>2, <2>1, <3>1 DEF SettledReached
      <3>2. CASE s # side
        BY <1>1, <1>2, <2>1, <3>2 DEF SettledReached
      <3> QED
        BY <3>1, <3>2
    <2> QED
      BY <1>2, <2>1, <2>2, <2>3 DEF Onward
  <1> QED
    BY <1>2 DEF SettledReached

LEMMA ReceiveAckKeeps ==
  ASSUME SessionInv, NEW m \in net, ReceiveAck(m)
  PROVE  SessionInv'
  <1> USE DEF SessionInv
  <1>1. PICK side \in Side : side = m.to
    BY DEF NetIsTrue, IsTrueAck
  <1>2. PICK window : window = Unacked(side, m)
    OBVIOUS
  <1>3. /\ pending' = [pending EXCEPT ![side] = window]
        /\ UNCHANGED <<next, tracker, net, owesAck, delivered, abandoned, overflowed>>
        /\ session' \in {session, "Closed"}
    BY <1>1, <1>2 DEF ReceiveAck, CloseIfSettled
  <1>4. SidesTyped'
    BY <1>3 DEF SidesTyped
  <1>5. Onward
    BY <1>3 DEF SidesTyped, Onward
  <1>6. TrackersFollow' /\ RepeatsReached'
    BY <1>3 DEF TrackersFollow, RepeatsReached, Delivered
  <1>7. NetIsTrue'
    BY <1>3, <1>5, TrueAckStays DEF NetIsTrue
  <1>8. /\ DOMAIN window \subseteq DOMAIN pending[side]
        /\ \A q \in DOMAIN window : window[q] = pending[side][q]
        /\ \A q \in DOMAIN pending[side] \ DOMAIN window :
              delivered[side][q] > 0 \/ overflowed[Other(side)] = TRUE
    BY <1>1, <1>2, UnackedFacts
  <1>9. WindowsFit'
    <2>1. \A q \in DOMAIN window : window[q] \in 0 .. MaxResend[side]
      BY <1>8 DEF WindowsFit
    <2> QED
      BY <1>3, <1>8, <2>1, ShrunkWindow
  <1>10. SettledReached'
    <2>1. abandoned' = [abandoned EXCEPT ![side] = abandoned[side] \cup {}]
      BY <1>3 DEF SidesTyped
    <2>2. \A q \in DOMAIN pending[side] \ (DOMAIN window \cup {}) :
            delivered[side][q] > 0 \/ overflowed[Other(side)] = TRUE
      BY <1>8
    <2> QED
      BY <1>3, <1>5, <2>1, <2>2, SettledKeeps
  <1> QED
    BY <1>4, <1>6, <1>7, <1>9, <1>10

LEMMA ResendKeeps ==
  ASSUME SessionInv, NEW side \in Side, NEW due \in SUBSET DOMAIN pending[side], Resend(side, due)
  PROVE  SessionInv'
  <1> USE DEF SessionInv
  <1>1. PICK lost \in SUBSET DOMAIN pending[side] :
          lost = {q \in due : pending[side][q] >= MaxResend[side]}
    OBVIOUS
  <1>2. PICK window : window = [q \in DOMAIN pending[side] \ lost |->
                       IF q \in due THEN pending[side][q] + 1 ELSE pending[side][q]]
    OBVIOUS
  <1>3. /\ pending' = [pending EXCEPT ![side] = window]
        /\ abandoned' = [abandoned EXCEPT ![side] = abandoned[side] \cup lost]
        /\ UNCHANGED <<next, tracker, net, owesAck, delivered, overflowed>>
        /\ session' \in {session, "Closed"}
    BY <1>1, <1>2 DEF Resend, CloseIfSettled
  <1>4. DOMAIN pending[side] \subseteq Sent(side)
    BY DEF WindowsFit
  <1>5. SidesTyped'
    <2>1. lost \subseteq Nat
      BY <1>4, SentIsSmall DEF Small
    <2> QED
      BY <1>3, <2>1 DEF SidesTyped
  <1>6. Onward
    BY <1>3 DEF SidesTyped, Onward
  <1>7. TrackersFollow' /\ RepeatsReached'
    BY <1>3 DEF TrackersFollow, RepeatsReached, Delivered
  <1>8. NetIsTrue'
    BY <1>3, <1>6, TrueAckStays DEF NetIsTrue
  <1>9. DOMAIN window = DOMAIN pending[side] \ lost
    BY <1>2
  <1>10. WindowsFit'
    <2>1. ASSUME NEW q \in DOMAIN window PROVE window[q] \in 0 .. MaxResend[side]
      <3>1. pending[side][q] \in 0 .. MaxResend[side] /\ MaxResend[side] \in Nat
        BY <1>9, SessionBounds DEF WindowsFit
      <3>2. q \in due => ~ (pending[side][q] >= MaxResend[side])
        BY <1>1, <1>9
      <3> QED
        BY <1>2, <1>9, <3>1, <3>2
    <2> QED
      BY <1>3, <1>9, <2>1, ShrunkWindow
  <1>11. SettledReached'
    BY <1>3, <1>6, <1>9, SettledKeeps
  <1> QED
    BY <1>5, <1>7, <1>8, <1>10, <1>11

LEMMA ClientAckKeeps ==
  ASSUME SessionInv, SendClientAck
  PROVE  SessionInv'
  <1> USE DEF SessionInv
  <1>1. /\ net' = net \cup {Ack("client", tracker["client"])}
        /\ UNCHANGED <<next, pending, tracker, session, delivered, abandoned, overflowed>>
        /\ owesAck' = FALSE
    BY DEF SendClientAck
  <1>2. SidesTyped'
    BY <1>1 DEF SidesTyped
  <1>6. Onward
    BY <1>1 DEF SidesTyped, Onward
  <1>3. TrackersFollow' /\ RepeatsReached' /\ SettledReached'
    BY <1>1 DEF TrackersFollow, RepeatsReached, SettledReached, Delivered, Sent
  <1>4. WindowsFit'
    BY <1>1 DEF WindowsFit, Sent
  <1>5. NetIsTrue'
    <2>1. ASSUME NEW m \in net PROVE IsTrueAck(m)'
      BY <1>6, TrueAckStays DEF NetIsTrue
    <2>2. PICK m : m = Ack("client", tracker["client"])
      OBVIOUS
    <2>3. /\ m.to = Other("client") /\ m.ack = tracker'["client"].latest
          /\ m.bits = tracker'["client"].bits /\ m.kind = "Ack" /\ "client" \in Side
      BY <1>1, <2>2 DEF Ack, Side
    <2>4. IsTrueAck(m)'
      BY <1>2, <1>3, <2>3, NewAckIsTrue
    <2> QED
      BY <1>1, <2>1, <2>2, <2>4 DEF NetIsTrue
  <1> QED
    BY <1>2, <1>3, <1>4, <1>5

LEMMA ReceiveDataKeeps ==
  ASSUME SessionInv, NEW m \in net, ReceiveData(m)
  PROVE  SessionInv'
  <1> USE DEF SessionInv
  <1>1. PICK side \in Side : side = m.to
    BY DEF NetIsTrue, IsTrueAck
  <1>2. PICK other \in Side : other = Other(side) /\ side = Other(other) /\ other # side
    BY OtherSide
  <1>3. PICK seq \in Sent(other) : seq = m.seq
    BY <1>1, <1>2 DEF NetIsTrue, IsTrueAck, ReceiveData
  <1>4. seq \in Small \ {0} /\ seq \in 1 .. MaxSequence[other] /\ seq \in 1 .. next[other] - 1
    BY <1>3, SentIsSmall DEF Sent
  <1>5. PICK window : window = Unacked(side, m)
    OBVIOUS
  <1>6. PICK tr \in Trackers : tr = tracker[side]
    BY DEF TrackersFollow
  <1>7. PICK observed \in ObserveOutcomes(tr, seq) :
          /\ tracker' = [tracker EXCEPT ![side] = observed]
          /\ net' = IF side = "server" THEN net \cup {Ack(side, observed)} ELSE net
    BY <1>1, <1>3, <1>6 DEF ReceiveData
  <1>8. /\ pending' = [pending EXCEPT ![side] = window]
        /\ UNCHANGED <<next, abandoned>>
        /\ owesAck' \in BOOLEAN
        /\ session' \in {session, "Closed"}
    BY <1>1, <1>5 DEF ReceiveData, CloseIfSettled
  <1>9. /\ overflowed' \in [Side -> BOOLEAN]
        /\ overflowed'[other] = overflowed[other]
        /\ overflowed'[side] = TRUE <=> overflowed[side] = TRUE \/ ShiftsByWidth(tr, seq)
    BY <1>1, <1>2, <1>3, <1>6 DEF ReceiveData, SidesTyped
  <1>10. /\ tr.latest \in Small /\ tr.latest \in 0 .. next[other] - 1
         /\ overflowed[side] = FALSE => Follows(tr, Delivered(other))
    <2>1. tr.latest \in 0 .. next[other] - 1
      BY <1>2, <1>6 DEF TrackersFollow
    <2> QED
      BY <1>2, <1>6, <2>1, SentIsSmall DEF TrackersFollow
  <1>11. /\ observed \in Trackers
         /\ observed.hasAny = TRUE
         /\ observed.latest = tr.latest \/ observed.latest = seq
         /\ tr.hasAny = TRUE => observed.latest >= tr.latest
    BY <1>4, <1>7, <1>10, ObserveTyped
  \* The effect on the counts of deliveries.
  <1>12. /\ DOMAIN delivered' = Side
         /\ delivered'[side] = delivered[side]
         /\ delivered'[other] \in [1 .. MaxSequence[other] -> 0 .. 2]
         /\ \A q \in 1 .. MaxSequence[other] : q # seq => delivered'[other][q] = delivered[other][q]
         /\ TrackerHas(tr, seq) => delivered'[other][seq] = delivered[other][seq]
         /\ ~ TrackerHas(tr, seq) =>
               delivered'[other][seq] = IF delivered[other][seq] = 2 THEN 2
                                        ELSE delivered[other][seq] + 1
    <2>1. delivered' = IF TrackerHas(tr, seq) THEN delivered
                       ELSE [delivered EXCEPT ![other][seq] = IF @ = 2 THEN 2 ELSE @ + 1]
      BY <1>1, <1>2, <1>3, <1>6 DEF ReceiveData
    <2>2. delivered[other] \in [1 .. MaxSequence[other] -> 0 .. 2] /\ DOMAIN delivered = Side
      BY DEF SidesTyped
    <2>3. CASE TrackerHas(tr, seq)
      BY <2>1, <2>2, <2>3
    <2>4. CASE ~ TrackerHas(tr, seq)
      <3>1. PICK count \in 0 .. 2 : count = IF delivered[other][seq] = 2 THEN 2
                                            ELSE delivered[other][seq] + 1
        BY <1>4, <2>2
      <3>2. delivered' = [delivered EXCEPT ![other] = [delivered[other] EXCEPT ![seq] = count]]
        BY <2>1, <2>4, <3>1
      <3>3. /\ DOMAIN delivered' = Side /\ delivered'[side] = delivered[side]
            /\ delivered'[other] = [delivered[other] EXCEPT ![seq] = count]
        BY <1>2, <2>2, <3>2
      <3> QED
        BY <1>4, <2>2, <2>4, <3>1, <3>3
    <2> QED
      BY <2>3, <2>4
  <1>13. SidesTyped'
    <2>1. ASSUME NEW s \in Side PROVE delivered'[s] \in [1 .. MaxSequence[s] -> 0 .. 2]
      <3>1. CASE s = side
        BY <1>12, <3>1 DEF SidesTyped
      <3>2. CASE s = other
        BY <1>12, <3>2
      <3> QED
        BY <1>2, <3>1, <3>2, OtherSide
    <2> QED
      BY <1>8, <1>9, <1>12, <2>1 DEF SidesTyped
  <1>14. Onward
    <2>1. ASSUME NEW s \in Side, NEW q \in 1 .. MaxSequence[s], delivered[s][q] > 0
          PROVE  delivered'[s][q] > 0
      <3>1. CASE s = side
        BY <1>12, <2>1, <3>1
      <3>2. CASE s = other /\ q # seq
        BY <1>12, <2>1, <3>2
      <3>3. CASE s = other /\ q = seq
        <4>1. PICK count \in 0 .. 2 : count = delivered[other][seq]
          BY <1>4 DEF SidesTyped
        <4> QED
          BY <1>12, <2>1, <3>3, <4>1
      <3> QED
        BY <1>2, <3>1, <3>2, <3>3, OtherSide
    <2>2. \A s \in Side : overflowed[s] = TRUE => overflowed'[s] = TRUE
      BY <1>2, <1>9, OtherSide
    <2> QED
      BY <1>8, <2>1, <2>2 DEF Onward, SidesTyped
  <1>15. overflowed[side] = FALSE \/ Follows(tr, Delivered(other)) =>
           Delivered(other)' = Delivered(other) \cup {seq}
    <2>1. Follows(tr, Delivered(other)) \/ overflowed[side] = FALSE =>
            Follows(tr, Delivered(other))
      BY <1>10
    <2>2. ASSUME Follows(tr, Delivered(other))
          PROVE  TrackerHas(tr, seq) => seq \in Delivered(other)
      <3>1. Delivered(other) \in SUBSET (Small \ {0})
        BY SessionBounds DEF Delivered, Small
      <3> QED
        BY <1>4, <1>10, <2>2, <3>1, FollowsHas
    <2>3. ASSUME TrackerHas(tr, seq) => seq \in Delivered(other)
          PROVE  delivered'[other][seq] > 0
      <3>1. PICK count \in 0 .. 2 : count = delivered[other][seq]
        BY <1>4 DEF SidesTyped
      <3> QED
        BY <1>12, <2>3, <3>1 DEF Delivered
    <2>4. ASSUME delivered'[other][seq] > 0
          PROVE  Delivered(other)' = Delivered(other) \cup {seq}
      BY <1>4, <1>12, <2>4 DEF Delivered
    <2> QED
      BY <2>1, <2>2, <2>3, <2>4
  <1>16. /\ tracker' \in [Side -> Trackers] /\ tracker'[side] = observed
         /\ tracker'[other] = tracker[other]
    BY <1>2, <1>7, <1>11 DEF TrackersFollow
  <1>17. TrackersFollow'
    <2>1. tracker'[side].latest \in 0 .. next'[other] - 1
      <3>1. next'[other] = next[other] /\ next[other] \in Nat
        BY <1>8 DEF SidesTyped
      <3> QED
        BY <1>4, <1>10, <1>11, <1>16, <3>1
    <2>2. tracker'[other].latest \in 0 .. next'[side] - 1
      BY <1>2, <1>8, <1>16 DEF TrackersFollow
    <2>3. ASSUME overflowed'[side] = FALSE PROVE Follows(tracker'[side], Delivered(other)')
      <3>1. overflowed[side] = FALSE /\ ~ ShiftsByWidth(tr, seq)
        BY <1>9, <2>3 DEF SidesTyped
      <3>2. Follows(tr, Delivered(other)) /\ Delivered(other)' = Delivered(other) \cup {seq}
        BY <1>10, <1>15, <3>1
      <3>3. Delivered(other) \in SUBSET (Small \ {0})
        BY SessionBounds DEF Delivered, Small
      <3>4. Follows(observed, Delivered(other) \cup {seq})
        BY <1>4, <1>7, <1>10, <3>1, <3>2, <3>3, ObserveFollows
      <3> QED
        BY <1>16, <3>2, <3>4
    <2>4. ASSUME overflowed'[other] = FALSE PROVE Follows(tracker'[other], Delivered(side)')
      <3>1. Follows(tracker[other], Delivered(side))
        BY <1>2, <1>9, <2>4 DEF TrackersFollow
      <3>2. Delivered(side)' = Delivered(side)
        BY <1>12 DEF Delivered
      <3> QED
        BY <1>16, <3>1, <3>2
    <2>5. \A s \in Side : /\ tracker'[Other(s)].latest \in 0 .. next'[s] - 1
                          /\ overflowed'[Other(s)] = FALSE =>
                                Follows(tracker'[Other(s)], Delivered(s)')
      BY <1>2, <2>1, <2>2, <2>3, <2>4, OtherSide
    <2> QED
      BY <1>16, <2>5 DEF TrackersFollow
  <1>18. /\ DOMAIN window \subseteq DOMAIN pending[side]
         /\ \A q \in DOMAIN window : window[q] = pending[side][q]
         /\ \A q \in DOMAIN pending[side] \ DOMAIN window :
               delivered[side][q] > 0 \/ overflowed[Other(side)] = TRUE
    BY <1>1, <1>5, UnackedFacts
  <1>19. WindowsFit'
    <2>1. \A q \in DOMAIN window : window[q] \in 0 .. MaxResend[side]
      BY <1>18 DEF WindowsFit
    <2> QED
      BY <1>8, <1>18, <2>1, ShrunkWindow
  <1>20. SettledReached'
    <2>1. abandoned' = [abandoned EXCEPT ![side] = abandoned[side] \cup {}]
      BY <1>8 DEF SidesTyped
    <2>2. \A q \in DOMAIN pending[side] \ (DOMAIN window \cup {}) :
            delivered[side][q] > 0 \/ overflowed[Other(side)] = TRUE
      BY <1>18
    <2> QED
      BY <1>8, <1>14, <2>1, <2>2, SettledKeeps
  <1>21. NetIsTrue'
    <2>1. ASSUME NEW n \in net PROVE IsTrueAck(n)'
      BY <1>14, TrueAckStays DEF NetIsTrue
    <2>2. PICK n : n = Ack(side, observed)
      OBVIOUS
    <2>3. /\ n.to = Other(side) /\ n.ack = tracker'[side].latest
          /\ n.bits = tracker'[side].bits /\ n.kind = "Ack"
      BY <1>16, <2>2 DEF Ack
    <2>4. IsTrueAck(n)'
      BY <1>13, <1>17, <2>3, NewAckIsTrue
    <2> QED
      BY <1>7, <2>1, <2>2, <2>4 DEF NetIsTrue
  <1>22. RepeatsReached'
    <2>1. ASSUME NEW q \in 1 .. MaxSequence[side], delivered'[side][q] > 1,
                 overflowed'[other] = FALSE
          PROVE  tracker'[other].latest - q > AckBits
      BY <1>2, <1>9, <1>12, <1>16, <2>1 DEF RepeatsReached
    <2>2. ASSUME NEW q \in 1 .. MaxSequence[other], delivered'[other][q] > 1,
                 overflowed'[side] = FALSE
          PROVE  tracker'[side].latest - q > AckBits
      <3>1. overflowed[side] = FALSE /\ Follows(tr, Delivered(other))
        BY <1>9, <1>10, <2>2 DEF SidesTyped
      <3>2. delivered[other][q] > 0 /\ tr.latest - q > AckBits
        <4>1. PICK count \in 0 .. 2 : count = delivered[other][q]
          BY DEF SidesTyped
        <4>2. CASE count = 2
          BY <1>2, <1>6, <3>1, <4>1, <4>2 DEF RepeatsReached
        <4>3. CASE count # 2
          <5>1. q = seq /\ ~ TrackerHas(tr, seq) /\ count = 1
            BY <1>12, <2>2, <4>1, <4>3
          <5>2. Delivered(other) \in SUBSET (Small \ {0}) /\ seq \in Delivered(other)
            BY <4>1, <5>1, SessionBounds DEF Delivered, Small
          <5>3. tr.latest - seq > AckBits
            BY <1>4, <1>10, <3>1, <5>1, <5>2, FollowsHas
          <5> QED
            BY <4>1, <5>1, <5>3
        <4> QED
          BY <4>2, <4>3
      <3>3. tr.hasAny = TRUE
        BY <3>1, <3>2 DEF Follows, Delivered, Trackers
      <3>4. observed.latest >= tr.latest /\ observed.latest \in Nat /\ tr.latest \in Nat
        BY <1>4, <1>10, <1>11, <3>3 DEF Small
      <3> QED
        BY <1>16, <3>2, <3>4, SessionBounds
    <2>3. ASSUME NEW s \in Side, NEW q \in 1 .. MaxSequence[s], delivered'[s][q] > 1,
                 overflowed'[Other(s)] # TRUE
          PROVE  tracker'[Other(s)].latest - q > AckBits
      <3>1. PICK t \in Side : t = Other(s)
        BY OtherSide
      <3>2. overflowed'[t] \in BOOLEAN
        BY <1>9
      <3>3. overflowed'[Other(s)] = FALSE
        BY <2>3, <3>1, <3>2, Zenon
      <3> QED
        BY <1>2, <2>1, <2>2, <2>3, <3>3, OtherSide
    <2> QED
      BY <2>3 DEF RepeatsReached
  <1> QED
    BY <1>13, <1>17, <1>19, <1>20, <1>21, <1>22

LEMMA SessionNext ==
  ASSUME SessionInv, [Next]_vars
  PROVE  SessionInv'
  <1>1. ASSUME NEW s \in Side, Send(s) PROVE SessionInv'
    <2>1. TakeSequence(s) /\ session' \in {"Open", "Closing", "Closed"}
      BY <1>1 DEF Send, SessionInv, SidesTyped
    <2> QED
      BY <2>1, TakeSequenceKeeps
  <1>2. CASE SendNoticeAndClose
    <2>1. /\ TakeSequence("server") /\ "server" \in Side
          /\ session' \in {"Open", "Closing", "Closed"}
      BY <1>2 DEF SendNoticeAndClose, Side
    <2> QED
      BY <2>1, TakeSequenceKeeps
  <1>3. ASSUME NEW m \in net, ReceiveData(m) PROVE SessionInv'
    BY <1>3, ReceiveDataKeeps
  <1>4. ASSUME NEW m \in net, ReceiveAck(m) PROVE SessionInv'
    BY <1>4, ReceiveAckKeeps
  <1>5. CASE SendClientAck
    BY <1>5, ClientAckKeeps
  <1>6. ASSUME NEW s \in Side, NEW due \in SUBSET DOMAIN pending[s], Resend(s, due)
        PROVE  SessionInv'
    BY <1>6, ResendKeeps
  <1>7. CASE UNCHANGED vars
    BY <1>7 DEF vars, SessionInv, SidesTyped, WindowsFit, TrackersFollow, NetIsTrue, IsTrueAck,
                SettledReached, RepeatsReached, Delivered, Sent
  <1> QED
    BY <1>1, <1>2, <1>3, <1>4, <1>5, <1>6, <1>7 DEF Next

LEMMA SessionInvHolds == Spec => []SessionInv
  BY SessionInit, SessionNext, PTL DEF Spec

\* What the runs check follows from the invariant.
LEMMA SessionInvMeans ==
  ASSUME SessionInv
  PROVE  SettledWasDelivered /\ RepeatsAreOld
  <1> USE DEF SessionInv
  <1>1. \A s \in Side : next[s] \in Sequence
    <2>1. HalfRange \in Nat /\ Modulus = 2 * HalfRange
      BY SessionBounds DEF Modulus
    <2> QED
      BY <2>1, SessionBounds DEF SidesTyped, Sequence
  <1>2. \A m \in net : m.to \in Side /\ m.ack \in Sequence /\ m.bits \subseteq 1 .. AckBits
    <2>1. ASSUME NEW m \in net PROVE m.ack \in Sequence
      <3>1. m.to \in Side /\ m.ack \in 0 .. next[m.to] - 1
        BY DEF NetIsTrue, IsTrueAck
      <3>2. next[m.to] \in Nat /\ next[m.to] \in Sequence
        BY <1>1, <3>1 DEF SidesTyped
      <3> QED
        BY <3>1, <3>2, SessionBounds DEF Sequence, Modulus
    <2> QED
      BY <2>1 DEF NetIsTrue, IsTrueAck
  <1>3. TypeOK
    BY <1>1, <1>2 DEF TypeOK, SidesTyped, WindowsFit, TrackersFollow
  <1>4. SettledWasDelivered
    BY <1>3 DEF SettledWasDelivered, SettledReached
  <1>5. RepeatsAreOld
    BY SentIsSmall DEF RepeatsAreOld, RepeatsReached
  <1> QED
    BY <1>4, <1>5

\* A reliable packet leaves its window only when the other side has it or it
\* was given up, however the network loses, repeats and reorders.
THEOREM SettledPacketsArrived == Spec => []SettledWasDelivered
  BY SessionInvHolds, SessionInvMeans, PTL

\* The dispatcher sees a packet again only from outside the receiver's field.
THEOREM OnlyOldPacketsRepeat == Spec => []RepeatsAreOld
  BY SessionInvHolds, SessionInvMeans, PTL
=============================================================================
