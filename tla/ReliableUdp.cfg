SPECIFICATION Spec
CONSTANTS
    HalfRange = 8
    AckBits = 2
    MaxPending = 2
    ClientResends = 0
    ServerResends = 1
    MaxResend <- ResendBounds
    ClientPackets = 4
    ServerPackets = 1
    MaxSequence <- SequenceBounds
INVARIANTS
    SettledWasDelivered
    RepeatsAreOld
PROPERTIES
    ClosingEnds
CHECK_DEADLOCK FALSE
