SPECIFICATION HistorySpec
CONSTANTS
    HalfRange = 8
    AckBits = 3
    ReplayBits = 4
    Horizon = 6
INVARIANTS
    HistoriesAreTrue
    VerdictsAreTrue
