CONSTANTS
    ShortMax = 65535
    IntMax = 127
    UIntMax = 8191
    LongMax = 262143
    TicksPerMs = 4
    Infinity = 600000000
    HardwareThreads = 0
    Player = {p1, p2}
    Match = {m1, m2}
    Files <- FilesMC
    Ports = {0, 7000}
    EntryLists <- EntryListsMC
SPECIFICATION Spec
INVARIANTS
    MatchesAreAccountedFor
    SavedMatchesAreWhole
    AdmittedPlayersAreStored
    DatabaseOutlivesItsUsers
    ConfigIsUsable
PROPERTIES
    CompletedMatchesAreTried
    ImplementsLedger
CHECK_DEADLOCK FALSE
