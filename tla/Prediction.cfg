CONSTANTS
    ShortMax = 9000
    IntMax = 127
    UIntMax = 8191
    LongMax = 16383
    TicksPerMs = 4
    Infinity = 40000000
    World <- WorldMC
    HalfExtent = 1
    MoveSpeed = 20
    r1 = r1
    r2 = r2
    Room = {r1, r2}
    InitialRoom = r2
    WallsOf <- WallsMC
    SpawnsOf <- SpawnsMC
    KeySets <- Walking
    ServerDelta = 100
    IgnoreDistance = 1
    MaxPendingInputs = 2
    MaxTicksPerUpdate = 1
    Files <- FilesMC
    Addresses <- AddressesMC
    Ports = {0, 7000}
    MaxAge = 2
    MaxLag = 1
    MaxSnapshots = 1
    MaxEvents = 1
    Deltas = {75}
SPECIFICATION Spec
INVARIANTS
    PendingIsComplete
    PlayersStayClear
    ClientConfigIsUsable
PROPERTY
    PredictionSettles
CHECK_DEADLOCK FALSE
