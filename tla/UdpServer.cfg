SPECIFICATION Spec
CONSTANTS
    e1 = e1
    e2 = e2
    alice = alice
    bob = bob
    lobby = lobby
    arena = arena
    w1 = w1
    Endpoint <- Endpoints
    Account <- Accounts
    Room <- Rooms
    Worker <- Workers
    InitialRoom = lobby
    MaxPending = 1
    MaxToken = 3
    MaxPlayer = 3
    MaxBullets = 1
SYMMETRY Symmetry
INVARIANTS
    AccountsLogInOnce
    TablesFollowPeers
    MatchesFollowPeers
PROPERTIES
    TokensKeepTheirPlayer
