SPECIFICATION WorldSpec
CONSTANTS
    Room = {r1, r2}
    Other = {p}
    Me = me
    MaxPlayers = 2
    MaxSnapshots = 1
    MaxResponses = 2
    MaxEvents = 2
INVARIANT
    RoomIsTheServers
PROPERTY
    MembersAreShown
