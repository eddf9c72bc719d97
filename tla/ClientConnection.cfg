SPECIFICATION Spec
CONSTANTS
    Port = {p1, p2, p3}
    NoPort = none
INVARIANTS
    JoinedWasAccepted
    LeftIsGone
PROPERTIES
    StrandedClientNotices
    JoinEnds
    CloseEnds
