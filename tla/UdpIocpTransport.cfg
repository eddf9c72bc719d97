SPECIFICATION FairSpec
CONSTANTS
    Worker = {w1, w2}
    RecvContext = {r1, r2}
    SendContext = {s1}
INVARIANTS
    ContextsAreAlive
    ContextsAreAccountedFor
PROPERTIES
    StopEnds
    SendsAreReleased
