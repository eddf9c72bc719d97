SPECIFICATION Spec
CONSTANTS
    Worker = {w1, w2}
    Producer = {p1, p2}
    MaxTask = 3
INVARIANTS
    TasksAreKept
PROPERTIES
    StopEnds
    TasksSettle
    ImplementsTaskPool
CHECK_DEADLOCK FALSE
