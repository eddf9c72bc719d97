SPECIFICATION Spec
CONSTANTS
    Worker = {w1, w2}
    Producer = {p1}
    MaxTask = 1
PROPERTIES
    DrainEnds
CHECK_DEADLOCK FALSE
