SPECIFICATION Spec
CONSTANTS
    Tasks = {t1}
    Children = {}
    Manifest = {t1}
    Workers = {w1, w2}
    Policies = {"require"}
    MaxTries = 2
    MaxFaults = 0
    None = None
PROPERTIES
    TakenOnce
    FencedOwner
SYMMETRY Symmetry
\* The model has no polling of an empty queue: it stops when all is settled.
CHECK_DEADLOCK FALSE
