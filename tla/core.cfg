SPECIFICATION FairSpec
CONSTANTS
    Tasks = {t1}
    Children = {t1}
    Manifest = {t1}
    Workers = {w1}
    Policies = {"off", "warn", "require", "defer"}
    MaxTries = 2
    MaxFaults = 1
    None = None
INVARIANTS CheckpointSafe
PROPERTIES DeliveredWhenRequired SettlesForGood
\* The model has no polling of an empty queue: it stops when all is settled.
CHECK_DEADLOCK FALSE
