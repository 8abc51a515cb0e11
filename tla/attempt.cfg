SPECIFICATION FairAttempt
CONSTANTS
    Workers = {v, w}
    MaxRuns = 2
    MaxMishaps = 1
    Nobody = Nobody
INVARIANTS AttemptSound
PROPERTIES ExperimentSettles
CHECK_DEADLOCK FALSE
