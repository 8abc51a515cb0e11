SPECIFICATION FairSpec
CONSTANTS
    n = n
    x = x
    ra = ra
    rb = rb
    attempt = attempt
    Kinds <- MCKinds
    Natives = {n, u}
    Bound = {n}
    Receipts = {ra, rb}
    Outcomes = {ra, rb}
    Earlier = {rb}
    TaskOf <- MCTaskOf
    AttemptOf <- MCAttemptOf
    Amendments <- MCAmendments
    Captors = {p}
    Intakes = {i}
    Amenders = {d}
    Closers = {c}
    MaxTries = 2
    MaxCloses = 1
    MaxSends = 1
    MaxFaults = 1
    None = None
INVARIANTS RegistrySound
PROPERTIES PendingSettles
CHECK_DEADLOCK FALSE
