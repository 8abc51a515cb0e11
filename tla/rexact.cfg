SPECIFICATION FairSpec
CONSTANTS
    Proposals = {"p", "q"}
    Callers = {1, 2}
    Base <- MCBase
    Cand <- MCCand
    Start <- MCStart
    Overlap = FALSE
    MaxSnapshots = 1
    MaxEpoch = 2
    MaxFlips = 1
    MaxFaults = 2
    None = None
INVARIANTS ClaimHeld DisarmedRestored
PROPERTIES NarrowedFirst Reclaimed
CHECK_DEADLOCK FALSE
