SPECIFICATION LedgerSpec
CONSTANTS
    x = x
    y = y
    z = z
    Reviewers = {r, o}
    Owner = o
    Verdicts = {good, bad}
    Accepting = {good}
    Rubrics = {u}
    Unversioned = Unversioned
    Rates = {x, y, z}
    Nobody = Nobody
    MaxTries = 2
    MaxClock = 1
    MaxRuns = 2
    MaxMisses = 1
SYMMETRY MCSymmetry
PROPERTIES ReceiptsStand
CHECK_DEADLOCK FALSE
