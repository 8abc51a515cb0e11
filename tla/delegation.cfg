SPECIFICATION Spec
CONSTANTS
    a = a
    b = b
    s = s
    t = t
    c1 = c1
    c2 = c2
    q1 = q1
    q2 = q2
    Keys = {k}
    Payloads = {a, b}
    Sessions = {s, t}
    Submits = {c1, c2}
    Polls = {q1, q2}
    Anonymous = Anonymous
    Damaged = Damaged
    None = None
    MaxSessions = 1
    MaxBinds = 2
    MaxEpoch = 2
    MaxFaults = 1
SYMMETRY MCSymmetry
INVARIANTS AnsweredForCause
PROPERTIES EvidenceStands
CHECK_DEADLOCK FALSE
