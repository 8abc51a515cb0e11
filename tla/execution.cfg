SPECIFICATION MCSpec
CONSTANTS
    Tasks = {a, b}
    Chunks = {1}
    Operators = {o, p}
    MaxFaults = 1
    MaxResumes = 1
    None = None
    Base = Base
    MaxSubtasks = 2
    MaxConcurrency = 2
    HomeserverConcurrency = 1
    MaxRetries = 1
INVARIANTS OwnWorkOnly WorkAccounted GroupsAccounted OrchestrationSound
PROPERTIES PublicationResolved EverythingEnds QuietAfterAbort RunsEnd
\* Every part stops when its work is done.
CHECK_DEADLOCK FALSE
