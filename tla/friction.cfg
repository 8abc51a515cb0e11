SPECIFICATION FairSpec
CONSTANTS
    fr = fr
    h = h
    i = i
    j = j
    a = a
    b = b
    None = None
    Reports <- MCReports
    Health <- MCHealth
    Agents <- MCAgents
    Instances <- MCInstances
    InstanceOf <- MCInstanceOf
    Servers <- MCServers
    Names <- MCNames
    MaxEntries = 1
    MaxTries = 1
    MaxFaults = 1
INVARIANTS NothingLost
PROPERTIES Drained
CHECK_DEADLOCK FALSE
