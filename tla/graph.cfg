SPECIFICATION MCSpec
CONSTANTS
    gather = gather
    deploy = deploy
    report = report
    a = a
    b = b
    c = c
    d = d
    ghost = ghost
    Parent = Parent
    None = None
    Workers = {w1}
    Order <- MCOrder
    Dep <- MCDep
    Gated <- MCGated
    Lenient <- MCLenient
    MaxFaults = 1
    MaxAsks = 3
    Tasks <- MCTasks
    Ghosts = {ghost}
    DependsOn <- MCDependsOn
    Tolerant <- MCTolerant
    MaxDeps = 2
    MaxCrashes = 1
    MaxCancels = 1
    NoJob = NoJob
PROPERTIES GatedRunsApproved WorkStands PipelineSettles JoinsAtomically JoinsResolve
\* Once every task is joined and nothing is blocked the scans have nothing left.
CHECK_DEADLOCK FALSE
