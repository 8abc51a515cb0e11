SPECIFICATION ScopeSpec
CONSTANTS
    x1 = x1
    x2 = x2
    y1 = y1
    z1 = z1
    va = va
    vb = vb
    vc = vc
    Names = {x1, x2, y1, z1}
    Champion <- MCChampion
    Challenger <- MCChallenger
    Pools <- MCPools
    Results <- MCResults
    Holdout = {1}
    MinPairs = 1
    Ticks = {t}
    Clients = {p, q}
    MaxLosses = 1
    Nothing = Nothing
PROPERTIES ChampionSucceeds RunsKept Concludes
