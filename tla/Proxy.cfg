SPECIFICATION FairSpec
CONSTANTS
    Requests = {r1, r2}
    MaxInstalls = 2
    MaxEndpoints = 2
    Configs <- MixedClusters
    MaxPicks = 2
INVARIANT TypeOK
INVARIANT CountersExact
INVARIANT AuthorizedFirst
INVARIANT RoundRobinEven
PROPERTY UpdateGoesThrough
PROPERTY Answered
