SPECIFICATION Spec
CONSTANTS
    Hosts <- MCHosts
    Paths <- MCPaths
    Backends = {b1, b2}
    RequestHosts <- MCRequestHosts
    RequestPaths <- MCRequestPaths
    MaxTargets = 1
INVARIANT EveryRouteHasCluster
