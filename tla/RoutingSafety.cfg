SPECIFICATION Spec
CONSTANTS
    Hosts <- MCHosts
    Paths <- MCPaths
    Backends = {b1, b2}
    RequestHosts <- MCRequestHosts
    RequestPaths <- MCRequestPaths
    MaxTargets = 3
INVARIANT MostSpecific
INVARIANT RoutedToItsBackend
SYMMETRY Symmetry
