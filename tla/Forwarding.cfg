SPECIFICATION Spec
CONSTANTS
    IntBits = 6
    Int32Bits = 5
    DefaultTimeout = 9
    HeaderNames <- Names
    HeaderValues <- Values
    Folded <- Folding
    HopHeaders = {"te"}
    Annotations <- AllAnnotations
    Requests <- SomeRequests
    Prefixes <- PathPrefixes
    ResponseHeaders <- Heads
    MaxTimeout = 12
INVARIANT TypeOK
INVARIANT SameEveryTime
INVARIANT RetriedAsSet
INVARIANT HeadersAsConfigured
INVARIANT HopByHop
INVARIANT AuthHonoured
INVARIANT SettingsKept
