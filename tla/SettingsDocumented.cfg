SPECIFICATION Spec
CONSTANTS
    IntBits = 6
    Int32Bits = 5
    DefaultTimeout = 9
    HeaderNames <- Names
    HeaderValues <- Values
    Folded <- Folding
    HopHeaders = {"te"}
    Annotations <- DocumentedValues
    Requests <- SomeRequests
    Prefixes <- PathPrefixes
    ResponseHeaders <- Heads
    MaxTimeout = 12
INVARIANT SettingsAsDocumented
